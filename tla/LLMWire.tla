------------------------------ MODULE LLMWire ------------------------------
(***************************************************************************)
(* How a history becomes a request in internal/llm: toOpenAIMessages       *)
(* (openai.go), toAnthropicMessages (anthropic.go), toResponsesInput       *)
(* (responses.go) and messagesWithSystemPrefix (system_prefix.go).         *)
(*                                                                         *)
(* A message of the history is its role, whether it has text, the calls it *)
(* makes (an id, a name and the item id of the responses wire), the id it  *)
(* answers and the models its reasoning items came from.  A request is the *)
(* sequence of its items, each with the place of the message it stands     *)
(* for; system texts have a place of their own.                            *)
(*                                                                         *)
(* An operator whose comment starts with "Fault:" is a wrong version of    *)
(* the definition below it, used to see that a property notices.           *)
(***************************************************************************)
EXTENDS LLMStream

CallOf(id, name, item) == [id |-> id, name |-> name, item |-> item]

Msg(role, text, calls, answers, reasoning) ==
    [role |-> role, text |-> text, calls |-> calls, answers |-> answers,
     reasoning |-> reasoning]

SystemMsg == Msg("system", TRUE, <<>>, "", <<>>)

Item(kind, of, id, item) == [kind |-> kind, of |-> of, id |-> id, item |-> item]

(* The leading system segments; the Anthropic wire sends them apart.       *)
WithSystemPrefix(wire, prefix, messages) ==
    IF wire = "anthropic" THEN messages
    ELSE [i \in 1..prefix |-> SystemMsg] \o messages

Concat(Op(_, _), messages) ==
    FlattenSeq([i \in DOMAIN messages |-> Op(i, messages[i])])

(* The chat wire: a message stays one, its content a string even if empty. *)
ChatItems(i, m) ==
    CASE m.role = "tool" -> <<Item("output", i, m.answers, "")>>
      [] m.role = "assistant" /\ m.calls # <<>> ->
           (IF m.text THEN <<Item("assistant", i, "", "")>> ELSE <<>>)
               \o [j \in DOMAIN m.calls |-> Item("call", i, m.calls[j].id, "")]
      [] OTHER -> <<Item(m.role, i, "", "")>>

(* The Anthropic wire: system texts are taken out, tool results are user   *)
(* blocks, an empty reply keeps an empty text.                             *)
AnthropicItems(i, m) ==
    CASE m.role = "system" -> <<>>
      [] m.role = "user" -> <<Item("user", i, "", "")>>
      [] m.role = "tool" -> <<Item("output", i, m.answers, "")>>
      [] m.role = "assistant" ->
           (IF m.text \/ m.calls = <<>> THEN <<Item("assistant", i, "", "")>> ELSE <<>>)
               \o [j \in DOMAIN m.calls |-> Item("call", i, m.calls[j].id, "")]

(* The reasoning items of a message that came from a model.                *)
ReasoningOf(model, m) ==
    Picked(m.reasoning, {i \in DOMAIN m.reasoning : m.reasoning[i] = model})

(* Fault: item ids are sent whatever reasoning goes with them.             *)
ResponsesItemsLoose(model, i, m) ==
    LET own == ReasoningOf(model, m) IN
    CASE m.role = "system" -> <<>>
      [] m.role = "user" -> <<Item("user", i, "", "")>>
      [] m.role = "tool" -> <<Item("output", i, m.answers, "")>>
      [] m.role = "assistant" ->
           [j \in DOMAIN own |-> Item("reasoning", i, own[j], "")]
           \o (IF m.text THEN <<Item("assistant", i, "", "")>> ELSE <<>>)
           \o [j \in DOMAIN m.calls |->
                 Item("call", i, m.calls[j].id, m.calls[j].item)]

(* The responses wire: reasoning goes back only to the model it came from, *)
(* and only with it go the item ids it is paired with.  Missing ids get a  *)
(* stand-in, an empty reply is left out.                                   *)
ResponsesItems(model, i, m) ==
    LET own == ReasoningOf(model, m)
        id(c) == IF c.item # "" /\ own # <<>> THEN c.item ELSE ""
    IN CASE m.role = "system" -> <<>>
         [] m.role = "user" -> <<Item("user", i, "", "")>>
         [] m.role = "tool" ->
              <<Item("output", i, Default(m.answers, "call_unknown"), "")>>
         [] m.role = "assistant" ->
              [j \in DOMAIN own |-> Item("reasoning", i, own[j], "")]
              \o (IF m.text THEN <<Item("assistant", i, "", "")>> ELSE <<>>)
              \o [j \in DOMAIN m.calls |->
                    Item("call", i, Default(m.calls[j].id, "call_" \o m.calls[j].name),
                         id(m.calls[j]))]

(* The items of a request, an empty input made one user turn.              *)
Request(wire, model, messages) ==
    CASE wire = "chat" -> Concat(ChatItems, messages)
      [] wire = "anthropic" -> Concat(AnthropicItems, messages)
      [] wire = "responses" ->
           LET items == Concat(LAMBDA i, m : ResponsesItems(model, i, m), messages)
           IN IF items = <<>> THEN <<Item("user", 0, "", "")>> ELSE items

(* The system text of a request that keeps it apart from the turns: the    *)
(* places of the messages it is made of.                                   *)
Instructions(wire, messages) ==
    IF wire = "chat" THEN <<>>
    ELSE Picked([i \in DOMAIN messages |-> i],
                {i \in DOMAIN messages : messages[i].role = "system"})

-----------------------------------------------------------------------------
(* A history as repairToolCalls (internal/session) and the agent loop      *)
(* leave it: a result answers a call made before it that no other result   *)
(* answered.  A call kept for its signature may be without an id.          *)
Coherent(messages) ==
    \A i \in DOMAIN messages :
        LET m == messages[i] IN
        /\ m = Msg(m.role, m.text, m.calls, m.answers, m.reasoning)
        /\ m.role \in {"system", "user", "assistant", "tool"} /\ m.text \in BOOLEAN
        /\ m.reasoning \in Seq(STRING)
        /\ m.calls \in Seq([id : STRING, name : STRING, item : STRING])
        /\ m.calls # <<>> => m.role = "assistant"
        /\ m.role # "tool" => m.answers = ""
        /\ m.role = "tool" =>
             /\ m.answers # ""
             /\ \E j \in 1..i - 1 : \E c \in DOMAIN messages[j].calls :
                  messages[j].calls[c].id = m.answers
             /\ \A j \in 1..i - 1 :
                  messages[j].role = "tool" => messages[j].answers # m.answers

-----------------------------------------------------------------------------
(* A request is one the provider takes: every output answers a call before *)
(* it that no output answered, and an item id goes with reasoning of the   *)
(* same turn and the same model.                                           *)
Paired(items) ==
    \A k \in DOMAIN items : items[k].kind = "output" =>
        /\ \E j \in 1..(k - 1) : items[j].kind = "call" /\ items[j].id = items[k].id
        /\ \A j \in 1..(k - 1) : items[j].kind = "output" => items[j].id # items[k].id

ReasoningPaired(model, items) ==
    \A k \in DOMAIN items :
        /\ items[k].kind = "reasoning" => items[k].id = model
        /\ items[k].item # "" =>
             \E j \in 1..(k - 1) : items[j].kind = "reasoning" /\ items[j].of = items[k].of

(* Nothing said is left out and the turns keep their order: each message   *)
(* with something in it has an item or a part in the instructions.         *)
Carried(messages, items, instructions) ==
    /\ \A i \in DOMAIN messages :
         (messages[i].text \/ messages[i].calls # <<>> \/ messages[i].answers # "") =>
             \/ \E k \in DOMAIN items : items[k].of = i
             \/ \E k \in DOMAIN instructions : instructions[k] = i
    /\ \A j, k \in DOMAIN items : j < k => items[j].of <= items[k].of
=============================================================================
