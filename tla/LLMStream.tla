----------------------------- MODULE LLMStream -----------------------------
(***************************************************************************)
(* What a streamed reply means on the three wires of internal/llm: the     *)
(* frames of chat completions (stream.go), Anthropic messages              *)
(* (anthropic_stream.go) and OpenAI responses (responses.go) folded one    *)
(* after another into a parse, and the message or error the parse comes to *)
(* when the body ends.                                                     *)
(*                                                                         *)
(* A text is a sequence of letters, the arguments of a tool call the       *)
(* sequence of the fragments they came in.  Usage, signatures, reasoning   *)
(* texts and provider calls only show the host that the model is at work.  *)
(*                                                                         *)
(* An operator whose comment starts with "Fault:" is a wrong version of    *)
(* the definition below it, used to see that a property notices.           *)
(***************************************************************************)
EXTENDS SequencesExt, Integers

Wires == {"chat", "anthropic", "responses"}

(* A tool call being put together: its place among the reply's items is    *)
(* the key it is kept under.                                               *)
Acc(id, name, args) == [id |-> id, name |-> name, args |-> args]

EmptyParse ==
    [content |-> <<>>, shown |-> <<>>, tools |-> <<>>, items |-> <<>>,
     stop |-> "", terminal |-> FALSE, active |-> FALSE, err |-> FALSE]

(* OnActivity is told once of a reply that is under way.                   *)
Active(p) == [p EXCEPT !.active = TRUE]

(* Fault: a snapshot is shown whole.                                       *)
AppendTextWhole(p, d) ==
    LET cur == p.content IN
    IF d = cur THEN p
    ELSE IF IsPrefix(cur, d) THEN [p EXCEPT !.content = d, !.shown = @ \o d]
    ELSE [p EXCEPT !.content = @ \o d, !.shown = @ \o d]

(* appendSnapshotDelta: a delta that begins with the text so far replaces  *)
(* it, and only what it adds is shown.                                     *)
AppendText(p, d) ==
    LET cur == p.content IN
    IF d = cur THEN p
    ELSE IF IsPrefix(cur, d)
         THEN [p EXCEPT !.content = d, !.shown = @ \o SubSeq(d, Len(cur) + 1, Len(d))]
         ELSE [p EXCEPT !.content = @ \o d, !.shown = @ \o d]

(* The values of f at the places of at up to last, in their order.         *)
Listed(f, at, last) ==
    LET listed[k \in 0..last + 1] ==
          IF k = 0 THEN <<>>
          ELSE IF k - 1 \in at THEN Append(listed[k - 1], f[k - 1])
          ELSE listed[k - 1]
    IN listed[last + 1]

Picked(s, at) == Listed(s, at, Len(s))

Known(f, k) == k \in DOMAIN f
With(f, k, v) == [x \in DOMAIN f \cup {k} |-> IF x = k THEN v ELSE f[x]]
Default(s, d) == IF s = "" THEN d ELSE s

-----------------------------------------------------------------------------
(* One data line of the chat wire.  A finish reason ends the answer but    *)
(* not the stream, [DONE] ends both; a tool delta opens its call if it is  *)
(* the first, whatever it carries.                                         *)
ChatFrame(p, f) ==
    CASE f.t = "junk" -> p
      [] f.t = "done" -> [p EXCEPT !.terminal = TRUE]
      [] f.t = "error" -> [Active(p) EXCEPT !.err = TRUE]
      [] f.t = "other" -> Active(p)
      [] f.t = "finish" -> [Active(p) EXCEPT !.stop = f.stop, !.terminal = TRUE]
      [] f.t = "text" -> AppendText(Active(p), f.text)
      [] f.t = "tool" ->
           LET a == IF Known(p.tools, f.at) THEN p.tools[f.at] ELSE Acc("", "", <<>>)
           IN [Active(p) EXCEPT !.tools =
                 With(@, f.at, Acc(Default(f.id, a.id), Default(f.name, a.name),
                                   a.args \o f.args))]

(* One event of the Anthropic wire.  Fragments for a block that was never  *)
(* opened are dropped; text comes in plain increments.                     *)
AnthropicFrame(p, f) ==
    CASE f.t \in {"junk", "ping"} -> p
      [] f.t = "stop" -> [Active(p) EXCEPT !.terminal = TRUE]
      [] f.t = "error" -> [Active(p) EXCEPT !.err = TRUE]
      [] f.t = "other" -> Active(p)
      [] f.t = "finish" -> [Active(p) EXCEPT !.stop = Default(f.stop, @)]
      [] f.t = "text" ->
           [Active(p) EXCEPT !.content = @ \o f.text, !.shown = @ \o f.text]
      [] f.t = "tool" ->
           [Active(p) EXCEPT !.tools = With(@, f.at, Acc(f.id, f.name, <<>>))]
      [] f.t = "args" ->
           IF ~Known(p.tools, f.at) THEN Active(p)
           ELSE [Active(p) EXCEPT !.tools[f.at].args = @ \o f.args]

-----------------------------------------------------------------------------
(* The responses wire.  An item announces a call, "done" repeats it and    *)
(* may carry arguments that no fragment brought.                           *)
ItemFrame(p, f) ==
    LET a == IF Known(p.tools, f.at) THEN p.tools[f.at] ELSE Acc("", "", <<>>)
        id == IF f.id # "" THEN f.id ELSE Default(a.id, f.item)
        args == IF f.t = "item.done" /\ a.args = <<>> THEN f.args ELSE a.args
    IN [Active(p) EXCEPT
          !.tools = With(@, f.at, Acc(id, Default(f.name, a.name), args)),
          !.items = IF f.item = "" THEN @ ELSE With(@, f.item, f.at)]

(* Fragments go to the item they name, and else to the place they name; an *)
(* orphan is dropped.  "args.done" has the arguments whole.                *)
ArgsFrame(p, f) ==
    LET at == IF Known(p.items, f.item) THEN p.items[f.item] ELSE f.at IN
    IF ~Known(p.tools, at) THEN Active(p)
    ELSE [Active(p) EXCEPT !.tools[at].args =
            CASE f.t = "args" -> @ \o f.args
              [] f.t = "args.done" /\ f.args # <<>> -> f.args
              [] OTHER -> @]

(* messageFromResponses: the calls and the stop reason of a whole          *)
(* response.  Calls with no name or no id are not calls.                   *)
StopOfResponse(r) ==
    CASE r.cut -> "max_tokens"
      [] ~r.cut /\ r.calls # <<>> -> "tool_calls"
      [] OTHER -> "completed"

Callable(calls) ==
    Picked(calls, {i \in DOMAIN calls : calls[i].name # "" /\ calls[i].id # ""})

(* Fault: every function_call item is a call.                              *)
FromResponseLoose(r) ==
    [text |-> r.text, calls |-> r.calls, stop |-> StopOfResponse(r)]

FromResponse(r) ==
    [text |-> r.text, calls |-> Callable(r.calls),
     stop |-> StopOfResponse([r EXCEPT !.calls = Callable(@)])]

(* Fault: the envelope's text is shown though the deltas brought it.       *)
CompletedFrameAgain(p, f) ==
    LET full == FromResponse(f.response) IN
    [Active(p) EXCEPT
        !.terminal = TRUE, !.stop = full.stop,
        !.content = full.text, !.shown = @ \o full.text,
        !.tools = IF @ = <<>> THEN full.calls ELSE @]

(* The closing envelope fills what the deltas did not bring, and never     *)
(* repeats what they did.                                                  *)
CompletedFrame(p, f) ==
    LET full == FromResponse(f.response)
        text == p.content = <<>>
    IN IF f.response.failed THEN [Active(p) EXCEPT !.err = TRUE]
       ELSE [Active(p) EXCEPT
               !.terminal = TRUE,
               !.stop = full.stop,
               !.content = IF text THEN full.text ELSE @,
               !.shown = IF text THEN @ \o full.text ELSE @,
               !.tools = IF @ = <<>> THEN full.calls ELSE @]

(* A closing event whose data do not parse still closes.                   *)
ResponsesFrame(p, f) ==
    CASE f.t \in {"junk", "created"} -> p
      [] f.t = "error" -> [Active(p) EXCEPT !.err = TRUE]
      [] f.t = "other" -> Active(p)
      [] f.t = "text" -> AppendText(Active(p), f.text)
      [] f.t \in {"item", "item.done"} -> ItemFrame(p, f)
      [] f.t \in {"args", "args.done"} -> ArgsFrame(p, f)
      [] f.t = "completed" -> CompletedFrame(p, f)
      [] f.t = "incomplete" ->
           [Active(p) EXCEPT !.terminal = TRUE, !.stop = "max_tokens"]
      [] f.t = "garbled" -> [Active(p) EXCEPT !.terminal = TRUE]

Frame(wire, p, f) ==
    CASE wire = "chat" -> ChatFrame(p, f)
      [] wire = "anthropic" -> AnthropicFrame(p, f)
      [] wire = "responses" -> ResponsesFrame(p, f)

(* The reader stops of itself at these frames; after a finish reason the   *)
(* chat wire reads on to [DONE] or the end of the body.                    *)
StopsReading(wire, p, f) ==
    \/ p.err
    \/ wire = "chat" /\ f.t = "done"
    \/ wire # "chat" /\ p.terminal

-----------------------------------------------------------------------------
(* How the reply ends.  The end of the body is "stopped" (the reader had   *)
(* its last frame), "eof" or "broken" (the body failed).                   *)
Failed == [kind |-> "failed", content |-> <<>>, calls |-> <<>>, stop |-> ""]
Incomplete == [kind |-> "incomplete", content |-> <<>>, calls |-> <<>>, stop |-> ""]
Reply(content, calls, stop) ==
    [kind |-> "message", content |-> content, calls |-> calls, stop |-> stop]

(* The calls in the order of their places.                                 *)
InOrder(tools) == Listed(tools, DOMAIN tools, Max(DOMAIN tools \cup {0}))

(* The chat wire takes a finish reason for the end even if the body fails. *)
ChatEnd(p, how) ==
    IF p.err THEN Failed
    ELSE IF p.terminal THEN Reply(p.content, InOrder(p.tools), p.stop)
    ELSE IF how = "broken" THEN Failed
    ELSE Incomplete

(* The Anthropic wire takes a stop reason for the end at a clean end only. *)
AnthropicEnd(p, how) ==
    IF p.err \/ how = "broken" THEN Failed
    ELSE IF p.terminal \/ p.stop # "" THEN Reply(p.content, InOrder(p.tools), p.stop)
    ELSE Incomplete

(* Fault: a clean end of the body is the end of the answer.                *)
ResponsesEndLax(p, how) ==
    IF p.err \/ how = "broken" THEN Failed
    ELSE Reply(p.content, InOrder(p.tools), Default(p.stop, "stop"))

ResponsesEnd(p, how) ==
    IF p.err \/ how = "broken" THEN Failed
    ELSE IF ~p.terminal THEN Incomplete
    ELSE LET calls == Callable(InOrder(p.tools))
             stop == IF calls # <<>> THEN "tool_calls" ELSE "stop"
         IN Reply(p.content, calls, Default(p.stop, stop))

EndOf(wire, p, how) ==
    CASE wire = "chat" -> ChatEnd(p, how)
      [] wire = "anthropic" -> AnthropicEnd(p, how)
      [] wire = "responses" -> ResponsesEnd(p, how)

(* Fault: whatever was shown.                                              *)
RetryableAlways(p, m) == m.kind = "incomplete"

(* A cut stream may be sent again whole only while nothing was shown.      *)
RetryableIncomplete(p, m) == m.kind = "incomplete" /\ p.content = <<>>

(* A whole body, which gateways that ignore the stream flag also send.     *)
JSONReply(wire, r) ==
    IF r.failed THEN Failed
    ELSE IF wire = "responses"
         THEN LET full == FromResponse(r) IN Reply(full.text, full.calls, full.stop)
         ELSE Reply(r.text, r.calls, IF r.cut THEN "length" ELSE "stop")
=============================================================================
