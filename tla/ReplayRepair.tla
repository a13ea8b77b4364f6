------------------------------ MODULE ReplayRepair ------------------------------
(***************************************************************************)
(* repairToolCalls (internal/session/session.go): what a resumed history   *)
(* becomes before it is sent again.  A message is a record: its role, the  *)
(* ids of the tool calls an assistant made, the call a tool message        *)
(* answers, and a text that tells messages of one role apart.              *)
(*                                                                         *)
(* An operator whose comment starts with "Fault:" is a wrong version of    *)
(* the definition below it, used to see that a property notices.           *)
(***************************************************************************)
EXTENDS Integers, Sequences, SequencesExt

CONSTANTS NoId,    \* a missing id; a call without one is malformed
          Signed   \* a call with no id that carries a thought signature

ASSUME IdsAssumption == NoId # Signed

Msg(role, text)   == [role |-> role, text |-> text, calls |-> <<>>, id |-> NoId]
Asks(ids)         == [role |-> "assistant", text |-> "calls", calls |-> ids, id |-> NoId]
Answer(id, text)  == [role |-> "tool", text |-> text, calls |-> <<>>, id |-> id]

Ids(calls) == ToSet(calls) \ {NoId, Signed}

\* The calls but those in drop, and of two with one id the first.
Without(calls, drop) ==
  LET kept[i \in 0..Len(calls)] ==
        IF i = 0 THEN <<>>
        ELSE IF calls[i] \in drop \cup ToSet(kept[i - 1]) THEN kept[i - 1]
        ELSE Append(kept[i - 1], calls[i])
  IN  kept[Len(calls)]

-----------------------------------------------------------------------------
(* First pass: malformed and repeated calls go, and results of calls not   *)
(* seen so far.                                                            *)

Heed(acc, m) ==
  IF m.role = "tool" /\ m.id # NoId /\ m.id \notin acc.valid
    THEN acc
    ELSE [out   |-> Append(acc.out, [m EXCEPT !.calls = Without(@, {NoId})]),
          valid |-> acc.valid \cup Ids(m.calls)]

Clean(msgs) ==
  LET acc[i \in 0..Len(msgs)] ==
        IF i = 0 THEN [out |-> <<>>, valid |-> {}] ELSE Heed(acc[i - 1], msgs[i])
  IN  acc[Len(msgs)].out

-----------------------------------------------------------------------------
(* Second pass: the run of results after each batch is copied, then        *)
(* filled up.                                                              *)

Interrupted(id) == Answer(id, "interrupted")

\* Answers for the calls of the batch that have none in the run that ended.
Flush(acc) ==
  LET due == Without(acc.calls, {Signed} \cup acc.answered)
  IN  acc.out \o [j \in DOMAIN due |-> Interrupted(due[j])]

Put(acc, m) ==
  IF m.role = "tool"
    THEN [acc EXCEPT !.out = Append(@, m), !.answered = @ \cup {m.id}]
    ELSE [out |-> Append(Flush(acc), m), calls |-> m.calls, answered |-> {}]

Fill(msgs) ==
  LET acc[i \in 0..Len(msgs)] ==
        IF i = 0 THEN [out |-> <<>>, calls |-> <<>>, answered |-> {}]
                 ELSE Put(acc[i - 1], msgs[i])
  IN  Flush(acc[Len(msgs)])

Repair(msgs) == Fill(Clean(msgs))

-----------------------------------------------------------------------------
(* What a provider accepts.                                                *)

\* Message k is one of the results right behind message b.
ResultOf(msgs, k, b) ==
  /\ b \in 1..k - 1 /\ msgs[b].role # "tool"
  /\ \A j \in b + 1..k : msgs[j].role = "tool"

\* Results are behind the batch of their call, unless no batch before has it.
InPlace(msgs) ==
  \A k, b \in DOMAIN msgs : ResultOf(msgs, k, b) =>
    \/ msgs[k].id \in Ids(msgs[b].calls) \cup {NoId}
    \/ \A i \in 1..k - 1 : msgs[k].id \notin Ids(msgs[i].calls)

\* The calls of a batch have ids, each its own; they are answered right behind
\* it, and nothing else is.
Sendable(msgs) ==
  \A b \in DOMAIN msgs : msgs[b].role # "tool" =>
    LET calls == msgs[b].calls
        run   == {k \in DOMAIN msgs : ResultOf(msgs, k, b)}
    IN  /\ {msgs[k].id : k \in run} \ {NoId} = Ids(calls)
        /\ NoId \notin ToSet(calls)
        /\ \A i, j \in DOMAIN calls : calls[i] = calls[j] => i = j

\* No call is answered twice, and none but a signed one without its id.
Once(msgs) ==
  \A k, b \in DOMAIN msgs : ResultOf(msgs, k, b) =>
    /\ \A j \in b + 1..k - 1 : msgs[j].id # msgs[k].id
    /\ msgs[k].id = NoId => Signed \in ToSet(msgs[b].calls)
================================================================================
