---------------------------- MODULE Conversation ----------------------------
(***************************************************************************)
(* What a history of messages is to a provider, and what a compaction may  *)
(* make of one (internal/agent/compact.go).  A message is a record with at *)
(* least its role and the ids of the calls it makes or answers.            *)
(*                                                                         *)
(* An operator whose comment starts with "Fault:" is a wrong version of    *)
(* the definition below it, used to see that a property notices.           *)
(***************************************************************************)
EXTENDS Integers, Sequences, FiniteSets

\* A call's id is the reply it came in, negative or 0 for one of an earlier run,
\* and its place there.
Roles              == {"system", "user", "assistant", "tool"}
CallIds            == Seq(Int \X Nat)
Message(role, ids) == [role |-> role, ids |-> ids]
User               == Message("user", <<>>)
Notes(n)           == [i \in 1 .. n |-> User]

First(S) == CHOOSE i \in S : \A j \in S : i <= j

\* The numbers up to n that are in S, in order.
InOrder(n, S) ==
    LET upTo[i \in 0 .. n] ==
            IF i = 0 THEN <<>>
            ELSE IF i \in S THEN Append(upTo[i - 1], i) ELSE upTo[i - 1]
    IN  upTo[n]

(* Fault: the window is kept where it was cut. *)
KeepWindow(kept) == kept

(* alignKeepAtUser: the kept window begins at a user message, and, when it *)
(* has none, at least not with tool results whose call was dropped.        *)
AlignKeepAtUser(kept) ==
    LET users == {i \in 1 .. Len(kept) : kept[i].role = "user"}
        calls == {i \in 1 .. Len(kept) : kept[i].role # "tool"}
    IN  IF users # {} THEN SubSeq(kept, First(users), Len(kept))
        ELSE IF calls # {} THEN SubSeq(kept, First(calls), Len(kept))
        ELSE <<>>

(* CompactTiered, of a history without its system message: snipping tool   *)
(* results keeps every message; dropping leaves the task anchor and the    *)
(* stub, here one user message, and a window of the last messages, at      *)
(* least two; the task anchor of an earlier compaction is not kept.        *)
Compacted(m) ==
    {m} \cup IF Len(m) <= 3 THEN {}
             ELSE {<<User>> \o AlignKeepAtUser(SubSeq(m, Len(m) - k + 1, Len(m))) :
                     k \in 2 .. Len(m)}

(* A conversation a provider accepts: every tool call of an assistant      *)
(* message is answered once, by the messages right after it, and no other  *)
(* message is a tool result.                                               *)
Answers(m, i) ==
    LET n == Len(m[i].ids)
    IN  /\ i + n <= Len(m)
        /\ \A k \in 1 .. n : m[i + k].role = "tool"
        /\ {m[i + k].ids[1] : k \in 1 .. n} = {m[i].ids[k] : k \in 1 .. n}

Belongs(m, i) ==
    \E j \in 1 .. i - 1 : m[j].role = "assistant" /\ i <= j + Len(m[j].ids)

Accepted(m) ==
    \A i \in 1 .. Len(m) : /\ m[i].role = "assistant" => Answers(m, i)
                           /\ m[i].role = "tool" => Belongs(m, i)
=============================================================================
