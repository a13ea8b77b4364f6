------------------------------- MODULE ReplayLog -------------------------------
(***************************************************************************)
(* What a session file promises to the hosts that share it: the last       *)
(* history that was saved, and the turns that were logged, whatever fails  *)
(* and whoever writes.  A save that reports success has taken effect; one  *)
(* that reports an error, or dies with its process, may have; nothing else *)
(* changes what a reader finds.  SessionStore implements this.             *)
(***************************************************************************)
EXTENDS Sequences

CONSTANTS Writers,    \* the stores, one per process that has the session open
          Requests,   \* what a writer may ask for
          None        \* no request, or no history saved so far

VARIABLES hist,       \* the history a reader replays
          turns,      \* the turns a reader displays, oldest first
          pending,    \* each writer's request
          ret         \* how each writer's last request ended

vars == <<hist, turns, pending, ret>>

Init ==
  /\ hist = None /\ turns = <<>>
  /\ pending = [w \in Writers |-> None]
  /\ ret = [w \in Writers |-> "none"]

Ask(w, r) ==
  /\ pending[w] = None
  /\ pending' = [pending EXCEPT ![w] = r]
  /\ ret' = [ret EXCEPT ![w] = "none"]
  /\ UNCHANGED <<hist, turns>>

Effect(r) ==
  \/ r.kind = "snapshot" /\ hist' = r.msgs /\ UNCHANGED turns
  \/ r.kind = "turn" /\ turns' = turns \o r.msgs /\ UNCHANGED hist

Finish(w, how) ==
  /\ pending' = [pending EXCEPT ![w] = None]
  /\ ret' = [ret EXCEPT ![w] = how]

Succeed(w) == pending[w] # None /\ Effect(pending[w]) /\ Finish(w, "ok")

Fail(w) ==
  /\ pending[w] # None
  /\ Effect(pending[w]) \/ UNCHANGED <<hist, turns>>
  /\ Finish(w, "error")

Next == \E w \in Writers : (\E r \in Requests : Ask(w, r)) \/ Succeed(w) \/ Fail(w)

Spec == Init /\ [][Next]_vars
================================================================================
