------------------------------ MODULE PhaseOrder ------------------------------
(***************************************************************************)
(* What a workflow promises (ext/workflow/README.md: phases run "sequen-   *)
(* tially", one that was interrupted is "never blindly replayed"): each    *)
(* phase has its effect at most once, after all phases before it, and none *)
(* after the run has come to an end.                                       *)
(***************************************************************************)
EXTENDS Naturals

CONSTANT N          \* phases

VARIABLES
    ran,    \* how often each phase was given to the model or to the verifier
    over    \* the run has ended

vars == <<ran, over>>

Init == ran = [i \in 1..N |-> 0] /\ over = FALSE

\* The first phase that has not been given is given.
Begin ==
    /\ ~over /\ UNCHANGED over
    /\ \E i \in 1..N :
          /\ \A j \in 1..N : ran[j] = IF j < i THEN 1 ELSE 0
          /\ ran' = [ran EXCEPT ![i] = 1]

End == ~over /\ over' = TRUE /\ UNCHANGED ran

Next == Begin \/ End

Spec == Init /\ [][Next]_vars
=============================================================================
