-------------------------------- MODULE GoalMC --------------------------------
(***************************************************************************)
(* The run of what works for long: GoalRun, the goal's file and its lock   *)
(* under calls of several processes, GoalStep, one step of a goal with its *)
(* checklist and worktrees, and Workflow, calls that run the phases of one *)
(* definition.  A behaviour is one of the three; the variables of the      *)
(* others stay as they start.                                              *)
(*                                                                         *)
(* GoalRun: three calls on one goal, two of them in one process; what the  *)
(* two do between them is every kind of call, and the third comes from     *)
(* outside.                                                                *)
(***************************************************************************)
EXTENDS GoalRun, FiniteSets

CONSTANTS c1, c2, c3, p1, p2,
          Items, Isolated, ParallelMax, Lists, Marks, Errors, MaxReports, GoalSteps,
          MaxPhases

VARIABLES part,
          status, steps, plan, batch, taskPc, res, stopped, failfast, mu, peer,
          tree, merged, merging, sum,
          file, mutex, fileLock, callPc, resumes, state, at, running, ran

stepVars == <<status, steps, plan, batch, taskPc, res, stopped, failfast, mu, peer,
              tree, merged, merging, sum>>
flowVars == <<file, mutex, fileLock, callPc, resumes, state, at, running, ran>>

\* A sub-step may report a list of its own, of the item it was not given.
MCLists == {[i \in Items \ Isolated |-> "done"]}

S == INSTANCE GoalStep WITH pc <- taskPc, MaxSteps <- GoalSteps
F == INSTANCE Workflow WITH N <- MaxPhases, flock <- fileLock, pc <- callPc, mem <- state, alive <- running

\* The checklist is numbered from 1, a report names no other items; a prompt that
\* fails of itself is not one that was cancelled.
ASSUME StepAssumption ==
    /\ IsFiniteSet(Items) /\ Items = 1..Cardinality(Items)
    /\ Isolated \subseteq Items /\ \A p \in Lists : DOMAIN p \subseteq Items
    /\ {"", "canceled"} \cap Errors = {} /\ MaxReports \in Nat /\ ParallelMax \in Nat

\* Nothing is none of the calls and none of the states a workflow's file can hold.
ASSUME FlowAssumption == MaxPhases \in Nat /\ None \notin Calls /\ None \notin F!States

MCOn  == [x \in Calls |-> IF x = c3 THEN p2 ELSE p1]
MCMay == [x \in Calls |->
            CASE x = c1 -> {"raise", "spec"}
              [] x = c2 -> {"answer", "remove", "force", "reset", "create"}
              [] x = c3 -> {"raise"}]

\* Two processes run the same goal.
MCBoth == [x \in Calls |-> {"raise"}]

all == <<part, vars, stepVars, flowVars>>

MCInit ==
    /\ part \in {"run", "step", "workflow"}
    /\ Init /\ F!Init /\ S!Init
    /\ part # "run" => goal = None
    /\ part # "step" => plan = S!NoPlan

MCNext ==
    /\ UNCHANGED part
    /\ \/ part = "run" /\ Next /\ UNCHANGED <<stepVars, flowVars>>
       \/ part = "step" /\ S!Next /\ UNCHANGED <<vars, flowVars>>
       \/ part = "workflow" /\ F!Next /\ UNCHANGED <<vars, stepVars>>

\* Some call or task goes on: less than the fairness the three state.
Advancing ==
    \/ part = "run" /\ (\E x \in Calls : Advance(x)) /\ UNCHANGED <<stepVars, flowVars>>
    \/ part = "step" /\ S!Steps /\ UNCHANGED <<vars, flowVars>>
    \/ part = "workflow" /\ (\E x \in Calls : F!Advance(x)) /\ UNCHANGED <<vars, stepVars>>

MCSpec == MCInit /\ [][MCNext]_all /\ WF_all(UNCHANGED part /\ Advancing)

\* A parallel step drops no item of the checklist and does not finish a goal whose
\* list is not done; what it merges ended well; its worktrees go; a failure is not
\* reported as the cancellation it caused; a conflict stops the goal.
StepsHold ==
    /\ S!ChecklistHolds /\ S!MergedEndedWell /\ S!WorktreesGo
    /\ S!RootCause /\ S!ConflictStops

\* A workflow's phases have the effects of one sequential run, whichever process
\* dies and whichever save is lost; one that is said to have succeeded has had the
\* effect of every phase.
PhasesInOrder == F!InOrder /\ []F!SuccessIsEarned

\* Every call ends: the step budget runs out whatever the steps return, no step
\* hangs on the repository's lock, and no call on a workflow's.
EveryCallEnds ==
    []<>(/\ \A x \in Calls : pc[x] \in {"idle", "ended", "dead"} /\ callPc[x] \in {"idle", "ended", "dead"}
         /\ batch = {})
=============================================================================
