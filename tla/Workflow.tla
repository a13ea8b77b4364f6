------------------------------ MODULE Workflow ------------------------------
(***************************************************************************)
(* One run of a workflow (ext/workflow): calls of Run and Resume from      *)
(* several processes on the file <id>.json, under a mutex of the process   *)
(* and a flock that the kernel drops when its process dies.  Each phase    *)
(* is marked running in the file before it is given to the model or to     *)
(* the verifier, and succeeded or failed after.                            *)
(*                                                                         *)
(* Of the JSON that goes from phase to phase, only whether a result is     *)
(* accepted.  All calls name the same definition.                          *)
(*                                                                         *)
(* An operator whose comment starts with "Fault:" is a wrong version of    *)
(* the definition below it, used to see that a property notices.           *)
(***************************************************************************)
EXTENDS Naturals

CONSTANTS
    N,          \* phases of the definition
    Calls,      \* calls of Run and Resume, each made once
    Procs, On,  \* processes, and the process of each call
    Mortal,     \* bound: the processes that may die
    None        \* no file, nobody, no state

Phases == 1..N

VARIABLES
    file,       \* <id>.json: the run's status and those of its phases
    mutex,      \* storeLocks: in each process, who has the mutex of this run
    flock,      \* the call that has <id>.json.lock
    pc,         \* where each call is
    resumes,    \* the calls that are a Resume
    mem,        \* the State of each call
    at,         \* the phase its loop is at
    alive,      \* processes that run
    ran         \* how often each phase was given to the model or the verifier

vars == <<file, mutex, flock, pc, resumes, mem, at, alive, ran>>

Statuses == {"pending", "running", "succeeded", "failed", "blocked"}

States == [status : Statuses, phase : [Phases -> Statuses]]

New == [status |-> "pending", phase |-> [i \in Phases |-> "pending"]]

Init ==
    /\ file = None /\ mutex = [p \in Procs |-> None] /\ flock = None
    /\ pc = [c \in Calls |-> "idle"] /\ resumes = {}
    /\ mem = [c \in Calls |-> None] /\ at = [c \in Calls |-> 0]
    /\ alive = Procs /\ ran = [i \in Phases |-> 0]

Goto(c, l) == pc' = [pc EXCEPT ![c] = l]
LockSame == UNCHANGED <<mutex, flock>>
Elsewhere == UNCHANGED <<resumes, alive>>

(***************************************************************************)
(* Store                                                                   *)
(***************************************************************************)

NotLocked == flock = None

\* Resume loads the file to find the definition, and lets go of it again.
Peek(c) ==
    /\ pc[c] = "peek" /\ mutex[On[c]] = None
    /\ Goto(c, IF NotLocked /\ file # None THEN "lock" ELSE "ended")
    /\ UNCHANGED <<file, mem, at, ran>> /\ LockSame /\ Elsewhere

\* Fault: who cannot have the file keeps the mutex.
KeepsMutex(c) == [mutex EXCEPT ![On[c]] = c]

GivenBack(c) == mutex

\* The mutex is waited for, the file is not.
Lock(c) ==
    /\ pc[c] = "lock" /\ mutex[On[c]] = None
    /\ IF NotLocked
       THEN Goto(c, "load") /\ mutex' = [mutex EXCEPT ![On[c]] = c] /\ flock' = c
       ELSE Goto(c, "ended") /\ mutex' = GivenBack(c) /\ UNCHANGED flock
    /\ UNCHANGED <<file, mem, at, ran>> /\ Elsewhere

\* A save replaces the file or fails, and may fail after it has: the call then ends.
Save(c, st, l) ==
    \/ file' = st /\ mem' = [mem EXCEPT ![c] = st] /\ Goto(c, l)
    \/ file' \in {file, st} /\ UNCHANGED mem /\ Goto(c, "unlock")

Unlock(c) ==
    /\ pc[c] = "unlock" /\ Goto(c, "ended")
    /\ mutex' = [mutex EXCEPT ![On[c]] = None] /\ flock' = None
    /\ mem' = [mem EXCEPT ![c] = None] /\ at' = [at EXCEPT ![c] = 0]
    /\ UNCHANGED <<file, ran>> /\ Elsewhere

(***************************************************************************)
(* run                                                                     *)
(***************************************************************************)

Call(c) ==
    /\ pc[c] = "idle" /\ On[c] \in alive
    /\ \/ Goto(c, "lock") /\ UNCHANGED resumes
       \/ Goto(c, "peek") /\ resumes' = resumes \cup {c}
    /\ UNCHANGED <<file, mem, at, alive, ran>> /\ LockSame

Final == {"succeeded", "failed", "blocked"}

\* Run makes a new file, Resume needs one that is not at an end; the file may be
\* unreadable or the definition another.
Load(c) ==
    /\ pc[c] = "load"
    /\ \/ Goto(c, "unlock") /\ UNCHANGED <<file, mem, at>>
       \/ c \notin resumes /\ file = None /\ Save(c, New, "loop") /\ at' = [at EXCEPT ![c] = 1]
       \/ /\ c \in resumes /\ file # None /\ file.status \notin Final
          /\ mem' = [mem EXCEPT ![c] = file] /\ at' = [at EXCEPT ![c] = 1]
          /\ Goto(c, "loop") /\ UNCHANGED file
    /\ UNCHANGED ran /\ LockSame /\ Elsewhere

InLoop(c) == pc[c] = "loop" /\ at[c] \in Phases
Phase(c) == mem[c].phase[at[c]]
With(c, s, p) == [status |-> s, phase |-> [mem[c].phase EXCEPT ![at[c]] = p]]

Skip(c) ==
    /\ InLoop(c) /\ Phase(c) = "succeeded" /\ at' = [at EXCEPT ![c] = @ + 1]
    /\ UNCHANGED <<file, pc, mem, ran>> /\ LockSame /\ Elsewhere

\* Fault: what was interrupted is done again.
Replays(s) == FALSE

Uncertain(s) == s = "running"

\* A phase that was running when its process died may have had its effect.
Block(c) ==
    /\ InLoop(c) /\ Uncertain(Phase(c)) /\ Save(c, With(c, "blocked", "blocked"), "unlock")
    /\ UNCHANGED <<at, ran>> /\ LockSame /\ Elsewhere

\* Fault: the phase is marked when it has ended.
MarkLater(c) ==
    /\ InLoop(c) /\ Phase(c) # "succeeded" /\ ~Uncertain(Phase(c)) /\ Goto(c, "phase")
    /\ UNCHANGED <<file, mem, at, ran>> /\ LockSame /\ Elsewhere

Begin(c) ==
    /\ InLoop(c) /\ Phase(c) # "succeeded" /\ ~Uncertain(Phase(c))
    /\ Save(c, With(c, "running", "running"), "phase")
    /\ UNCHANGED <<at, ran>> /\ LockSame /\ Elsewhere

Give(c) ==
    /\ pc[c] = "phase" /\ Goto(c, "result") /\ ran' = [ran EXCEPT ![at[c]] = @ + 1]
    /\ UNCHANGED <<file, mem, at>> /\ LockSame /\ Elsewhere

Fail(c) ==
    /\ pc[c] = "result" /\ Save(c, With(c, "failed", "failed"), "unlock")
    /\ UNCHANGED <<at, ran>> /\ LockSame /\ Elsewhere

\* With a JSON value within the limits.
Succeed(c) ==
    /\ pc[c] = "result" /\ Save(c, With(c, "pending", "succeeded"), "loop")
    /\ at' = [at EXCEPT ![c] = @ + 1]
    /\ UNCHANGED ran /\ LockSame /\ Elsewhere

Finish(c) ==
    /\ pc[c] = "loop" /\ at[c] = N + 1
    /\ Save(c, [mem[c] EXCEPT !.status = "succeeded"], "unlock")
    /\ UNCHANGED <<at, ran>> /\ LockSame /\ Elsewhere

(***************************************************************************)
(* Around it                                                               *)
(***************************************************************************)

Crash(p) ==
    /\ p \in Mortal \cap alive /\ alive' = alive \ {p}
    /\ pc' = [c \in Calls |-> IF On[c] = p THEN "dead" ELSE pc[c]]
    /\ mem' = [c \in Calls |-> IF On[c] = p THEN None ELSE mem[c]]
    /\ at' = [c \in Calls |-> IF On[c] = p THEN 0 ELSE at[c]]
    /\ mutex' = [mutex EXCEPT ![p] = None]
    /\ flock' = IF flock # None /\ On[flock] = p THEN None ELSE flock
    /\ UNCHANGED <<file, resumes, ran>>

Advance(c) ==
    \/ Peek(c) \/ Lock(c) \/ Load(c) \/ Skip(c) \/ Block(c) \/ Begin(c) \/ Give(c) \/ Fail(c)
    \/ Succeed(c) \/ Finish(c) \/ Unlock(c)

Next == (\E c \in Calls : Call(c) \/ Advance(c)) \/ \E p \in Procs : Crash(p)

Spec == Init /\ [][Next]_vars

\* A call goes on: prompts and verifiers return.
FairSpec == Spec /\ \A c \in Calls : WF_vars(Advance(c))

(***************************************************************************)
(* Properties                                                              *)
(***************************************************************************)

Over == file # None /\ file.status \in Final

Promise == INSTANCE PhaseOrder WITH over <- Over

\* The calls on a run, whichever process dies when and whichever save is lost, have
\* the effects of one sequential run, of which an end may be missing.
InOrder == Promise!Spec

\* A run that is said to have succeeded has had the effect of every phase, and none
\* of them was refused after it.
SuccessIsEarned ==
    file # None /\ file.status = "succeeded" =>
        \A i \in Phases : ran[i] = 1 /\ file.phase[i] = "succeeded"

\* Every call ends.
CallsReturn == \A c \in Calls : pc[c] # "idle" ~> pc[c] \in {"ended", "dead"}
=============================================================================
