-------------------------------- MODULE Bash --------------------------------
(***************************************************************************)
(* One call of the bash tool (internal/tools/builtin.go: bashTool.Exec):   *)
(* the shell is a process group of its own, its output a pipe that the     *)
(* shell's children may keep open, and the call ends with the shell, with  *)
(* its time limit or with the context of the caller.                       *)
(*                                                                         *)
(* An operator whose comment starts with "Fault:" is a wrong version of    *)
(* the definition below it, used to see that a property notices.           *)
(***************************************************************************)
EXTENDS Integers, FiniteSets

CONSTANT Kids    \* processes the command may start

VARIABLES
    pc,       \* where Exec is
    ctx,      \* the caller's context: live, cancelled or late
    timer,    \* the time limit of the call has passed
    shell,    \* none, running, or how it ended: ok, failed, killed
    kids,     \* each process: none, group, left (it has a group of its own), gone
    holds,    \* those that have the pipe of the output
    waited,   \* what cmd.Wait returned: "", ok, failed, delay
    result    \* what the model is told

vars == <<pc, ctx, timer, shell, kids, holds, waited, result>>

Init ==
    /\ pc = "check" /\ ctx = "live" /\ timer = FALSE /\ shell = "none"
    /\ kids = [k \in Kids |-> "none"] /\ holds = {}
    /\ waited = "" /\ result = ""

Alive(k) == kids[k] \in {"group", "left"}

\* The tool may be refused, the command be empty or one that a tool of its own
\* replaces, the sandbox be missing, or the shell not start.
Refuse ==
    /\ pc = "check"
    /\ pc' = "done" /\ result' = "error"
    /\ UNCHANGED <<ctx, timer, shell, kids, holds, waited>>

Start ==
    /\ pc = "check"
    /\ pc' = "wait" /\ shell' = "running"
    /\ UNCHANGED <<ctx, timer, kids, holds, waited, result>>

(***************************************************************************)
(* The machine                                                             *)
(***************************************************************************)

\* The shell or a process it has started starts another one, in the group or in a
\* session of its own, with the pipe or without.
Fork(k) ==
    /\ kids[k] = "none"
    /\ shell = "running" \/ \E j \in Kids : Alive(j)
    /\ \E where \in {"group", "left"} :
          /\ where = "left" \/ shell = "running" \/ \E j \in Kids : kids[j] = "group"
          /\ kids' = [kids EXCEPT ![k] = where]
    /\ holds' \in {holds, holds \cup {k}}
    /\ UNCHANGED <<pc, ctx, timer, shell, waited, result>>

KidExits(k) ==
    /\ Alive(k)
    /\ kids' = [kids EXCEPT ![k] = "gone"] /\ holds' = holds \ {k}
    /\ UNCHANGED <<pc, ctx, timer, shell, waited, result>>

ShellExits ==
    /\ shell = "running" /\ shell' \in {"ok", "failed"}
    /\ UNCHANGED <<pc, ctx, timer, kids, holds, waited, result>>

Expire ==
    /\ pc = "wait" /\ ~timer /\ timer' = TRUE
    /\ UNCHANGED <<pc, ctx, shell, kids, holds, waited, result>>

Caller ==
    /\ ctx = "live" /\ pc # "done" /\ ctx' \in {"cancelled", "late"}
    /\ UNCHANGED <<pc, timer, shell, kids, holds, waited, result>>

(***************************************************************************)
(* Exec                                                                    *)
(***************************************************************************)

\* cmd.Wait returns when the pipe is closed, and WaitDelay after the shell's end
\* in any case.
Wait ==
    /\ waited = "" /\ shell \notin {"none", "running"}
    /\ \/ holds = {} /\ waited' = IF shell = "ok" THEN "ok" ELSE "failed"
       \/ holds # {} /\ waited' = IF shell = "ok" THEN "delay" ELSE "failed"
    /\ UNCHANGED <<pc, ctx, timer, shell, kids, holds, result>>

\* Kill of the group.
\* Fault: only the shell itself is killed.
KillShell(s) == kids
KillGroup(s) == [k \in Kids |-> IF s[k] = "group" THEN "gone" ELSE s[k]]

Kill ==
    /\ shell' = IF shell = "running" THEN "killed" ELSE shell
    /\ kids' = KillGroup(kids)
    /\ holds' = {k \in holds : kids'[k] # "gone"}

\* What an error is called: the caller's cancel is not a time limit.
\* Fault: every end of the context is the time limit.
AlwaysTimeout(err) == IF ctx # "live" \/ timer THEN "timeout" ELSE "failed"
ErrorName(err) ==
    IF ctx = "cancelled" /\ ~timer THEN "cancelled"
    ELSE IF ctx # "live" \/ timer \/ err = "grace" THEN "timeout"
    ELSE "failed"

Answer(err) ==
    /\ pc' = "done"
    /\ result' \in IF err = "ok" THEN {"ok"}
                   ELSE IF ctx = "cancelled" /\ timer THEN {"cancelled", "timeout"} ELSE {ErrorName(err)}

\* A pipe that was closed over children that hold it is no error of the command.
\* Fault: it is passed on.
AsIs(w) == w
Exited(w) == IF w = "delay" THEN "ok" ELSE w

\* The wait is over: the rest of the group goes with the shell.
Done ==
    /\ pc = "wait" /\ waited # ""
    /\ Kill /\ Answer(Exited(waited))
    /\ UNCHANGED <<ctx, timer, waited>>

\* Fault: the wait is for the shell alone.
Deaf == FALSE
Interrupted == timer \/ ctx # "live"

Interrupt ==
    /\ pc = "wait" /\ Interrupted
    /\ Kill /\ pc' = "killed"
    /\ UNCHANGED <<ctx, timer, waited, result>>

\* After the kill the wait returns, or two seconds pass.
Killed ==
    /\ pc = "killed"
    /\ \/ waited # "" /\ Answer(waited)
       \/ waited = "" /\ Answer("grace")
    /\ UNCHANGED <<ctx, timer, shell, kids, holds, waited>>

Step == Refuse \/ Start \/ Wait \/ Done \/ Interrupt \/ Killed \/ Expire

Next == Step \/ Caller \/ ShellExits \/ \E k \in Kids : Fork(k) \/ KidExits(k)

\* The goroutines run on and clocks too; no process has to end by itself.
Spec == Init /\ [][Next]_vars /\ WF_vars(Step)

(***************************************************************************)
(* Properties                                                              *)
(***************************************************************************)

\* When the call has returned, its shell is gone, and so is every process of the
\* shell's group.
GroupGone == pc = "done" => shell # "running" /\ \A k \in Kids : kids[k] # "group"

\* The call returns, whatever the command and the processes it leaves do.
BashReturns == <>(pc = "done")

\* The model is told what happened: success and failure are the shell's own, the
\* time limit is named only when time is over, the caller when it gave up.
ResultIsTrue ==
    /\ result = "ok" => shell = "ok"
    /\ result = "failed" => shell = "failed" /\ ctx = "live" /\ ~timer
    /\ result = "timeout" => timer \/ ctx = "late"
    /\ result = "cancelled" => ctx = "cancelled"
=============================================================================
