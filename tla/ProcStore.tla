------------------------------ MODULE ProcStore ------------------------------
(***************************************************************************)
(* Background processes (internal/proc, ext/proc): a process is detached   *)
(* in a session of its own and known by a file that holds its pid, in a    *)
(* directory that all engines on a workspace share.  An engine stops on    *)
(* Close what it has started and was not told to keep.                     *)
(*                                                                         *)
(* An operator whose comment starts with "Fault:" is a wrong version of    *)
(* the definition below it, used to see that a property notices.           *)
(***************************************************************************)
EXTENDS Integers, FiniteSets

CONSTANTS
    Engines,
    Uses,       \* Uses[e]: the ids the model of engine e chooses
    Pids,       \* process numbers, which are given out again
    MaxStarts   \* bound: processes started

VARIABLES
    proc,       \* pid -> [who, alive, leader, kids]
    file,       \* id -> the pid in its file, 0 for none
    op,         \* what an engine's call does: [kind, id, keep, pc, pid]
    cleanups,   \* ids an engine stops on Close
    open,       \* engines that are not closed
    owned,      \* pid -> the engine that answers for it
    hit,        \* strangers that were signalled
    starts

vars == <<proc, file, op, cleanups, open, owned, hit, starts>>

AllIds == UNION {Uses[e] : e \in Engines}
Free == [who |-> "free", alive |-> FALSE, leader |-> FALSE, kids |-> FALSE]
NoOp == [kind |-> "none", id |-> "", keep |-> FALSE, pc |-> "idle", pid |-> 0]
Nobody == "nobody"

Init ==
    /\ proc = [p \in Pids |-> Free]
    /\ file = [i \in AllIds |-> 0]
    /\ op = [e \in Engines |-> NoOp]
    /\ cleanups = [e \in Engines |-> {}]
    /\ open = Engines /\ owned = [p \in Pids |-> Nobody] /\ hit = {} /\ starts = 0

PidAlive(p) == p # 0 /\ proc[p].alive

\* Fault: any live process with the number is taken for ours.
AnyLive(p) == TRUE
OwnsSession(p) == proc[p].leader

(***************************************************************************)
(* proc_start                                                              *)
(***************************************************************************)

Begin(e, kind, id, keep) ==
    /\ e \in open /\ op[e].pc = "idle"
    /\ op' = [op EXCEPT ![e] = [kind |-> kind, id |-> id, keep |-> keep, pc |-> "check", pid |-> 0]]
    /\ UNCHANGED <<proc, file, cleanups, open, owned, hit, starts>>

\* A pid file whose number is alive ends the call: already running.
StartCheck(e) ==
    /\ op[e].kind = "start" /\ op[e].pc = "check"
    /\ op' = IF PidAlive(file[op[e].id]) THEN [op EXCEPT ![e] = NoOp] ELSE [op EXCEPT ![e].pc = "spawn"]
    /\ UNCHANGED <<proc, file, cleanups, open, owned, hit, starts>>

\* The log cannot be opened or the command not started, or it is, as the leader of
\* a session.
Spawn(e) ==
    /\ op[e].kind = "start" /\ op[e].pc = "spawn"
    /\ \/ op' = [op EXCEPT ![e] = NoOp] /\ UNCHANGED <<proc, starts, owned>>
       \/ \E p \in Pids :
             /\ proc[p].who = "free" /\ starts < MaxStarts
             /\ starts' = starts + 1
             /\ proc' = [proc EXCEPT ![p] = [who |-> "ours", alive |-> TRUE, leader |-> TRUE, kids |-> FALSE]]
             /\ op' = [op EXCEPT ![e].pc = "write", ![e].pid = p]
             /\ owned' = [owned EXCEPT ![p] = Nobody]
    /\ UNCHANGED <<file, cleanups, open, hit>>

\* A process that cannot be recorded is asked to end.
WritePID(e) ==
    /\ op[e].pc = "write"
    /\ \/ /\ file' = [file EXCEPT ![op[e].id] = op[e].pid]
          /\ op' = [op EXCEPT ![e].pc = "settle"]
          /\ proc' = proc
       \/ /\ file' = file
          /\ op' = [op EXCEPT ![e] = NoOp]
          /\ proc' \in {proc, [proc EXCEPT ![op[e].pid] = Free]}
    /\ UNCHANGED <<cleanups, open, owned, hit, starts>>

\* After waitStarted: one that lives is stopped on Close unless it is to be kept.
\* Fault: what is to be kept is stopped, the rest is not.
Inverted(keep) == keep
Registers(keep) == ~keep

Settle(e) ==
    /\ op[e].pc = "settle"
    /\ IF PidAlive(op[e].pid) /\ Registers(op[e].keep)
       THEN cleanups' = [cleanups EXCEPT ![e] = @ \cup {op[e].id}] ELSE cleanups' = cleanups
    /\ owned' = IF PidAlive(op[e].pid) /\ proc[op[e].pid].who = "ours" /\ ~op[e].keep
                THEN [owned EXCEPT ![op[e].pid] = e] ELSE owned
    /\ op' = [op EXCEPT ![e] = NoOp]
    /\ UNCHANGED <<proc, file, open, hit, starts>>

(***************************************************************************)
(* Stop, by proc_stop and by Close                                         *)
(***************************************************************************)

Signalled(p) == IF proc[p].who = "stranger" /\ ~proc[p].leader THEN hit \cup {p} ELSE hit

Remove(e) == file' = [file EXCEPT ![op[e].id] = 0] /\ op' = [op EXCEPT ![e] = NoOp]

\* SIGTERM to the session, which may end it; a record of somebody else's process,
\* or of none, is only removed.
Term(e) ==
    LET p == file[op[e].id]
    IN  /\ op[e].kind = "stop" /\ op[e].pc = "check"
        /\ IF PidAlive(p) /\ OwnsSession(p)
           THEN /\ hit' = Signalled(p)
                /\ proc' \in {proc, [proc EXCEPT ![p] = Free]}
                /\ op' = [op EXCEPT ![e].pc = "grace", ![e].pid = p]
                /\ file' = file
           ELSE Remove(e) /\ UNCHANGED <<proc, hit>>
        /\ UNCHANGED <<cleanups, open, owned, starts>>

\* Whether SIGKILL follows the grace.
\* Fault: it does not.
Polite(p) == FALSE
StillThere(p) == PidAlive(p)

KillRest(e) ==
    /\ op[e].pc = "grace"
    /\ IF StillThere(op[e].pid)
       THEN hit' = Signalled(op[e].pid) /\ proc' = [proc EXCEPT ![op[e].pid] = Free]
       ELSE UNCHANGED <<hit, proc>>
    /\ Remove(e)
    /\ UNCHANGED <<cleanups, open, owned, starts>>

\* Engine.Close: the cleanups one after another, by id.
Close(e) ==
    /\ e \in open /\ op[e].pc = "idle"
    /\ IF cleanups[e] = {}
       THEN open' = open \ {e} /\ UNCHANGED <<cleanups, op>>
       ELSE \E id \in cleanups[e] :
               /\ cleanups' = [cleanups EXCEPT ![e] = @ \ {id}]
               /\ op' = [op EXCEPT ![e] = [kind |-> "stop", id |-> id, keep |-> FALSE, pc |-> "check", pid |-> 0]]
               /\ open' = open
    /\ UNCHANGED <<proc, file, owned, hit, starts>>

(***************************************************************************)
(* The machine                                                             *)
(***************************************************************************)

\* A process ends; those it has started go on in its session, which keeps the
\* number in use.
Exits(p) ==
    /\ proc[p].alive
    /\ proc' = [proc EXCEPT ![p] = IF @.kids THEN [@ EXCEPT !.alive = FALSE] ELSE Free]
    /\ UNCHANGED <<file, op, cleanups, open, owned, hit, starts>>

Forks(p) ==
    /\ proc[p].who = "ours" /\ proc[p].alive /\ ~proc[p].kids
    /\ proc' = [proc EXCEPT ![p].kids = TRUE]
    /\ UNCHANGED <<file, op, cleanups, open, owned, hit, starts>>

KidsExit(p) ==
    /\ proc[p].kids
    /\ proc' = [proc EXCEPT ![p] = IF @.alive THEN [@ EXCEPT !.kids = FALSE] ELSE Free]
    /\ UNCHANGED <<file, op, cleanups, open, owned, hit, starts>>

\* The number goes to a process of somebody else; not within the 200 ms of a Stop.
Recycled(p) ==
    /\ proc[p].who = "free" /\ \A e \in Engines : op[e].pid # p
    /\ \E leader \in BOOLEAN :
          proc' = [proc EXCEPT ![p] = [who |-> "stranger", alive |-> TRUE, leader |-> leader, kids |-> FALSE]]
    /\ owned' = [owned EXCEPT ![p] = Nobody]
    /\ UNCHANGED <<file, op, cleanups, open, hit, starts>>

Next ==
    \/ \E e \in Engines :
          \/ \E id \in Uses[e] : (\E keep \in BOOLEAN : Begin(e, "start", id, keep)) \/ Begin(e, "stop", id, FALSE)
          \/ StartCheck(e) \/ Spawn(e) \/ WritePID(e) \/ Settle(e) \/ Term(e) \/ KillRest(e) \/ Close(e)
    \/ \E p \in Pids : Exits(p) \/ Forks(p) \/ KidsExit(p) \/ Recycled(p)

Spec == Init /\ [][Next]_vars

(***************************************************************************)
(* Properties                                                              *)
(***************************************************************************)

\* A process of somebody else that has got the number of one of ours is not
\* signalled, unless it leads a session as ours do.
StrangersSafe == hit = {}

\* The pid files of an engine are its own: no other engine uses its ids.
Alone(e) == \A f \in Engines \ {e} : Uses[e] \cap Uses[f] = {}

\* An engine that is closed leaves none of the processes running that it has
\* reported as started and was not told to keep.
AutoKilled ==
    \A p \in Pids :
        PidAlive(p) /\ proc[p].who = "ours" /\ owned[p] # Nobody /\ Alone(owned[p]) => owned[p] \in open

\* The same of what such a process has started.
SessionsKilled == \A p \in Pids : proc[p].kids /\ owned[p] # Nobody => owned[p] \in open
=============================================================================
