------------------------------- MODULE Grants -------------------------------
(***************************************************************************)
(* What a person allows once and every process of the user reads later:    *)
(* the workspaces that are trusted (internal/config/trust.go) and the      *)
(* remembered approvals of a workspace (internal/permstore).  Both files   *)
(* are read, changed and replaced by a rename; the approvals under a mutex *)
(* of the process and a lock of the file, the trusted list under nothing.  *)
(*                                                                         *)
(* An operator whose comment starts with "Fault:" is a wrong version of    *)
(* the definition below it, used to see that a property notices.           *)
(***************************************************************************)
EXTENDS Integers, FiniteSets, Functions

CONSTANTS
    Callers,      \* commands and handlers that change a file
    Processes,    \* the processes they run in
    Keys,         \* calls (tool and arguments) that may be remembered
    Workspaces,   \* workspaces that may be trusted
    MaxCrashes    \* bound: processes that are killed

VARIABLES
    about,     \* the file a behaviour is about: callers of the other do not meet these
    home,      \* which process a caller runs in
    op,        \* what it does: [kind, on, pc, read]
    rules,     \* the approvals file: key -> decision
    trusted,   \* the trusted list
    secure,    \* the trusted list is a regular file only its owner may read
    mu,        \* permstore.mu of each process, held by a caller
    flock,     \* the lock of the approvals file, held by a caller
    crashes

vars == <<about, home, op, rules, trusted, secure, mu, flock, crashes>>

Nobody == "nobody"
Decisions == {"allow", "deny"}
Approvals == [kind : {"remember"}, on : Keys, as : Decisions] \cup [kind : {"forget"}, on : Keys]
Trusts == [kind : {"trust", "revoke"}, on : Workspaces]

NoOp == [what |-> [kind |-> "none"], pc |-> "idle", read |-> {}]

Init ==
    /\ home \in [Callers -> Processes]
    /\ op = [c \in Callers |-> NoOp]
    /\ about \in {"approvals", "trusted"}
    /\ rules = <<>>
    /\ IF about = "trusted" THEN trusted \in SUBSET Workspaces /\ secure \in BOOLEAN
       ELSE trusted = {} /\ secure = TRUE
    /\ mu = [p \in Processes |-> Nobody] /\ flock = Nobody
    /\ crashes = 0

Start(c) ==
    /\ op[c].pc = "idle"
    /\ \/ about = "approvals" /\ \E w \in Approvals : op' = [op EXCEPT ![c] = [NoOp EXCEPT !.what = w, !.pc = "mu"]]
       \/ about = "trusted" /\ \E w \in Trusts : op' = [op EXCEPT ![c] = [NoOp EXCEPT !.what = w, !.pc = "list"]]
    /\ UNCHANGED <<about, home, rules, trusted, secure, mu, flock, crashes>>

(***************************************************************************)
(* permstore                                                               *)
(***************************************************************************)

\* Remember and Revoke take the mutex of the process first.
Mutex(c) ==
    /\ op[c].pc = "mu" /\ mu[home[c]] = Nobody
    /\ mu' = [mu EXCEPT ![home[c]] = c]
    /\ op' = [op EXCEPT ![c].pc = "lock"]
    /\ UNCHANGED <<about, home, rules, trusted, secure, flock, crashes>>

\* withFileLock and lockFile: the lock is of the file beside the rules.
\* Fault: the mutex is thought to be enough.
NoLock == TRUE
Free == flock = Nobody

Lock(c) ==
    /\ op[c].pc = "lock" /\ Free
    /\ flock' = c
    /\ op' = [op EXCEPT ![c].pc = "load"]
    /\ UNCHANGED <<about, home, rules, trusted, secure, mu, crashes>>

\* Fault: an error forgets the lock of the file.
KeepsLock(c) == flock
Unlocked(c) == IF flock = c THEN Nobody ELSE flock

Unlock(c) ==
    /\ mu' = [mu EXCEPT ![home[c]] = Nobody]
    /\ flock' = Unlocked(c)

\* loadLocked: a file that cannot be read ends the call with its error.
Load(c) ==
    /\ op[c].pc = "load"
    /\ \/ op' = [op EXCEPT ![c].pc = "save", ![c].read = rules] /\ UNCHANGED <<mu, flock>>
       \/ op' = [op EXCEPT ![c] = NoOp] /\ Unlock(c)
    /\ UNCHANGED <<about, home, rules, trusted, secure, crashes>>

\* What Remember and Revoke make of the rules they have read.
Changed(what, r) ==
    IF what.kind = "remember"
    THEN [k \in DOMAIN r \cup {what.on} |-> IF k = what.on THEN what.as ELSE r[k]]
    ELSE Restrict(r, DOMAIN r \ {what.on})

\* saveLocked, to its rename, and the unlocking; or it fails before the rename.
Save(c) ==
    /\ op[c].pc = "save"
    /\ rules' \in {rules, Changed(op[c].what, op[c].read)}
    /\ op' = [op EXCEPT ![c] = NoOp] /\ Unlock(c)
    /\ UNCHANGED <<about, home, trusted, secure, crashes>>

(***************************************************************************)
(* trust                                                                   *)
(***************************************************************************)

\* TrustedWorkspaces: a list others may write to grants nothing.
TrustedWorkspaces == IF secure THEN trusted ELSE {}

List(c) ==
    /\ op[c].pc = "list"
    /\ op' = [op EXCEPT ![c].pc = "write", ![c].read = TrustedWorkspaces]
    /\ UNCHANGED <<about, home, rules, trusted, secure, mu, flock, crashes>>

\* TrustWorkspace and RevokeWorkspace with writeTrusted; nothing is written when
\* nothing changes, and an empty list is removed.
WriteTrusted(c) ==
    LET w == op[c].what
        new == IF w.kind = "trust" THEN op[c].read \cup {w.on} ELSE op[c].read \ {w.on}
    IN  /\ op[c].pc = "write"
        /\ IF new = op[c].read THEN UNCHANGED <<trusted, secure>>
           ELSE trusted' = new /\ secure' = TRUE
        /\ op' = [op EXCEPT ![c] = NoOp]
        /\ UNCHANGED <<about, home, rules, mu, flock, crashes>>

\* A process is killed: its locks are gone with it, and what it had read.
Crash(p) ==
    /\ crashes < MaxCrashes /\ crashes' = crashes + 1
    /\ op' = [c \in Callers |-> IF home[c] = p THEN NoOp ELSE op[c]]
    /\ mu' = [mu EXCEPT ![p] = Nobody]
    /\ flock' = IF flock # Nobody /\ home[flock] = p THEN Nobody ELSE flock
    /\ UNCHANGED <<about, home, rules, trusted, secure>>

Steps(c) == Mutex(c) \/ Lock(c) \/ Load(c) \/ Save(c) \/ List(c) \/ WriteTrusted(c)

Next == (\E c \in Callers : Start(c) \/ Steps(c)) \/ (\E p \in Processes : Crash(p))

Spec == Init /\ [][Next]_vars

(***************************************************************************)
(* Properties                                                              *)
(***************************************************************************)

\* What a person has remembered stays until somebody decides about that very
\* call: no other change of the file, by any process, loses or revives a rule.
RulesKept ==
    [][\A k \in Keys :
          (k \in DOMAIN rules \cup DOMAIN rules'
           /\ ~(k \in DOMAIN rules \cap DOMAIN rules' /\ rules[k] = rules'[k])) =>
              \E c \in Callers : op[c].pc = "save" /\ op[c].what.on = k]_vars

\* The same of the trusted list, which is read and replaced without a lock.
TrustKept ==
    [][\A w \in Workspaces :
          (w \in trusted) # (w \in trusted') =>
              \E c \in Callers : op[c].pc = "write" /\ op[c].what.on = w]_vars

\* A lock is held only by a call that is inside: however a call ended, nobody waits
\* for it (withFileLock's deferred unlock).
LocksHeld ==
    /\ \A p \in Processes : mu[p] # Nobody => home[mu[p]] = p /\ op[mu[p]].pc \in {"lock", "load", "save"}
    /\ flock # Nobody => op[flock].pc \in {"load", "save"}
=============================================================================
