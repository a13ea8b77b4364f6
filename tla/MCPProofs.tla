------------------------------ MODULE MCPProofs ------------------------------
(***************************************************************************)
(* Proofs about the transports of a server's tools and the grants that are *)
(* kept in files: an inductive invariant for each of the three parts, and  *)
(* from them, for every number of calls, processes, tokens, callers and    *)
(* crashes, the invariant ServersKept of the run, the refinement of        *)
(* ToolTransport by both transports, and RulesKept.                        *)
(***************************************************************************)
EXTENDS MCPMC, FiniteSetTheorems, SequenceTheorems, TLAPS

(***************************************************************************)
(* Grants                                                                  *)
(***************************************************************************)

GrantTypes ==
    /\ home \in [Callers -> Processes]
    /\ op = [c \in Callers |-> op[c]]
    /\ \A c \in Callers : op[c] \in [what : {op[c].what}, pc : {op[c].pc}, read : {op[c].read}]
    /\ mu \in [Processes -> Callers \cup {G!Nobody}]
    /\ flock \in Callers \cup {G!Nobody}

(* Who changes the rules has both locks, and has read the rules there are. *)
GrantInv ==
    /\ GrantTypes
    /\ \A c \in Callers :
        /\ op[c].pc \in {"lock", "load", "save"} => mu[home[c]] = c
        /\ op[c].pc \in {"load", "save"} => flock = c
        /\ op[c].pc = "save" => op[c].read = rules
    /\ G!LocksHeld

LEMMA GrantInit == ASSUME G!Init PROVE GrantInv
BY DEF G!Init, GrantInv, GrantTypes, G!LocksHeld, G!NoOp

(* How a caller's record moves on.                                         *)
LEMMA OpMoves ==
    ASSUME GrantTypes, NEW c \in Callers
    PROVE  /\ \A pc : op' = [op EXCEPT ![c].pc = pc]
                => /\ op' = [d \in Callers |-> op'[d]]
                   /\ \A d \in Callers \ {c} : op'[d] = op[d]
                   /\ op'[c] = [what |-> op[c].what, pc |-> pc, read |-> op[c].read]
           /\ \A r : op' = [op EXCEPT ![c] = r]
                => /\ op' = [d \in Callers |-> op'[d]]
                   /\ \A d \in Callers \ {c} : op'[d] = op[d]
                   /\ op'[c] = r
BY DEF GrantTypes

LEMMA NoOpIs == G!NoOp = [what |-> G!NoOp.what, pc |-> "idle", read |-> G!NoOp.read]
BY DEF G!NoOp

LEMMA Holders ==
    ASSUME GrantInv
    PROVE  /\ \A p \in Processes : mu[p] # G!Nobody
                => mu[p] \in Callers /\ home[mu[p]] = p /\ op[mu[p]].pc \in {"lock", "load", "save"}
           /\ flock # G!Nobody => flock \in Callers /\ op[flock].pc \in {"load", "save"}
<1>1. G!LocksHeld /\ GrantTypes
  BY DEF GrantInv
<1>2. QED
  BY <1>1 DEF GrantTypes, G!LocksHeld

(* A step outside the locks.                                               *)
LEMMA GrantOutside ==
    ASSUME MCPAssumption, GrantInv, NEW c \in Callers, op[c].pc \notin {"lock", "load", "save"},
           op' = [d \in Callers |-> op'[d]],
           op'[c] = [what |-> op'[c].what, pc |-> op'[c].pc, read |-> op'[c].read],
           op'[c].pc \notin {"lock", "load", "save"},
           \A d \in Callers \ {c} : op'[d] = op[d],
           UNCHANGED <<home, rules, mu, flock>>
    PROVE  GrantInv'
<1>1. GrantTypes'
  BY DEF GrantInv, GrantTypes
<1>2. G!LocksHeld'
  BY Holders DEF G!LocksHeld
<1>3. QED
  BY <1>1, <1>2 DEF GrantInv

(* A call that had the locks gives both back.                              *)
LEMMA GrantUnlocks ==
    ASSUME MCPAssumption, GrantInv, NEW c \in Callers, op[c].pc \in {"load", "save"},
           op' = [op EXCEPT ![c] = G!NoOp], G!Unlock(c), UNCHANGED home
    PROVE  GrantInv'
<1>1. GrantTypes /\ flock = c /\ mu[home[c]] = c /\ home[c] \in Processes
  BY DEF GrantInv, GrantTypes
<1>2. /\ op' = [d \in Callers |-> op'[d]] /\ op'[c] = G!NoOp
      /\ \A d \in Callers \ {c} : op'[d] = op[d]
  BY <1>1, OpMoves
<1>3. mu' = [mu EXCEPT ![home[c]] = G!Nobody] /\ flock' = G!Nobody
  BY <1>1 DEF G!Unlock, G!Unlocked
<1>4. op'[c].pc = "idle" /\ op'[c] = [what |-> op'[c].what, pc |-> op'[c].pc, read |-> op'[c].read]
  BY <1>2, NoOpIs
<1>5. GrantTypes'
  BY <1>1, <1>2, <1>3, <1>4 DEF GrantTypes
<1>6. \A p \in Processes : mu'[p] = IF p = home[c] THEN G!Nobody ELSE mu[p]
  BY <1>1, <1>3 DEF GrantTypes
<1>7. \A d \in Callers : d # c => op[d].pc \notin {"load", "save"} /\ (op[d].pc = "lock" => home[d] # home[c])
  BY <1>1 DEF GrantInv
<1>8. \A d \in Callers : op[d].pc = "lock" => d # c
  OBVIOUS
<1>9. \A d \in Callers :
        /\ op'[d].pc \in {"lock", "load", "save"} => mu'[home[d]] = d
        /\ op'[d].pc \notin {"load", "save"}
  BY <1>1, <1>2, <1>4, <1>6, <1>7 DEF GrantInv, GrantTypes
<1>10. \A p \in Processes :
         mu'[p] # G!Nobody => home[mu'[p]] = p /\ op'[mu'[p]].pc \in {"lock", "load", "save"}
  <2>1. SUFFICES ASSUME NEW p \in Processes, mu'[p] # G!Nobody
                 PROVE  home[mu'[p]] = p /\ op'[mu'[p]].pc \in {"lock", "load", "save"}
    OBVIOUS
  <2>2. p # home[c] /\ mu'[p] = mu[p] /\ mu[p] \in Callers
    BY <1>1, <1>6, <2>1 DEF GrantTypes
  <2>3. home[mu[p]] = p /\ op[mu[p]].pc \in {"lock", "load", "save"}
    BY <2>1, <2>2 DEF GrantInv, G!LocksHeld
  <2>4. mu[p] # c
    BY <2>2, <2>3
  <2>5. QED
    BY <1>2, <2>2, <2>3, <2>4
<1>11. QED
  BY <1>3, <1>5, <1>9, <1>10 DEF GrantInv, G!LocksHeld

LEMMA GrantStep == ASSUME MCPAssumption, GrantInv, [G!Next]_(G!vars) PROVE GrantInv'
<1>1. GrantTypes
  BY DEF GrantInv
<1>2. CASE UNCHANGED G!vars
  BY ZenonT(40), <1>2 DEF G!vars, GrantInv, GrantTypes, G!LocksHeld
<1>3. ASSUME NEW c \in Callers, G!Start(c) PROVE GrantInv'
  <2>1. PICK w \in G!Approvals \cup G!Trusts, pc \in {"mu", "list"} : op' = [op EXCEPT ![c] = [G!NoOp EXCEPT !.what = w, !.pc = pc]]
    BY <1>3 DEF G!Start
  <2> DEFINE r == [G!NoOp EXCEPT !.what = w, !.pc = pc]
  <2>2. r \in [what : {w}, pc : {pc}, read : {{}}]
    BY DEF G!NoOp
  <2> HIDE DEF r
  <2>3. /\ op' = [d \in Callers |-> op'[d]] /\ op'[c] = r
        /\ \A d \in Callers \ {c} : op'[d] = op[d]
    BY <1>1, <2>1, OpMoves DEF r
  <2>4. op[c].pc = "idle" /\ UNCHANGED <<home, rules, mu, flock>>
    BY <1>3 DEF G!Start
  <2>5. /\ op'[c].pc \in {"mu", "list"}
        /\ op'[c] = [what |-> op'[c].what, pc |-> op'[c].pc, read |-> op'[c].read]
    BY <2>2, <2>3
  <2>6. QED
    BY <2>3, <2>4, <2>5, GrantOutside
<1>4. ASSUME NEW c \in Callers, G!Mutex(c) PROVE GrantInv'
  <2>1. /\ op[c].pc = "mu" /\ mu[home[c]] = G!Nobody /\ mu' = [mu EXCEPT ![home[c]] = c]
        /\ UNCHANGED <<home, rules, flock>> /\ op' = [op EXCEPT ![c].pc = "lock"]
    BY <1>4 DEF G!Mutex
  <2>2. /\ op' = [d \in Callers |-> op'[d]]
        /\ \A d \in Callers \ {c} : op'[d] = op[d]
        /\ op'[c] = [what |-> op[c].what, pc |-> "lock", read |-> op[c].read]
    BY <1>1, <2>1, OpMoves
  <2>3. home[c] \in Processes /\ \A p \in Processes : mu'[p] = IF p = home[c] THEN c ELSE mu[p]
    BY <1>1, <2>1 DEF GrantTypes
  <2>4. GrantTypes'
    BY <1>1, <2>1, <2>2 DEF GrantTypes
  <2>5. \A d \in Callers :
          /\ op'[d].pc \in {"lock", "load", "save"} => mu'[home[d]] = d
          /\ op'[d].pc \in {"load", "save"} => flock = d
          /\ op'[d].pc = "save" => op'[d].read = rules
    BY <1>1, <2>1, <2>2, <2>3 DEF GrantInv, GrantTypes, MCPAssumption
  <2>6. G!LocksHeld'
    <3>1. \A p \in Processes : mu'[p] # G!Nobody => p = home[c] \/ (p # home[c] /\ mu'[p] = mu[p])
      BY <2>3
    <3>2. op[c].pc = "mu" /\ op'[c].pc = "lock"
      BY <2>1, <2>2
    <3>3. \A p \in Processes : mu'[p] # G!Nobody =>
             home[mu'[p]] = p /\ op'[mu'[p]].pc \in {"lock", "load", "save"}
      BY <2>2, <2>3, <3>1, <3>2, Holders
    <3>4. flock # G!Nobody => op'[flock].pc \in {"load", "save"}
      BY <2>2, <3>2, Holders
    <3>5. QED
      BY <2>1, <3>3, <3>4 DEF G!LocksHeld
  <2>7. QED
    BY <2>1, <2>4, <2>5, <2>6 DEF GrantInv
<1>5. ASSUME NEW c \in Callers, G!Lock(c) PROVE GrantInv'
  <2>1. /\ op[c].pc = "lock" /\ flock = G!Nobody /\ flock' = c
        /\ UNCHANGED <<home, rules, mu>> /\ op' = [op EXCEPT ![c].pc = "load"]
    BY <1>5 DEF G!Lock, G!Free
  <2>2. /\ op' = [d \in Callers |-> op'[d]]
        /\ \A d \in Callers \ {c} : op'[d] = op[d]
        /\ op'[c] = [what |-> op[c].what, pc |-> "load", read |-> op[c].read]
    BY <1>1, <2>1, OpMoves
  <2>3. GrantTypes'
    BY <1>1, <2>1, <2>2 DEF GrantTypes
  <2>4. \A d \in Callers :
          /\ op'[d].pc \in {"lock", "load", "save"} => mu[home[d]] = d
          /\ op'[d].pc \in {"load", "save"} => d = c
          /\ op'[d].pc = "save" => op'[d].read = rules
    BY <2>1, <2>2 DEF GrantInv, MCPAssumption
  <2>5. G!LocksHeld'
    <3>1. \A p \in Processes : mu[p] # G!Nobody =>
             home[mu[p]] = p /\ op'[mu[p]].pc \in {"lock", "load", "save"}
      BY <2>2, Holders
    <3>2. QED
      BY <2>1, <2>2, <3>1 DEF G!LocksHeld
  <2>6. QED
    BY <2>1, <2>3, <2>4, <2>5 DEF GrantInv
<1>6. ASSUME NEW c \in Callers, G!Load(c) PROVE GrantInv'
  <2>1. op[c].pc = "load" /\ UNCHANGED <<home, rules>>
    BY <1>6 DEF G!Load
  <2>2. CASE op' = [op EXCEPT ![c].pc = "save", ![c].read = rules] /\ UNCHANGED <<mu, flock>>
    <3>1. /\ op' = [d \in Callers |-> op'[d]]
          /\ \A d \in Callers \ {c} : op'[d] = op[d]
          /\ op'[c] = [what |-> op[c].what, pc |-> "save", read |-> rules]
      BY <1>1, <2>2 DEF GrantTypes
    <3>2. GrantTypes'
      BY <1>1, <2>1, <2>2, <3>1 DEF GrantTypes
    <3>3. op'[c].pc = "save" /\ op'[c].read = rules
      BY <3>1
    <3>4. G!LocksHeld'
      <4>1. \A p \in Processes : mu[p] # G!Nobody =>
               home[mu[p]] = p /\ op'[mu[p]].pc \in {"lock", "load", "save"}
        BY <3>1, <3>3, Holders
      <4>2. flock # G!Nobody => op'[flock].pc \in {"load", "save"}
        BY <3>1, <3>3, Holders
      <4>3. QED
        BY <2>1, <2>2, <4>1, <4>2 DEF G!LocksHeld
    <3>5. QED
      BY <2>1, <2>2, <3>1, <3>2, <3>3, <3>4 DEF GrantInv
  <2>3. CASE op' = [op EXCEPT ![c] = G!NoOp] /\ G!Unlock(c)
    BY <2>1, <2>3, GrantUnlocks
  <2>4. QED
    BY <1>6, <2>2, <2>3 DEF G!Load
<1>7. ASSUME NEW c \in Callers, G!Save(c) PROVE GrantInv'
  BY <1>7, GrantUnlocks DEF G!Save
<1>8. ASSUME NEW c \in Callers, G!List(c) PROVE GrantInv'
  <2>1. /\ op[c].pc = "list" /\ UNCHANGED <<home, rules, mu, flock>>
        /\ op' = [op EXCEPT ![c].pc = "write", ![c].read = G!TrustedWorkspaces]
    BY <1>8 DEF G!List
  <2>2. /\ op' = [d \in Callers |-> op'[d]]
        /\ \A d \in Callers \ {c} : op'[d] = op[d]
        /\ op'[c] = [what |-> op[c].what, pc |-> "write", read |-> G!TrustedWorkspaces]
    BY <1>1, <2>1 DEF GrantTypes
  <2>3. op'[c].pc = "write" /\ op'[c].what = op[c].what /\ op'[c].read = G!TrustedWorkspaces
    BY <2>2
  <2>4. QED
    BY <2>1, <2>2, <2>3, MCPAssumption, GrantOutside
<1>9. ASSUME NEW c \in Callers, G!WriteTrusted(c) PROVE GrantInv'
  <2>1. /\ op[c].pc = "write" /\ UNCHANGED <<home, rules, mu, flock>>
        /\ op' = [op EXCEPT ![c] = G!NoOp]
    BY <1>9 DEF G!WriteTrusted
  <2>2. /\ op' = [d \in Callers |-> op'[d]] /\ op'[c] = G!NoOp
        /\ \A d \in Callers \ {c} : op'[d] = op[d]
    BY <1>1, <2>1, OpMoves
  <2>3. op'[c].pc = "idle" /\ op'[c] = [what |-> op'[c].what, pc |-> op'[c].pc, read |-> op'[c].read]
    BY <2>2, NoOpIs
  <2>4. QED
    BY <2>1, <2>2, <2>3, GrantOutside
<1>10. ASSUME NEW p \in Processes, G!Crash(p) PROVE GrantInv'
  <2>1. /\ op' = [c \in Callers |-> IF home[c] = p THEN G!NoOp ELSE op[c]]
        /\ mu' = [mu EXCEPT ![p] = G!Nobody] /\ UNCHANGED <<home, rules>>
        /\ flock' = IF flock # G!Nobody /\ home[flock] = p THEN G!Nobody ELSE flock
    BY <1>10 DEF G!Crash
  <2>2. \A c \in Callers : op'[c] = IF home[c] = p THEN G!NoOp ELSE op[c]
    BY <2>1
  <2>3. GrantTypes'
    BY <1>1, <2>1, <2>2, NoOpIs DEF GrantTypes
  <2>4. \A q \in Processes : mu'[q] = IF q = p THEN G!Nobody ELSE mu[q]
    BY <1>1, <2>1 DEF GrantTypes
  <2>5. \A c \in Callers :
          /\ op'[c].pc \in {"lock", "load", "save"} => mu'[home[c]] = c
          /\ op'[c].pc \in {"load", "save"} => flock' = c
          /\ op'[c].pc = "save" => op'[c].read = rules
    BY <1>1, <2>1, <2>2, <2>4, NoOpIs DEF GrantInv, GrantTypes
  <2>6. G!LocksHeld'
    <3>1. ASSUME NEW q \in Processes, mu'[q] # G!Nobody
          PROVE  home[mu'[q]] = q /\ op'[mu'[q]].pc \in {"lock", "load", "save"}
      <4>1. q # p /\ mu'[q] = mu[q] /\ mu[q] \in Callers /\ home[mu[q]] = q
        BY <2>4, <3>1, Holders
      <4>2. QED
        BY <2>2, <3>1, <4>1, Holders
    <3>2. ASSUME flock' # G!Nobody PROVE op'[flock'].pc \in {"load", "save"}
      BY <1>1, <2>1, <2>2, <3>2 DEF GrantInv, GrantTypes, G!LocksHeld
    <3>3. QED
      BY <2>1, <3>1, <3>2 DEF G!LocksHeld
  <2>7. QED
    BY <2>1, <2>3, <2>5, <2>6 DEF GrantInv
<1>11. QED
  BY <1>2, <1>3, <1>4, <1>5, <1>6, <1>7, <1>8, <1>9, <1>10 DEF G!Next, G!Steps

(* What Remember and Revoke make of the rules differs in one key.          *)
LEMMA OnlyThatKey ==
    ASSUME NEW what, NEW r, NEW k, k # what.on
    PROVE  /\ k \in DOMAIN G!Changed(what, r) <=> k \in DOMAIN r
           /\ k \in DOMAIN r => G!Changed(what, r)[k] = r[k]
<1>1. CASE what.kind = "remember"
  BY <1>1 DEF G!Changed
<1>2. CASE what.kind # "remember"
  BY <1>2 DEF G!Changed, G!Restrict
<1>3. QED
  BY <1>1, <1>2

(***************************************************************************)
(* MCPStdio                                                                *)
(***************************************************************************)

Frames == [kind : {"reply", "request", "note"}, id : Calls \cup {0}]
ProcType == [alive : BOOLEAN, sem : Calls \cup {NoCall}, got : SUBSET Calls, run : SUBSET Calls,
             asks : BOOLEAN, out : Seq(Frames)]
StdioLabels == {"idle", "ensure", "pick", "queue", "write", "read", "reset", "done"}
CallType == [pc : StdioLabels, p : 0..MaxStarts, try : {1, 2}, why : {"none", "ctx", "pipe"},
             res : {"none", "own", "error"}]

StdioTypes ==
    /\ cur \in 0..MaxStarts /\ started \in 0..MaxStarts
    /\ proc \in [Procs -> ProcType] /\ call \in [Calls -> CallType] /\ ran \in [Calls -> 0..2]

(* Only the process in use runs, and one not started yet has had nothing.  *)
Running ==
    /\ OneProcess
    /\ cur <= started
    /\ \A p \in Procs : p > started => ~proc[p].alive /\ proc[p].got = {} /\ proc[p].run = {}

(* A call that writes or reads has the semaphore of its process.           *)
Exchanging ==
    \A c \in Calls :
        /\ call[c].pc \in {"queue", "write", "read"} => call[c].p \in Procs /\ call[c].p <= started
        /\ call[c].pc \in {"write", "read"} => proc[call[c].p].sem = c

(* The processes a call was sent to: none before its first write, one      *)
(* before its second.                                                      *)
SentTo(c) == {p \in Procs : c \in proc[p].got \cup proc[p].run}
Unsent(c) == call[c].pc \in {"idle", "ensure", "pick", "queue", "write"}

SentOnce ==
    \A c \in Calls :
        /\ call[c].pc \in {"idle", "reset"} => call[c].try = 1
        /\ call[c].try = 1 => IF Unsent(c) THEN SentTo(c) = {} ELSE SentTo(c) \subseteq {call[c].p}
        /\ call[c].try = 2 => \E q \in 0..MaxStarts :
              IF Unsent(c) THEN SentTo(c) \subseteq {q} ELSE SentTo(c) \subseteq {q, call[c].p}

(* Every process has run a call once at most, and answers what it has run. *)
RunBy(c) == {p \in Procs : c \in proc[p].run}

RunCounted ==
    \A c \in Calls :
        /\ RunBy(c) = {} => ran[c] = 0
        /\ RunBy(c) # {} => ran[c] >= 1
        /\ \A q \in Procs : RunBy(c) \subseteq {q} => ran[c] <= 1

AnswersRun ==
    \A p \in Procs : \A i \in 1..Len(proc[p].out) :
        proc[p].out[i].kind = "reply" => proc[p].out[i].id \in proc[p].run

StdioInv == StdioTypes /\ Running /\ Exchanging /\ SentOnce /\ RunCounted /\ AnswersRun

LEMMA StdioInit == ASSUME MCPAssumption, Init PROVE StdioInv
<1>1. <<>> \in Seq(Frames) /\ Len(<<>>) = 0
  BY EmptySeq
<1>2. \A p \in Procs :
        /\ proc[p] \in [alive : {FALSE}, sem : {NoCall}, got : {{}}, run : {{}}, asks : {FALSE}, out : {<<>>}]
        /\ proc = [q \in Procs |-> proc[q]]
  BY DEF Init, Process
<1>3. \A c \in Calls :
        /\ call[c] \in [pc : {"idle"}, p : {0}, try : {1}, why : {"none"}, res : {"none"}]
        /\ ran[c] = 0
  BY DEF Init
<1>4. /\ cur = 0 /\ started = 0 /\ call = [c \in Calls |-> call[c]] /\ ran = [c \in Calls |-> ran[c]]
      /\ proc = [p \in Procs |-> proc[p]]
  BY DEF Init
<1>5. 0 \in 0..MaxStarts
  BY MCPAssumption
<1>6. StdioTypes
  <2>1. \A p \in Procs : proc[p] \in ProcType
    BY <1>1, <1>2 DEF ProcType, NoCall
  <2>2. \A c \in Calls : call[c] \in CallType /\ ran[c] \in 0..2
    BY <1>3, <1>5 DEF CallType, StdioLabels
  <2>3. QED
    BY <1>4, <1>5, <2>1, <2>2 DEF StdioTypes
<1>7. Running
  <2>1. \A p \in Procs : ~proc[p].alive /\ proc[p].got = {} /\ proc[p].run = {}
    BY <1>2
  <2>2. QED
    BY <1>4, <2>1 DEF Running, OneProcess
<1>8. \A c \in Calls : SentTo(c) = {} /\ RunBy(c) = {}
  BY <1>2 DEF SentTo, RunBy
<1>9. \A c \in Calls : call[c].pc = "idle" /\ call[c].try = 1 /\ ran[c] = 0
  BY <1>3
<1>10. Exchanging
  BY <1>9 DEF Exchanging
<1>11. SentOnce
  BY <1>8, <1>9 DEF SentOnce, Unsent
<1>12. RunCounted
  <2>1. SUFFICES ASSUME NEW c \in Calls
                 PROVE  /\ RunBy(c) = {} => ran[c] = 0
                        /\ RunBy(c) # {} => ran[c] >= 1
                        /\ \A q \in Procs : RunBy(c) \subseteq {q} => ran[c] <= 1
    BY DEF RunCounted
  <2>2. RunBy(c) = {} /\ ran[c] = 0
    BY <1>8, <1>9
  <2>3. QED
    BY <2>2
<1>13. AnswersRun
  <2>1. \A p \in Procs : proc[p].out = <<>>
    BY <1>2
  <2>2. 1..0 = {}
    OBVIOUS
  <2>3. QED
    BY <1>1, <2>1, <2>2 DEF AnswersRun
<1>14. QED
  BY <1>6, <1>7, <1>10, <1>11, <1>12, <1>13 DEF StdioInv

(***************************************************************************)
(* What steps do to the records                                            *)
(***************************************************************************)

LEMMA CallShapes ==
    ASSUME StdioTypes, NEW c \in Calls
    PROVE  /\ \A pc : Goto(c, pc) =>
                /\ \A d \in Calls \ {c} : call'[d] = call[d]
                /\ call' = [d \in Calls |-> call'[d]]
                /\ call'[c] = [call[c] EXCEPT !.pc = pc]
           /\ \A r : Finish(c, r) =>
                /\ \A d \in Calls \ {c} : call'[d] = call[d]
                /\ call' = [d \in Calls |-> call'[d]]
                /\ call'[c] = [[call[c] EXCEPT !.pc = "done"] EXCEPT !.res = r]
           /\ \A why : Failed(c, why) /\ call[c].try = 1 =>
                /\ \A d \in Calls \ {c} : call'[d] = call[d]
                /\ call' = [d \in Calls |-> call'[d]]
                /\ call'[c] = [[call[c] EXCEPT !.pc = "reset"] EXCEPT !.why = why]
           /\ \A why : Failed(c, why) /\ call[c].try # 1 =>
                /\ \A d \in Calls \ {c} : call'[d] = call[d]
                /\ call' = [d \in Calls |-> call'[d]]
                /\ call'[c] = [[call[c] EXCEPT !.pc = "done"] EXCEPT !.res = "error"]
<1>1. call \in [Calls -> CallType]
  BY DEF StdioTypes
<1>2. ASSUME NEW pc, Goto(c, pc)
      PROVE  /\ \A d \in Calls \ {c} : call'[d] = call[d]
             /\ call' = [d \in Calls |-> call'[d]]
             /\ call'[c] = [call[c] EXCEPT !.pc = pc]
  BY <1>1, <1>2 DEF Goto
<1>3. ASSUME NEW r, Finish(c, r)
      PROVE  /\ \A d \in Calls \ {c} : call'[d] = call[d]
             /\ call' = [d \in Calls |-> call'[d]]
             /\ call'[c] = [[call[c] EXCEPT !.pc = "done"] EXCEPT !.res = r]
  BY <1>1, <1>3 DEF Finish
<1>4. ASSUME NEW why, Failed(c, why), call[c].try = 1
      PROVE  /\ \A d \in Calls \ {c} : call'[d] = call[d]
             /\ call' = [d \in Calls |-> call'[d]]
             /\ call'[c] = [[call[c] EXCEPT !.pc = "reset"] EXCEPT !.why = why]
  <2>1. call' = [call EXCEPT ![c].pc = "reset", ![c].why = why]
    BY <1>4 DEF Failed
  <2>2. QED
    BY <1>1, <2>1
<1>5. ASSUME NEW why, Failed(c, why), call[c].try # 1
      PROVE  /\ \A d \in Calls \ {c} : call'[d] = call[d]
             /\ call' = [d \in Calls |-> call'[d]]
             /\ call'[c] = [[call[c] EXCEPT !.pc = "done"] EXCEPT !.res = "error"]
  <2>1. call' = [call EXCEPT ![c].pc = "done", ![c].res = "error"]
    BY <1>5 DEF Failed
  <2>2. QED
    BY <1>1, <2>1
<1>6. QED
  BY <1>2, <1>3, <1>4, <1>5

(* What the exchanges write into the record of a process.                  *)
LEMMA KilledShape ==
    ASSUME StdioTypes
    PROVE  \A P :
             /\ Killed(P) \in [Procs -> ProcType]
             /\ \A p \in Procs :
                 /\ Killed(P)[p].alive = (proc[p].alive /\ p \notin P)
                 /\ Killed(P)[p].sem = proc[p].sem /\ Killed(P)[p].got = proc[p].got
                 /\ Killed(P)[p].run = proc[p].run /\ Killed(P)[p].out = proc[p].out
BY DEF StdioTypes, Killed, ProcType

LEMMA SemShape ==
    ASSUME NEW q \in Procs, NEW s \in Calls \cup {NoCall}, NEW f \in [Procs -> ProcType], NEW g,
           g = [f EXCEPT ![q].sem = s]
    PROVE  /\ g \in [Procs -> ProcType]
           /\ \A p \in Procs :
               /\ g[p].alive = f[p].alive /\ g[p].got = f[p].got /\ g[p].run = f[p].run
               /\ g[p].out = f[p].out /\ g[p].sem = IF p = q THEN s ELSE f[p].sem
BY DEF ProcType

(* A step of call c that sends nothing and runs nothing.                   *)
Quiet(c) ==
    /\ call' = [d \in Calls |-> call'[d]] /\ call'[c] \in CallType
    /\ \A d \in Calls \ {c} : call'[d] = call[d]
    /\ proc' \in [Procs -> ProcType]
    /\ \A p \in Procs :
        /\ proc'[p].got = proc[p].got /\ proc'[p].run = proc[p].run
        /\ proc'[p].alive => proc[p].alive
        /\ proc'[p].out = proc[p].out \/ (proc[p].out # <<>> /\ proc'[p].out = Tail(proc[p].out))
    /\ \A p \in Procs :
        \/ proc'[p].sem = proc[p].sem
        \/ proc[p].sem \in {c, NoCall}
    /\ call'[c].pc \in {"queue", "write", "read"} => call'[c].p \in Procs /\ call'[c].p <= started
    /\ call'[c].pc \in {"write", "read"} => proc'[call'[c].p].sem = c
    /\ call'[c].pc \in {"idle", "reset"} => call'[c].try = 1
    /\ \/ call'[c].try = call[c].try /\ Unsent(c)
       \/ call'[c].try = call[c].try /\ call'[c].p = call[c].p /\ ~Unsent(c)'
       \/ call'[c].try = 2 /\ call[c].try = 1
    /\ started' = started /\ ran' = ran

LEMMA QuietKeeps ==
    ASSUME MCPAssumption, StdioInv, NEW c \in Calls, Quiet(c),
           cur' \in 0..MaxStarts, cur' <= started, OneProcess'
    PROVE  StdioInv'
<1>1. StdioTypes /\ c # NoCall
  BY DEF StdioInv, MCPAssumption, NoCall
<1>2. StdioTypes'
  <2>1. \A d \in Calls : call'[d] \in CallType
    BY <1>1 DEF Quiet, StdioTypes
  <2>2. QED
    BY <1>1, <2>1 DEF Quiet, StdioTypes
<1>3. Running'
  <2>1. \A p \in Procs : p > started => ~proc[p].alive /\ proc[p].got = {} /\ proc[p].run = {}
    BY DEF StdioInv, Running
  <2>2. QED
    BY <2>1 DEF Quiet, Running
<1>4. Exchanging'
  <2>1. ASSUME NEW d \in Calls, d # c, call[d].pc \in {"write", "read"} PROVE proc'[call[d].p].sem = d
    BY <1>1, <2>1, MCPAssumption DEF Quiet, StdioInv, Exchanging, NoCall
  <2>2. QED
    BY <2>1 DEF Quiet, StdioInv, Exchanging
<1>5. ASSUME NEW d \in Calls PROVE SentTo(d)' = SentTo(d) /\ RunBy(d)' = RunBy(d)
  BY DEF Quiet, SentTo, RunBy
<1>6. SentOnce'
  <2>1. ASSUME NEW d \in Calls, d # c PROVE call'[d] = call[d]
    BY <2>1 DEF Quiet
  <2>2. /\ call[c].p \in 0..MaxStarts /\ call[c].try \in {1, 2} /\ call'[c].try \in {1, 2}
    BY <1>1, <1>2 DEF StdioTypes, CallType
  <2>3. /\ call'[c].try = 1 => IF Unsent(c)' THEN SentTo(c) = {} ELSE SentTo(c) \subseteq {call'[c].p}
        /\ call'[c].try = 2 => \E q \in 0..MaxStarts :
              IF Unsent(c)' THEN SentTo(c) \subseteq {q} ELSE SentTo(c) \subseteq {q, call'[c].p}
    <3>1. CASE call'[c].try = call[c].try /\ Unsent(c)
      <4>1. CASE call[c].try = 1
        <5>1. SentTo(c) = {}
          BY <3>1, <4>1 DEF StdioInv, SentOnce
        <5>2. QED
          BY <3>1, <4>1, <5>1
      <4>2. CASE call[c].try = 2
        <5>1. PICK q \in 0..MaxStarts : SentTo(c) \subseteq {q}
          BY <3>1, <4>2 DEF StdioInv, SentOnce
        <5>2. QED
          BY <3>1, <4>2, <5>1
      <4>3. QED
        BY <2>2, <4>1, <4>2
    <3>2. CASE call'[c].try = call[c].try /\ call'[c].p = call[c].p /\ ~Unsent(c)' /\ ~Unsent(c)
      BY <2>2, <3>2 DEF StdioInv, SentOnce
    <3>3. CASE call'[c].try = 2 /\ call[c].try = 1
      <4>1. SentTo(c) \subseteq {call[c].p}
        BY <3>3 DEF StdioInv, SentOnce
      <4>2. QED
        BY <2>2, <3>3, <4>1
    <3>4. QED
      BY <3>1, <3>2, <3>3 DEF Quiet
  <2>4. QED
    BY <1>5, <2>1, <2>3 DEF Quiet, StdioInv, SentOnce, Unsent
<1>7. RunCounted'
  BY <1>5 DEF Quiet, StdioInv, RunCounted
<1>8. AnswersRun'
  <2>1. SUFFICES ASSUME NEW p \in Procs, NEW i \in 1..Len(proc'[p].out), proc'[p].out[i].kind = "reply"
                 PROVE  proc'[p].out[i].id \in proc'[p].run
    BY DEF AnswersRun
  <2>2. proc[p].out \in Seq(Frames) /\ proc'[p].run = proc[p].run
    BY <1>1 DEF Quiet, StdioTypes, ProcType
  <2>3. CASE proc'[p].out = proc[p].out
    BY <2>1, <2>2, <2>3 DEF StdioInv, AnswersRun
  <2>4. CASE proc[p].out # <<>> /\ proc'[p].out = Tail(proc[p].out)
    <3>1. /\ Len(proc'[p].out) = Len(proc[p].out) - 1 /\ Len(proc[p].out) \in Nat
          /\ proc'[p].out[i] = proc[p].out[i + 1]
      BY <2>1, <2>2, <2>4
    <3>2. i + 1 \in 1..Len(proc[p].out)
      BY <2>1, <3>1
    <3>3. QED
      BY <2>1, <2>2, <3>1, <3>2 DEF StdioInv, AnswersRun
  <2>5. QED
    BY <2>3, <2>4 DEF Quiet
<1>9. QED
  BY <1>2, <1>3, <1>4, <1>6, <1>7, <1>8 DEF StdioInv

(***************************************************************************)
(* The steps of a call                                                     *)
(***************************************************************************)

(* Where a call is after the step, and what that says of its record.       *)
LEMMA CallGoes ==
    ASSUME StdioTypes, NEW c \in Calls
    PROVE  /\ \A pc \in StdioLabels : Goto(c, pc) =>
                /\ call' = [d \in Calls |-> call'[d]] /\ call'[c] \in CallType
                /\ \A d \in Calls \ {c} : call'[d] = call[d]
                /\ call'[c].pc = pc /\ call'[c].p = call[c].p /\ call'[c].try = call[c].try
           /\ \A r \in {"none", "own", "error"} : Finish(c, r) =>
                /\ call' = [d \in Calls |-> call'[d]] /\ call'[c] \in CallType
                /\ \A d \in Calls \ {c} : call'[d] = call[d]
                /\ call'[c].pc = "done" /\ call'[c].p = call[c].p /\ call'[c].try = call[c].try
           /\ \A why \in {"ctx", "pipe"} : Failed(c, why) =>
                /\ call' = [d \in Calls |-> call'[d]] /\ call'[c] \in CallType
                /\ \A d \in Calls \ {c} : call'[d] = call[d]
                /\ call'[c].pc \in {"reset", "done"} /\ call'[c].p = call[c].p
                /\ call'[c].try = call[c].try /\ (call'[c].pc = "reset" => call[c].try = 1)
<1>1. call[c] \in CallType
  BY DEF StdioTypes
<1>2. ASSUME NEW pc \in StdioLabels, Goto(c, pc)
      PROVE  /\ call' = [d \in Calls |-> call'[d]] /\ call'[c] \in CallType
             /\ \A d \in Calls \ {c} : call'[d] = call[d]
             /\ call'[c].pc = pc /\ call'[c].p = call[c].p /\ call'[c].try = call[c].try
  <2>1. /\ \A d \in Calls \ {c} : call'[d] = call[d]
        /\ call' = [d \in Calls |-> call'[d]]
        /\ call'[c] = [call[c] EXCEPT !.pc = pc]
    BY <1>2, CallShapes
  <2>2. QED
    BY <1>1, <1>2, <2>1 DEF CallType
<1>3. ASSUME NEW r \in {"none", "own", "error"}, Finish(c, r)
      PROVE  /\ call' = [d \in Calls |-> call'[d]] /\ call'[c] \in CallType
             /\ \A d \in Calls \ {c} : call'[d] = call[d]
             /\ call'[c].pc = "done" /\ call'[c].p = call[c].p /\ call'[c].try = call[c].try
  <2>1. /\ \A d \in Calls \ {c} : call'[d] = call[d]
        /\ call' = [d \in Calls |-> call'[d]]
        /\ call'[c] = [[call[c] EXCEPT !.pc = "done"] EXCEPT !.res = r]
    BY <1>3, CallShapes
  <2>2. QED
    BY <1>1, <1>3, <2>1 DEF CallType, StdioLabels
<1>4. ASSUME NEW why \in {"ctx", "pipe"}, Failed(c, why)
      PROVE  /\ call' = [d \in Calls |-> call'[d]] /\ call'[c] \in CallType
             /\ \A d \in Calls \ {c} : call'[d] = call[d]
             /\ call'[c].pc \in {"reset", "done"} /\ call'[c].p = call[c].p
             /\ call'[c].try = call[c].try /\ (call'[c].pc = "reset" => call[c].try = 1)
  <2>1. CASE call[c].try = 1
    <3>1. /\ \A d \in Calls \ {c} : call'[d] = call[d]
          /\ call' = [d \in Calls |-> call'[d]]
          /\ call'[c] = [[call[c] EXCEPT !.pc = "reset"] EXCEPT !.why = why]
      BY <1>4, <2>1, CallShapes
    <3>2. QED
      BY <1>1, <1>4, <2>1, <3>1 DEF CallType, StdioLabels
  <2>2. CASE call[c].try # 1
    <3>1. /\ \A d \in Calls \ {c} : call'[d] = call[d]
          /\ call' = [d \in Calls |-> call'[d]]
          /\ call'[c] = [[call[c] EXCEPT !.pc = "done"] EXCEPT !.res = "error"]
      BY <1>4, <2>2, CallShapes
    <3>2. QED
      BY <1>1, <1>4, <3>1 DEF CallType, StdioLabels
  <2>3. QED
    BY <1>1, <2>1, <2>2 DEF CallType
<1>5. QED
  BY <1>2, <1>3, <1>4

LEMMA InUse ==
    ASSUME StdioInv, cur' = cur, closing' = closing, \A p \in Procs : proc'[p].alive => proc[p].alive
    PROVE  OneProcess' /\ cur' \in 0..MaxStarts /\ cur' <= started
BY DEF StdioInv, StdioTypes, Running, OneProcess

LEMMA Untouched ==
    ASSUME StdioTypes, proc' = proc
    PROVE  /\ proc' \in [Procs -> ProcType]
           /\ \A p \in Procs :
               /\ proc'[p].got = proc[p].got /\ proc'[p].run = proc[p].run
               /\ proc'[p].alive => proc[p].alive
               /\ proc'[p].out = proc[p].out
               /\ proc'[p].sem = proc[p].sem
BY DEF StdioTypes

(* The steps before a call is at a process.                                *)
LEMMA StdioStarts ==
    ASSUME MCPAssumption, StdioInv, NEW c \in Calls,
           \/ Call(c)
           \/ Ensure(c) /\ UNCHANGED <<cur, started, proc>>
           \/ CancelQueued(c)
    PROVE  StdioInv'
<1>1. StdioTypes
  BY DEF StdioInv
<1>2. proc' = proc /\ cur' = cur /\ closing' = closing /\ started' = started /\ ran' = ran /\ Unsent(c)
  BY DEF Call, Ensure, CancelQueued, Unsent
<1>3. /\ call' = [d \in Calls |-> call'[d]] /\ call'[c] \in CallType
      /\ \A d \in Calls \ {c} : call'[d] = call[d]
      /\ call'[c].pc \notin {"queue", "write", "read", "idle"} /\ call'[c].p = call[c].p
      /\ call'[c].try = call[c].try /\ (call'[c].pc = "reset" => call[c].try = 1)
  <2>1. CASE Call(c)
    BY <1>1, <2>1, CallGoes DEF Call, StdioLabels
  <2>2. CASE Ensure(c) /\ UNCHANGED <<cur, started, proc>>
    <3>1. Finish(c, "error") \/ Goto(c, "pick")
      BY <2>2 DEF Ensure
    <3>2. QED
      BY <1>1, <3>1, CallGoes DEF StdioLabels
  <2>3. CASE CancelQueued(c)
    BY <1>1, <2>3, CallGoes DEF CancelQueued
  <2>4. QED
    BY <2>1, <2>2, <2>3
<1>4. Quiet(c)
  BY <1>1, <1>2, <1>3, Untouched DEF Quiet
<1>5. QED
  BY <1>1, <1>2, <1>4, InUse, QuietKeeps, Untouched

LEMMA StdioPick ==
    ASSUME MCPAssumption, StdioInv, NEW c \in Calls, Pick(c)
    PROVE  StdioInv'
<1>1. StdioTypes
  BY DEF StdioInv
<1>2. proc' = proc /\ cur' = cur /\ closing' = closing /\ started' = started /\ ran' = ran /\ Unsent(c)
  BY DEF Pick, Unsent
<1>3. /\ call' = [d \in Calls |-> call'[d]] /\ call'[c] \in CallType
      /\ \A d \in Calls \ {c} : call'[d] = call[d]
      /\ call'[c].pc \in {"queue", "done"} /\ call'[c].try = call[c].try
      /\ call'[c].pc = "queue" => call'[c].p \in Procs /\ call'[c].p <= started
  <2>1. CASE cur = 0
    BY <1>1, <2>1, CallGoes DEF Pick
  <2>2. CASE cur # 0
    <3>1. cur \in Procs /\ cur <= started /\ cur \in 0..MaxStarts
      BY <1>1, <2>2, MCPAssumption DEF StdioTypes, StdioInv, Running, Procs
    <3>2. call' = [call EXCEPT ![c].pc = "queue", ![c].p = cur]
      BY <2>2 DEF Pick
    <3>3. /\ \A d \in Calls \ {c} : call'[d] = call[d]
          /\ call' = [d \in Calls |-> call'[d]]
          /\ call'[c] = [[call[c] EXCEPT !.pc = "queue"] EXCEPT !.p = cur]
      BY <1>1, <3>2 DEF StdioTypes
    <3>4. call[c] \in CallType
      BY <1>1 DEF StdioTypes
    <3>5. QED
      BY <3>1, <3>3, <3>4 DEF CallType, StdioLabels
  <2>3. QED
    BY <2>1, <2>2
<1>4. Quiet(c)
  BY <1>1, <1>2, <1>3, Untouched DEF Quiet
<1>5. QED
  BY <1>1, <1>2, <1>4, InUse, QuietKeeps, Untouched

LEMMA StdioRecover ==
    ASSUME MCPAssumption, StdioInv, NEW c \in Calls, Recover(c)
    PROVE  StdioInv'
<1>1. StdioTypes
  BY DEF StdioInv
<1>2. /\ proc' = Killed({cur}) /\ cur' = 0 /\ closing' = closing /\ started' = started /\ ran' = ran
      /\ call[c].pc = "reset"
  BY DEF Recover, Reset
<1>3. call[c] \in CallType /\ call[c].try = 1
  BY <1>1, <1>2 DEF StdioTypes, StdioInv, SentOnce
<1>4. /\ call' = [d \in Calls |-> call'[d]] /\ call'[c] \in CallType
      /\ \A d \in Calls \ {c} : call'[d] = call[d]
      /\ \/ call'[c].pc = "done" /\ call'[c].p = call[c].p /\ call'[c].try = call[c].try
         \/ call'[c].pc = "ensure" /\ call'[c].try = 2
  <2>1. CASE call[c].why = "ctx"
    <3>1. call' = [call EXCEPT ![c].pc = "done", ![c].res = "error"]
      BY <2>1 DEF Recover
    <3>2. /\ \A d \in Calls \ {c} : call'[d] = call[d]
          /\ call' = [d \in Calls |-> call'[d]]
          /\ call'[c] = [[call[c] EXCEPT !.pc = "done"] EXCEPT !.res = "error"]
      BY <1>1, <3>1 DEF StdioTypes
    <3>3. QED
      BY <1>3, <3>2 DEF CallType, StdioLabels
  <2>2. CASE call[c].why # "ctx"
    <3>1. call' = [call EXCEPT ![c].pc = "ensure", ![c].try = 2]
      BY <2>2 DEF Recover
    <3>2. /\ \A d \in Calls \ {c} : call'[d] = call[d]
          /\ call' = [d \in Calls |-> call'[d]]
          /\ call'[c] = [[call[c] EXCEPT !.pc = "ensure"] EXCEPT !.try = 2]
      BY <1>1, <3>1 DEF StdioTypes
    <3>3. QED
      BY <1>3, <3>2 DEF CallType, StdioLabels
  <2>3. QED
    BY <2>1, <2>2
<1>5. Quiet(c)
  <2>1. /\ proc' \in [Procs -> ProcType]
        /\ \A p \in Procs :
            /\ proc'[p].got = proc[p].got /\ proc'[p].run = proc[p].run
            /\ proc'[p].alive => proc[p].alive
            /\ proc'[p].out = proc[p].out /\ proc'[p].sem = proc[p].sem
    <3>1. /\ Killed({cur}) \in [Procs -> ProcType]
          /\ \A p \in Procs :
              /\ Killed({cur})[p].alive = (proc[p].alive /\ p \notin {cur})
              /\ Killed({cur})[p].sem = proc[p].sem /\ Killed({cur})[p].got = proc[p].got
              /\ Killed({cur})[p].run = proc[p].run /\ Killed({cur})[p].out = proc[p].out
      BY <1>1, KilledShape
    <3>2. QED
      BY <1>2, <3>1
  <2>2. QED
    BY <1>2, <1>3, <1>4, <2>1 DEF Quiet, Unsent
<1>6. cur' \in 0..MaxStarts /\ cur' <= started
  BY <1>1, <1>2, MCPAssumption DEF StdioTypes
<1>7. OneProcess'
  BY <1>1, <1>2, KilledShape DEF StdioInv, Running, OneProcess
<1>8. QED
  BY <1>5, <1>6, <1>7, QuietKeeps

(* The steps of a call that is at a process.                               *)
LEMMA StdioAcquire ==
    ASSUME MCPAssumption, StdioInv, NEW c \in Calls, Acquire(c)
    PROVE  StdioInv'
<1> DEFINE q == call[c].p
<1>1. StdioTypes
  BY DEF StdioInv
<1>2. /\ call[c].pc = "queue" /\ proc[q].sem = NoCall /\ proc' = [proc EXCEPT ![q].sem = c]
      /\ Goto(c, "write")
      /\ cur' = cur /\ closing' = closing /\ started' = started /\ ran' = ran /\ Unsent(c)
  BY DEF Acquire, Unsent, Free
<1>3. q \in Procs /\ q <= started /\ proc \in [Procs -> ProcType] /\ c \in Calls \cup {NoCall}
  BY <1>1, <1>2 DEF StdioInv, StdioTypes, Exchanging
<1>4. /\ call' = [d \in Calls |-> call'[d]] /\ call'[c] \in CallType
      /\ \A d \in Calls \ {c} : call'[d] = call[d]
      /\ call'[c].pc = "write" /\ call'[c].p = q /\ call'[c].try = call[c].try
  BY <1>1, <1>2, CallGoes DEF StdioLabels
<1> HIDE DEF q
<1>5. /\ proc' \in [Procs -> ProcType]
      /\ \A p \in Procs :
          /\ proc'[p].alive = proc[p].alive /\ proc'[p].got = proc[p].got
          /\ proc'[p].run = proc[p].run /\ proc'[p].out = proc[p].out
          /\ proc'[p].sem = IF p = q THEN c ELSE proc[p].sem
  BY ZenonT(40), <1>2, <1>3 DEF ProcType
<1>6. Quiet(c)
  BY <1>2, <1>3, <1>4, <1>5 DEF Quiet
<1>7. QED
  BY <1>2, <1>5, <1>6, InUse, QuietKeeps

LEMMA StdioGivesUp ==
    ASSUME MCPAssumption, StdioInv, NEW c \in Calls,
           \/ Write(c) /\ ~proc[call[c].p].alive
           \/ ReadFails(c)
           \/ \E cancelled \in BOOLEAN : Interrupt(c, cancelled)
    PROVE  StdioInv'
<1> DEFINE q == call[c].p
<1>1. StdioTypes
  BY DEF StdioInv
<1>2. /\ call[c].pc \in {"write", "read"}
      /\ \/ proc' = [proc EXCEPT ![q].sem = NoCall]
         \/ proc' = [Killed({q}) EXCEPT ![q].sem = NoCall]
      /\ Failed(c, "pipe") \/ Failed(c, "ctx")
      /\ cur' = cur /\ closing' = closing /\ started' = started /\ ran' = ran
  <2>1. CASE Write(c) /\ ~proc[call[c].p].alive
    BY <2>1 DEF Write
  <2>2. CASE ReadFails(c)
    BY <2>2 DEF ReadFails
  <2>3. ASSUME NEW cancelled \in BOOLEAN, Interrupt(c, cancelled)
        PROVE  /\ call[c].pc = "read" /\ proc' = [Killed({q}) EXCEPT ![q].sem = NoCall]
               /\ Failed(c, "ctx")
               /\ cur' = cur /\ closing' = closing /\ started' = started /\ ran' = ran
    BY <2>3 DEF Interrupt
  <2>4. QED
    BY <2>1, <2>2, <2>3
<1>3. /\ q \in Procs /\ proc \in [Procs -> ProcType] /\ NoCall \in Calls \cup {NoCall}
      /\ proc[q].sem = c
  BY <1>1, <1>2 DEF StdioInv, StdioTypes, Exchanging
<1>4. /\ call' = [d \in Calls |-> call'[d]] /\ call'[c] \in CallType
      /\ \A d \in Calls \ {c} : call'[d] = call[d]
      /\ call'[c].pc \in {"reset", "done"} /\ call'[c].p = q
      /\ call'[c].try = call[c].try /\ (call'[c].pc = "reset" => call[c].try = 1)
  BY <1>1, <1>2, CallGoes
<1> HIDE DEF q
<1>5. /\ Killed({q}) \in [Procs -> ProcType]
      /\ \A p \in Procs :
          /\ Killed({q})[p].alive => proc[p].alive
          /\ Killed({q})[p].sem = proc[p].sem /\ Killed({q})[p].got = proc[p].got
          /\ Killed({q})[p].run = proc[p].run /\ Killed({q})[p].out = proc[p].out
  <2>1. PICK P : P = {q}
    OBVIOUS
  <2>2. /\ Killed(P) \in [Procs -> ProcType]
        /\ \A p \in Procs :
            /\ Killed(P)[p].alive = (proc[p].alive /\ p \notin P)
            /\ Killed(P)[p].sem = proc[p].sem /\ Killed(P)[p].got = proc[p].got
            /\ Killed(P)[p].run = proc[p].run /\ Killed(P)[p].out = proc[p].out
    BY <1>1, KilledShape
  <2>3. \A p \in Procs : Killed(P)[p].alive => proc[p].alive
    BY <2>2
  <2>4. Killed({q}) = Killed(P)
    BY <2>1
  <2>5. QED
    BY <2>2, <2>3, <2>4
<1>6. /\ proc' \in [Procs -> ProcType]
      /\ \A p \in Procs :
          /\ proc'[p].alive => proc[p].alive
          /\ proc'[p].got = proc[p].got
          /\ proc'[p].run = proc[p].run /\ proc'[p].out = proc[p].out
          /\ proc'[p].sem = IF p = q THEN NoCall ELSE proc[p].sem
  <2>1. CASE proc' = [proc EXCEPT ![q].sem = NoCall]
    BY <1>3, <2>1, SemShape
  <2>2. CASE proc' = [Killed({q}) EXCEPT ![q].sem = NoCall]
    <3>1. /\ proc' \in [Procs -> ProcType]
          /\ \A p \in Procs :
              /\ proc'[p].alive = Killed({q})[p].alive /\ proc'[p].got = Killed({q})[p].got
              /\ proc'[p].run = Killed({q})[p].run /\ proc'[p].out = Killed({q})[p].out
              /\ proc'[p].sem = IF p = q THEN NoCall ELSE Killed({q})[p].sem
      <4> DEFINE K == Killed({q})
      <4>1. K \in [Procs -> ProcType] /\ proc' = [K EXCEPT ![q].sem = NoCall]
        BY <1>5, <2>2
      <4> HIDE DEF K
      <4>2. QED
        <5>1. /\ proc' \in [Procs -> ProcType]
              /\ \A p \in Procs :
                  /\ proc'[p].alive = K[p].alive /\ proc'[p].got = K[p].got
                  /\ proc'[p].run = K[p].run /\ proc'[p].out = K[p].out
                  /\ proc'[p].sem = IF p = q THEN NoCall ELSE K[p].sem
          BY ZenonT(40), <1>3, <4>1 DEF ProcType
        <5>2. QED
          BY <5>1 DEF K
    <3>2. QED
      BY <1>5, <3>1
  <2>3. QED
    BY <1>2, <2>1, <2>2
<1>7. Quiet(c)
  <2>1. call'[c].try = call[c].try /\ call'[c].p = call[c].p /\ ~Unsent(c)'
    BY <1>4 DEF Unsent, q
  <2>2. QED
    BY <1>2, <1>3, <1>4, <1>6, <2>1 DEF Quiet
<1>8. QED
  BY <1>2, <1>6, <1>7, InUse, QuietKeeps

LEMMA StdioRead ==
    ASSUME MCPAssumption, StdioInv, NEW c \in Calls, Read(c)
    PROVE  StdioInv'
<1> DEFINE q == call[c].p  f == Head(proc[q].out)
<1>1. StdioTypes
  BY DEF StdioInv
<1>2. /\ call[c].pc = "read" /\ proc[q].out # <<>>
      /\ cur' = cur /\ closing' = closing /\ started' = started /\ ran' = ran
  BY DEF Read
<1>3. /\ q \in Procs /\ q <= started /\ proc \in [Procs -> ProcType] /\ proc[q] \in ProcType
      /\ proc[q].sem = c
  BY <1>1, <1>2 DEF StdioInv, StdioTypes, Exchanging
<1>4. \/ IsReplyTo(f, c) /\ Finish(c, "own") /\ proc' = [proc EXCEPT ![q].out = Tail(@), ![q].sem = NoCall]
      \/ call' = call /\ proc' = [proc EXCEPT ![q].out = Tail(@), ![q].asks = @ /\ ~Answers(f)]
  BY DEF Read, IsReplyTo, Finish
<1>5. /\ call' = [d \in Calls |-> call'[d]] /\ call'[c] \in CallType
      /\ \A d \in Calls \ {c} : call'[d] = call[d]
      /\ call'[c].pc \in {"read", "done"} /\ call'[c].p = q /\ call'[c].try = call[c].try
      /\ call'[c].pc = "read" => proc' = [proc EXCEPT ![q].out = Tail(@), ![q].asks = @ /\ ~Answers(f)]
  <2>1. CASE IsReplyTo(f, c) /\ Finish(c, "own")
    BY <1>1, <2>1, CallGoes
  <2>2. CASE call' = call /\ proc' = [proc EXCEPT ![q].out = Tail(@), ![q].asks = @ /\ ~Answers(f)]
    BY <1>1, <1>2, <2>2 DEF StdioTypes
  <2>3. QED
    BY <1>4, <2>1, <2>2
<1> HIDE DEF q, f
<1>6. Tail(proc[q].out) \in Seq(Frames)
  BY <1>2, <1>3 DEF ProcType
<1>7. /\ proc' \in [Procs -> ProcType]
      /\ \A p \in Procs :
          /\ proc'[p].alive = proc[p].alive
          /\ proc'[p].got = proc[p].got /\ proc'[p].run = proc[p].run
          /\ proc'[p].out = IF p = q THEN Tail(proc[q].out) ELSE proc[p].out
          /\ p # q => proc'[p].sem = proc[p].sem
      /\ call'[c].pc = "read" => proc'[q].sem = c
  <2>1. CASE proc' = [proc EXCEPT ![q].out = Tail(@), ![q].sem = NoCall] /\ call'[c].pc # "read"
    <3>1. /\ \A p \in Procs \ {q} : proc'[p] = proc[p]
          /\ proc' = [p \in Procs |-> proc'[p]]
          /\ proc'[q] = [[proc[q] EXCEPT !.out = Tail(proc[q].out)] EXCEPT !.sem = NoCall]
      BY <1>3, <2>1
    <3>2. /\ proc'[q] \in ProcType /\ proc'[q].alive = proc[q].alive /\ proc'[q].got = proc[q].got
          /\ proc'[q].run = proc[q].run /\ proc'[q].out = Tail(proc[q].out)
      BY <1>3, <1>6, <3>1 DEF ProcType
    <3>3. QED
      BY <1>3, <2>1, <3>1, <3>2
  <2>2. CASE proc' = [proc EXCEPT ![q].out = Tail(@), ![q].asks = @ /\ ~Answers(f)]
    <3>1. /\ \A p \in Procs \ {q} : proc'[p] = proc[p]
          /\ proc' = [p \in Procs |-> proc'[p]]
          /\ proc'[q] = [[proc[q] EXCEPT !.out = Tail(proc[q].out)]
                            EXCEPT !.asks = proc[q].asks /\ ~Answers(f)]
      BY <1>3, <2>2
    <3>2. /\ proc'[q] \in ProcType /\ proc'[q].alive = proc[q].alive /\ proc'[q].got = proc[q].got
          /\ proc'[q].run = proc[q].run /\ proc'[q].out = Tail(proc[q].out)
          /\ proc'[q].sem = proc[q].sem
      BY <1>3, <1>6, <3>1 DEF ProcType
    <3>3. QED
      BY <1>3, <2>2, <3>1, <3>2
  <2>3. QED
    BY <1>4, <1>5, <2>1, <2>2
<1>8. Quiet(c)
  <2>1. call'[c].try = call[c].try /\ call'[c].p = call[c].p /\ ~Unsent(c)'
    BY <1>5 DEF Unsent, q
  <2>2. \A p \in Procs :
          /\ proc'[p].out = proc[p].out \/ (proc[p].out # <<>> /\ proc'[p].out = Tail(proc[p].out))
          /\ proc'[p].sem = proc[p].sem \/ proc[p].sem \in {c, NoCall}
    BY <1>2, <1>3, <1>7
  <2>3. QED
    BY <1>2, <1>3, <1>5, <1>7, <2>1, <2>2 DEF Quiet
<1>9. QED
  BY <1>2, <1>7, <1>8, InUse, QuietKeeps

(***************************************************************************)
(* The start of a process, and what is sent to it                          *)
(***************************************************************************)

LEMMA StdioStart ==
    ASSUME MCPAssumption, StdioInv, NEW c \in Calls, Ensure(c), ~UNCHANGED <<cur, started, proc>>
    PROVE  StdioInv'
<1> DEFINE n == started + 1
<1>1. StdioTypes /\ <<>> \in Seq(Frames) /\ Len(<<>>) = 0
  BY EmptySeq DEF StdioInv
<1>2. /\ call[c].pc = "ensure" /\ MayStart /\ cur = 0 /\ started < MaxStarts
      /\ started' = n /\ cur' = n /\ proc' = [proc EXCEPT ![n] = Process]
      /\ Goto(c, "pick") /\ closing' = closing /\ ran' = ran
  BY DEF Ensure
<1>3. n \in Procs /\ n \in 0..MaxStarts /\ started \in 0..MaxStarts /\ n > started
  BY <1>1, <1>2, MCPAssumption DEF StdioTypes, Procs
<1>4. /\ call' = [d \in Calls |-> call'[d]] /\ call'[c] \in CallType
      /\ \A d \in Calls \ {c} : call'[d] = call[d]
      /\ call'[c].pc = "pick" /\ call'[c].p = call[c].p /\ call'[c].try = call[c].try
  BY <1>1, <1>2, CallGoes DEF StdioLabels
<1> HIDE DEF n
<1>5. /\ proc' \in [Procs -> ProcType] /\ proc'[n].alive
      /\ proc'[n].got = {} /\ proc'[n].run = {} /\ proc'[n].out = <<>>
      /\ \A p \in Procs \ {n} : proc'[p] = proc[p]
  <2>1. Process \in ProcType /\ Process.alive /\ Process.got = {} /\ Process.run = {} /\ Process.out = <<>>
    BY <1>1 DEF Process, ProcType
  <2>2. QED
    BY <1>1, <1>2, <1>3, <2>1 DEF StdioTypes
<1>6. ~proc[n].alive /\ proc[n].got = {} /\ proc[n].run = {}
  BY <1>3 DEF StdioInv, Running
<1>7. ASSUME NEW d \in Calls PROVE SentTo(d)' = SentTo(d) /\ RunBy(d)' = RunBy(d)
  BY <1>3, <1>5, <1>6 DEF SentTo, RunBy
<1>8. StdioTypes'
  <2>1. \A d \in Calls : call'[d] \in CallType
    BY <1>1, <1>4 DEF StdioTypes
  <2>2. QED
    BY <1>1, <1>2, <1>3, <1>4, <1>5, <2>1 DEF StdioTypes
<1>9. Running'
  <2>1. \A p \in Procs : ~proc[p].alive
    BY <1>2 DEF StdioInv, Running, OneProcess, Procs
  <2>2. OneProcess'
    BY <1>2, <1>5, <2>1 DEF OneProcess, MayStart
  <2>3. \A p \in Procs : p > n => p > started /\ p # n
    BY <1>3 DEF Procs
  <2>4. QED
    BY <1>2, <1>3, <1>5, <2>2, <2>3 DEF StdioInv, Running
<1>10. Exchanging'
  <2>1. \A d \in Calls : call[d].pc \in {"queue", "write", "read"} =>
          call[d].p \in Procs /\ call[d].p <= started /\ call[d].p # n
    BY <1>3 DEF StdioInv, Exchanging, Procs
  <2>2. \A d \in Calls : call[d].pc \in {"queue", "write", "read"} => call[d].p <= started'
    BY <1>2, <1>3, <2>1 DEF Procs, n
  <2>3. QED
    BY <1>4, <1>5, <2>1, <2>2 DEF StdioInv, Exchanging
<1>11. SentOnce'
  BY <1>2, <1>4, <1>7 DEF StdioInv, SentOnce, Unsent
<1>12. RunCounted'
  BY <1>2, <1>7 DEF StdioInv, RunCounted
<1>13. AnswersRun'
  <2>1. 1..0 = {}
    OBVIOUS
  <2>2. QED
    BY <1>1, <1>5, <2>1 DEF StdioInv, AnswersRun
<1>14. QED
  BY <1>8, <1>9, <1>10, <1>11, <1>12, <1>13 DEF StdioInv

LEMMA StdioSends ==
    ASSUME MCPAssumption, StdioInv, NEW c \in Calls, Write(c), proc[call[c].p].alive
    PROVE  StdioInv'
<1> DEFINE q == call[c].p
<1>1. StdioTypes
  BY DEF StdioInv
<1>2. /\ call[c].pc = "write" /\ proc' = [proc EXCEPT ![q].got = @ \cup {c}] /\ Goto(c, "read")
      /\ cur' = cur /\ started' = started /\ closing' = closing /\ ran' = ran
  BY DEF Write
<1>3. /\ q \in Procs /\ q <= started /\ proc[q].sem = c /\ proc[q].alive
      /\ proc \in [Procs -> ProcType] /\ proc[q] \in ProcType
  BY <1>1, <1>2 DEF StdioInv, StdioTypes, Exchanging
<1>4. /\ call' = [d \in Calls |-> call'[d]] /\ call'[c] \in CallType
      /\ \A d \in Calls \ {c} : call'[d] = call[d]
      /\ call'[c].pc = "read" /\ call'[c].p = q /\ call'[c].try = call[c].try
  BY <1>1, <1>2, CallGoes DEF StdioLabels
<1> HIDE DEF q
<1>5. /\ proc' \in [Procs -> ProcType]
      /\ \A p \in Procs :
          /\ proc'[p].alive = proc[p].alive /\ proc'[p].sem = proc[p].sem
          /\ proc'[p].run = proc[p].run /\ proc'[p].out = proc[p].out
          /\ proc'[p].got = IF p = q THEN proc[p].got \cup {c} ELSE proc[p].got
  BY <1>2, <1>3 DEF ProcType
<1>6. /\ \A d \in Calls \ {c} : SentTo(d)' = SentTo(d)
      /\ SentTo(c)' = SentTo(c) \cup {q}
      /\ \A d \in Calls : RunBy(d)' = RunBy(d)
  BY <1>3, <1>5 DEF SentTo, RunBy
<1>7. StdioTypes'
  <2>1. \A d \in Calls : call'[d] \in CallType
    BY <1>1, <1>4 DEF StdioTypes
  <2>2. QED
    BY <1>1, <1>2, <1>4, <1>5, <2>1 DEF StdioTypes
<1>8. Running'
  <2>1. \A p \in Procs : p > started => p # q
    BY <1>1, <1>3, MCPAssumption DEF Procs, StdioTypes
  <2>2. QED
    BY <1>2, <1>5, <2>1 DEF StdioInv, Running, OneProcess
<1>9. Exchanging'
  BY <1>2, <1>3, <1>4, <1>5 DEF StdioInv, Exchanging
<1>10. SentOnce'
  <2>1. /\ call[c].try = 1 => SentTo(c) = {}
        /\ call[c].try = 2 => \E x \in 0..MaxStarts : SentTo(c) \subseteq {x}
        /\ ~Unsent(c)'
    BY <1>2, <1>4 DEF StdioInv, SentOnce, Unsent
  <2>2. /\ call'[c].try = 1 => SentTo(c)' \subseteq {call'[c].p}
        /\ call'[c].try = 2 => \E x \in 0..MaxStarts : SentTo(c)' \subseteq {x, call'[c].p}
    BY <1>4, <1>6, <2>1
  <2>3. ASSUME NEW d \in Calls, d # c
        PROVE  call'[d] = call[d] /\ SentTo(d)' = SentTo(d) /\ Unsent(d)' = Unsent(d)
    BY <1>4, <1>6, <2>3 DEF Unsent
  <2>4. QED
    BY <1>4, <2>1, <2>2, <2>3 DEF StdioInv, SentOnce
<1>11. RunCounted'
  BY <1>2, <1>6 DEF StdioInv, RunCounted
<1>12. AnswersRun'
  BY <1>5 DEF StdioInv, AnswersRun
<1>13. QED
  BY <1>7, <1>8, <1>9, <1>10, <1>11, <1>12 DEF StdioInv

(***************************************************************************)
(* The server and Close                                                    *)
(***************************************************************************)

(* A step that sends nothing, runs nothing and leaves the calls alone.     *)
Calm ==
    /\ proc' \in [Procs -> ProcType] /\ call' = call /\ started' = started /\ ran' = ran
    /\ \A p \in Procs :
        /\ proc'[p].run = proc[p].run /\ proc'[p].got \subseteq proc[p].got
        /\ proc'[p].got \cup proc'[p].run = proc[p].got \cup proc[p].run
        /\ proc'[p].sem = proc[p].sem
        /\ proc'[p].alive => proc[p].alive
        /\ \/ proc'[p].out = proc[p].out
           \/ \E f \in Frames : /\ proc'[p].out = Append(proc[p].out, f)
                                /\ f.kind = "reply" => f.id \in proc[p].run

LEMMA CalmKeeps ==
    ASSUME MCPAssumption, StdioInv, Calm, cur' \in 0..MaxStarts, cur' <= started, OneProcess'
    PROVE  StdioInv'
<1>1. StdioTypes
  BY DEF StdioInv
<1>2. StdioTypes'
  BY <1>1 DEF Calm, StdioTypes
<1>3. Running'
  BY DEF Calm, StdioInv, Running
<1>4. Exchanging'
  BY DEF Calm, StdioInv, Exchanging
<1>5. ASSUME NEW d \in Calls PROVE SentTo(d)' = SentTo(d) /\ RunBy(d)' = RunBy(d)
  BY DEF Calm, SentTo, RunBy
<1>6. SentOnce'
  BY <1>5 DEF Calm, StdioInv, SentOnce, Unsent
<1>7. RunCounted'
  BY <1>5 DEF Calm, StdioInv, RunCounted
<1>8. AnswersRun'
  <2>1. SUFFICES ASSUME NEW p \in Procs, NEW i \in 1..Len(proc'[p].out), proc'[p].out[i].kind = "reply"
                 PROVE  proc'[p].out[i].id \in proc'[p].run
    BY DEF AnswersRun
  <2>2. proc[p].out \in Seq(Frames) /\ proc'[p].run = proc[p].run
    BY <1>1 DEF Calm, StdioTypes, ProcType
  <2>3. CASE proc'[p].out = proc[p].out
    BY <2>1, <2>2, <2>3 DEF StdioInv, AnswersRun
  <2>4. ASSUME NEW f \in Frames, proc'[p].out = Append(proc[p].out, f),
               f.kind = "reply" => f.id \in proc[p].run
        PROVE  proc'[p].out[i].id \in proc'[p].run
    <3>1. CASE i \in 1..Len(proc[p].out)
      <4>1. proc'[p].out[i] = proc[p].out[i]
        BY <2>2, <2>4, <3>1
      <4>2. QED
        BY <2>1, <2>2, <3>1, <4>1 DEF StdioInv, AnswersRun
    <3>2. CASE i = Len(proc[p].out) + 1
      BY <2>1, <2>2, <2>4, <3>2
    <3>3. QED
      BY <2>1, <2>2, <2>4, <3>1, <3>2
  <2>5. QED
    BY <2>3, <2>4 DEF Calm
<1>9. QED
  BY <1>2, <1>3, <1>4, <1>6, <1>7, <1>8 DEF StdioInv

(* How often a call can have run when it is about to run once more.        *)
LEMMA RunsTwice ==
    ASSUME StdioInv, NEW c \in Calls, NEW p \in Procs, p \in SentTo(c), p \notin RunBy(c)
    PROVE  ran[c] <= 1
<1>1. call[c] \in CallType /\ RunBy(c) \subseteq SentTo(c) /\ RunBy(c) \subseteq Procs /\ ran[c] \in 0..2
  BY DEF StdioInv, StdioTypes, RunBy, SentTo
<1>2. PICK x, y : SentTo(c) \subseteq {x, y}
  <2>1. CASE call[c].try = 1
    BY <2>1 DEF StdioInv, SentOnce
  <2>2. CASE call[c].try = 2
    BY <2>2 DEF StdioInv, SentOnce
  <2>3. QED
    BY <1>1, <2>1, <2>2 DEF CallType
<1>3. CASE RunBy(c) = {}
  BY <1>3 DEF StdioInv, RunCounted
<1>4. CASE RunBy(c) # {}
  <2>1. \E q \in Procs : RunBy(c) \subseteq {q}
    BY <1>1, <1>2, <1>4
  <2>2. QED
    BY <2>1 DEF StdioInv, RunCounted
<1>5. QED
  BY <1>3, <1>4

LEMMA StdioRuns ==
    ASSUME MCPAssumption, StdioInv, NEW c \in Calls, NEW p \in Procs, ServerRuns(p, c)
    PROVE  StdioInv' /\ ran[c] < 2 /\ call[c].pc # "idle"
<1>1. StdioTypes
  BY DEF StdioInv
<1>2. /\ proc[p].alive /\ c \in proc[p].got /\ c \notin proc[p].run
      /\ proc' = [proc EXCEPT ![p].run = @ \cup {c}] /\ ran' = [ran EXCEPT ![c] = @ + 1]
      /\ cur' = cur /\ started' = started /\ closing' = closing /\ call' = call
  BY DEF ServerRuns
<1>3. p \in SentTo(c) /\ p \notin RunBy(c) /\ RunBy(c) \subseteq Procs
  BY <1>2 DEF SentTo, RunBy
<1>4. ran \in [Calls -> 0..2] /\ ran[c] \in {0, 1}
  BY <1>1, <1>3, RunsTwice DEF StdioTypes
<1>5. /\ proc' \in [Procs -> ProcType]
      /\ \A q \in Procs :
          /\ proc'[q].alive = proc[q].alive /\ proc'[q].sem = proc[q].sem
          /\ proc'[q].got = proc[q].got /\ proc'[q].out = proc[q].out
          /\ proc'[q].run = IF q = p THEN proc[q].run \cup {c} ELSE proc[q].run
  BY <1>1, <1>2 DEF StdioTypes, ProcType
<1>6. /\ \A d \in Calls : SentTo(d)' = SentTo(d)
      /\ \A d \in Calls \ {c} : RunBy(d)' = RunBy(d)
      /\ RunBy(c)' = RunBy(c) \cup {p}
  BY <1>2, <1>5 DEF SentTo, RunBy
<1>7. /\ ran' \in [Calls -> 0..2] /\ \A d \in Calls \ {c} : ran'[d] = ran[d]
      /\ ran'[c] = ran[c] + 1
  BY <1>2, <1>4
<1>8. StdioTypes'
  BY <1>1, <1>2, <1>5, <1>7 DEF StdioTypes
<1>9. Running'
  <2>1. \A q \in Procs : q > started => q # p
    BY <1>2 DEF StdioInv, Running
  <2>2. QED
    BY <1>2, <1>5, <2>1 DEF StdioInv, Running, OneProcess
<1>10. Exchanging'
  BY <1>2, <1>5 DEF StdioInv, Exchanging
<1>11. SentOnce'
  BY <1>2, <1>6 DEF StdioInv, SentOnce, Unsent
<1>12. RunCounted'
  <2>1. /\ ran'[c] >= 1
        /\ \A q \in Procs : RunBy(c)' \subseteq {q} => ran'[c] <= 1
    <3>1. ran'[c] >= 1
      BY <1>4, <1>7
    <3>2. ASSUME NEW q \in Procs, RunBy(c)' \subseteq {q} PROVE ran'[c] <= 1
      <4>1. RunBy(c) = {}
        BY <1>3, <1>6, <3>2
      <4>2. ran[c] = 0
        BY <4>1 DEF StdioInv, RunCounted
      <4>3. QED
        BY <1>7, <4>2
    <3>3. QED
      BY <3>1, <3>2
  <2>2. RunBy(c)' # {}
    BY <1>6
  <2>3. ASSUME NEW d \in Calls, d # c PROVE RunBy(d)' = RunBy(d) /\ ran'[d] = ran[d]
    BY <1>6, <1>7, <2>3
  <2>4. QED
    BY <2>1, <2>2, <2>3 DEF StdioInv, RunCounted
<1>13. AnswersRun'
  BY ZenonT(40), <1>5 DEF StdioInv, AnswersRun
<1>14. call[c].pc # "idle"
  BY <1>3 DEF StdioInv, SentOnce, Unsent
<1>15. QED
  BY <1>4, <1>8, <1>9, <1>10, <1>11, <1>12, <1>13, <1>14 DEF StdioInv

(* The server writes frame f to the pipe of process p.                     *)
Writes(p, f) ==
    /\ proc' \in [Procs -> ProcType] /\ \A q \in Procs \ {p} : proc'[q] = proc[q]
    /\ proc'[p].alive = proc[p].alive /\ proc'[p].sem = proc[p].sem /\ proc'[p].run = proc[p].run
    /\ proc'[p].got \subseteq proc[p].got
    /\ proc'[p].got \cup proc[p].run = proc[p].got \cup proc[p].run
    /\ proc'[p].out = Append(proc[p].out, f)
    /\ f.kind = "reply" => f.id \in proc[p].run

LEMMA StdioServes ==
    ASSUME MCPAssumption, StdioInv,
           \/ \E p \in Procs, c \in Calls : ServerAnswers(p, c)
           \/ \E p \in Procs : ServerNoise(p)
    PROVE  StdioInv'
<1>1. StdioTypes /\ proc \in [Procs -> ProcType]
  BY DEF StdioInv, StdioTypes
<1>2. /\ call' = call /\ started' = started /\ ran' = ran /\ cur' = cur /\ closing' = closing
  BY DEF ServerAnswers, ServerNoise
<1>3. ASSUME NEW p \in Procs, NEW f \in Frames, NEW g \in SUBSET Calls, NEW b \in BOOLEAN, NEW r,
             r = [[[proc[p] EXCEPT !.got = g] EXCEPT !.asks = b] EXCEPT !.out = Append(proc[p].out, f)],
             proc' = [proc EXCEPT ![p] = r],
             g \subseteq proc[p].got, g \cup proc[p].run = proc[p].got \cup proc[p].run,
             f.kind = "reply" => f.id \in proc[p].run
      PROVE  Writes(p, f)
  <2>1. proc[p] \in ProcType
    BY <1>1
  <2>2. Append(proc[p].out, f) \in Seq(Frames)
    BY <2>1 DEF ProcType
  <2>3. /\ r \in ProcType /\ r.alive = proc[p].alive /\ r.sem = proc[p].sem
        /\ r.run = proc[p].run /\ r.got = g /\ r.out = Append(proc[p].out, f)
    BY <1>3, <2>1, <2>2 DEF ProcType
  <2>4. /\ proc'[p] = r /\ \A q \in Procs \ {p} : proc'[q] = proc[q]
        /\ proc' \in [Procs -> ProcType]
    BY <1>1, <1>3, <2>3
  <2>5. QED
    BY <1>3, <2>3, <2>4 DEF Writes
<1>4. \E p \in Procs, f \in Frames : Writes(p, f)
  <2>1. ASSUME NEW p \in Procs
        PROVE  /\ proc[p] \in ProcType /\ proc[p].asks \in BOOLEAN /\ proc[p].got \in SUBSET Calls
               /\ \A o : [proc EXCEPT ![p].asks = TRUE, ![p].out = o] =
                     [proc EXCEPT ![p] = [[[proc[p] EXCEPT !.got = proc[p].got] EXCEPT !.asks = TRUE]
                                              EXCEPT !.out = o]]
               /\ \A o : [proc EXCEPT ![p].out = o] =
                     [proc EXCEPT ![p] = [[[proc[p] EXCEPT !.got = proc[p].got] EXCEPT !.asks = proc[p].asks]
                                              EXCEPT !.out = o]]
    <3>1. proc[p] \in ProcType
      BY <1>1
    <3>2. [proc[p] EXCEPT !.got = proc[p].got] = proc[p]
      BY <3>1 DEF ProcType
    <3>3. [proc[p] EXCEPT !.asks = proc[p].asks] = proc[p]
      BY <3>1 DEF ProcType
    <3>4. ASSUME NEW o
          PROVE  [proc EXCEPT ![p].asks = TRUE, ![p].out = o] =
                     [proc EXCEPT ![p] = [[proc[p] EXCEPT !.asks = TRUE] EXCEPT !.out = o]]
      BY <1>1
    <3>5. ASSUME NEW o
          PROVE  [proc EXCEPT ![p].out = o] = [proc EXCEPT ![p] = [proc[p] EXCEPT !.out = o]]
      BY <1>1
    <3>6. proc[p].asks \in BOOLEAN /\ proc[p].got \in SUBSET Calls
      BY <3>1 DEF ProcType
    <3>7. QED
      BY <3>1, <3>2, <3>3, <3>4, <3>5, <3>6
  <2>2. ASSUME NEW p \in Procs, NEW c \in Calls, ServerAnswers(p, c)
        PROVE  \E f \in Frames : Writes(p, f)
    <3> DEFINE f == [kind |-> "reply", id |-> c]
    <3>1. f \in Frames /\ f.id = c
      BY DEF Frames
    <3>2. /\ c \in proc[p].run
          /\ proc' = [proc EXCEPT ![p].got = proc[p].got \ {c}, ![p].out = Append(proc[p].out, f)]
      BY <1>1, <2>2 DEF ServerAnswers
    <3> HIDE DEF f
    <3>3. [proc[p] EXCEPT !.asks = proc[p].asks] = proc[p] /\ proc[p] \in ProcType
      BY <1>1 DEF ProcType
    <3>4. proc' = [proc EXCEPT ![p] = [[proc[p] EXCEPT !.got = proc[p].got \ {c}]
                                         EXCEPT !.out = Append(proc[p].out, f)]]
      BY <1>1, <3>2
    <3>5. [[proc[p] EXCEPT !.got = proc[p].got \ {c}] EXCEPT !.asks = proc[p].asks]
            = [proc[p] EXCEPT !.got = proc[p].got \ {c}]
      BY <3>3 DEF ProcType
    <3>6. /\ proc[p].got \ {c} \in SUBSET Calls /\ proc[p].asks \in BOOLEAN
          /\ proc[p].got \ {c} \subseteq proc[p].got
          /\ (proc[p].got \ {c}) \cup proc[p].run = proc[p].got \cup proc[p].run
      BY <3>2, <3>3 DEF ProcType
    <3>7. Writes(p, f)
      BY ZenonT(40), <1>3, <3>1, <3>2, <3>4, <3>5, <3>6
    <3>8. QED
      BY <3>1, <3>7
  <2>3. ASSUME NEW p \in Procs, NEW f \in Frames, f.kind = "reply" => f.id \in proc[p].run,
               \/ proc' = [proc EXCEPT ![p].asks = TRUE, ![p].out = Append(proc[p].out, f)]
               \/ proc' = [proc EXCEPT ![p].out = Append(proc[p].out, f)]
        PROVE  Writes(p, f)
    <3> DEFINE r(b) == [[[proc[p] EXCEPT !.got = proc[p].got] EXCEPT !.asks = b]
                            EXCEPT !.out = Append(proc[p].out, f)]
    <3>1. \E b \in BOOLEAN : proc' = [proc EXCEPT ![p] = r(b)]
      <4>1. CASE proc' = [proc EXCEPT ![p].asks = TRUE, ![p].out = Append(proc[p].out, f)]
        <5>1. proc' = [proc EXCEPT ![p] = r(TRUE)]
          BY <2>1, <4>1, Zenon
        <5>2. QED
          BY <5>1
      <4>2. CASE proc' = [proc EXCEPT ![p].out = Append(proc[p].out, f)]
        <5>1. proc' = [proc EXCEPT ![p] = r(proc[p].asks)] /\ proc[p].asks \in BOOLEAN
          BY <2>1, <4>2
        <5>2. QED
          BY <5>1
      <4>3. QED
        BY <2>3, <4>1, <4>2
    <3>2. PICK b \in BOOLEAN : proc' = [proc EXCEPT ![p] = r(b)]
      BY <3>1
    <3>3. PICK s : s = r(b)
      OBVIOUS
    <3>4. /\ proc' = [proc EXCEPT ![p] = s]
          /\ s = [[[proc[p] EXCEPT !.got = proc[p].got] EXCEPT !.asks = b] EXCEPT !.out = Append(proc[p].out, f)]
      BY <3>2, <3>3
    <3> HIDE DEF r
    <3>5. proc[p].got \in SUBSET Calls
      BY <2>1
    <3>6. QED
      BY <1>3, <2>3, <3>4, <3>5
  <2>4. ASSUME NEW p \in Procs, ServerNoise(p) PROVE \E f \in Frames : Writes(p, f)
    <3>1. CASE proc' = [proc EXCEPT ![p].asks = TRUE,
                                    ![p].out = Append(@, [kind |-> "request", id |-> 0])]
      <4> DEFINE f == [kind |-> "request", id |-> 0]
      <4>1. f \in Frames /\ f.kind # "reply"
        BY DEF Frames
      <4>2. proc' = [proc EXCEPT ![p].asks = TRUE, ![p].out = Append(proc[p].out, f)]
        BY <1>1, <3>1
      <4> HIDE DEF f
      <4>3. Writes(p, f)
        BY <2>3, <4>1, <4>2
      <4>4. QED
        BY <4>1, <4>3
    <3>2. CASE proc' = [proc EXCEPT ![p].out = Append(@, [kind |-> "note", id |-> 0])]
      <4> DEFINE f == [kind |-> "note", id |-> 0]
      <4>1. f \in Frames /\ f.kind # "reply"
        BY DEF Frames
      <4>2. proc' = [proc EXCEPT ![p].out = Append(proc[p].out, f)]
        BY <1>1, <3>2
      <4> HIDE DEF f
      <4>3. Writes(p, f)
        BY <2>3, <4>1, <4>2
      <4>4. QED
        BY <4>1, <4>3
    <3>3. ASSUME NEW c \in proc[p].run \ proc[p].got,
                 proc' = [proc EXCEPT ![p].out = Append(@, [kind |-> "reply", id |-> c])]
          PROVE  \E f \in Frames : Writes(p, f)
      <4> DEFINE f == [kind |-> "reply", id |-> c]
      <4>1. f \in Frames /\ f.id = c
        BY <2>1 DEF Frames, ProcType
      <4>2. proc' = [proc EXCEPT ![p].out = Append(proc[p].out, f)]
        BY <1>1, <3>3
      <4> HIDE DEF f
      <4>3. Writes(p, f)
        BY <2>3, <3>3, <4>1, <4>2
      <4>4. QED
        BY <4>1, <4>3
    <3>4. QED
      BY <2>4, <3>1, <3>2, <3>3 DEF ServerNoise
  <2>5. QED
    BY <2>2, <2>4
<1>5. Calm
  BY <1>2, <1>4 DEF Writes, Calm
<1>6. \A p \in Procs : proc'[p].alive => proc[p].alive
  BY <1>5 DEF Calm
<1>7. QED
  BY <1>2, <1>5, <1>6, InUse, CalmKeeps

LEMMA StdioEnds ==
    ASSUME MCPAssumption, StdioInv, Close \/ \E p \in Procs : ServerDies(p)
    PROVE  StdioInv'
<1>1. StdioTypes
  BY DEF StdioInv
<1>2. /\ call' = call /\ started' = started /\ ran' = ran
      /\ \/ proc' = proc /\ cur' = cur /\ closing' # "done"
         \/ \E P : proc' = Killed(P) /\ cur' = cur /\ closing' = closing
         \/ proc' = Killed({cur}) /\ cur' = 0
  BY DEF Close, ServerDies
<1>3. /\ proc' \in [Procs -> ProcType]
      /\ \A p \in Procs :
          /\ proc'[p].alive => proc[p].alive
          /\ proc'[p].sem = proc[p].sem /\ proc'[p].got = proc[p].got
          /\ proc'[p].run = proc[p].run /\ proc'[p].out = proc[p].out
  <2>1. CASE proc' = proc
    BY <1>1, <2>1, Untouched
  <2>2. ASSUME NEW P, proc' = Killed(P)
        PROVE  /\ proc' \in [Procs -> ProcType]
               /\ \A p \in Procs :
                   /\ proc'[p].alive => proc[p].alive
                   /\ proc'[p].sem = proc[p].sem /\ proc'[p].got = proc[p].got
                   /\ proc'[p].run = proc[p].run /\ proc'[p].out = proc[p].out
    <3>1. /\ Killed(P) \in [Procs -> ProcType]
          /\ \A p \in Procs :
              /\ Killed(P)[p].alive = (proc[p].alive /\ p \notin P)
              /\ Killed(P)[p].sem = proc[p].sem /\ Killed(P)[p].got = proc[p].got
              /\ Killed(P)[p].run = proc[p].run /\ Killed(P)[p].out = proc[p].out
      BY <1>1, KilledShape
    <3>2. \A p \in Procs : Killed(P)[p].alive => proc[p].alive
      BY <3>1
    <3>3. QED
      BY <2>2, <3>1, <3>2
  <2>3. QED
    BY <1>2, <2>1, <2>2
<1>4. Calm
  BY <1>2, <1>3 DEF Calm
<1>5. cur' \in 0..MaxStarts /\ cur' <= started /\ OneProcess'
  <2>1. CASE cur' = cur /\ (closing' # "done" \/ closing' = closing)
    BY <1>1, <1>3, <2>1 DEF StdioInv, StdioTypes, Running, OneProcess
  <2>2. CASE proc' = Killed({cur}) /\ cur' = 0
    <3>1. \A p \in Procs : ~proc'[p].alive
      <4>1. \A p \in Procs : Killed({cur})[p].alive = (proc[p].alive /\ p \notin {cur})
        BY <1>1, KilledShape
      <4>2. QED
        BY <2>2, <4>1 DEF StdioInv, Running, OneProcess
    <3>2. QED
      <4>1. 0 \in 0..MaxStarts /\ 0 <= started
        BY <1>1, MCPAssumption DEF StdioTypes
      <4>2. OneProcess'
        BY <2>2, <3>1 DEF OneProcess
      <4>3. QED
        BY <2>2, <4>1, <4>2
  <2>3. QED
    BY <1>2, <2>1, <2>2
<1>6. QED
  BY <1>4, <1>5, CalmKeeps

LEMMA StdioStep == ASSUME MCPAssumption, StdioInv, [Next]_vars PROVE StdioInv'
<1>1. CASE UNCHANGED vars
  BY <1>1 DEF vars, StdioInv, StdioTypes, Running, OneProcess, Exchanging, SentOnce, SentTo, Unsent,
     RunCounted, RunBy, AnswersRun
<1>2. ASSUME NEW c \in Calls,
             \/ Call(c) \/ Steps(c) \/ CancelQueued(c) \/ Interrupt(c, TRUE)
      PROVE  StdioInv'
  <2>1. CASE Call(c) \/ CancelQueued(c)
    BY <2>1, StdioStarts
  <2>2. CASE Ensure(c)
    BY <2>2, StdioStarts, StdioStart
  <2>3. CASE Pick(c) \/ Recover(c) \/ Acquire(c) \/ Read(c)
    BY <2>3, StdioPick, StdioRecover, StdioAcquire, StdioRead
  <2>4. CASE Write(c)
    BY <2>4, StdioSends, StdioGivesUp
  <2>5. CASE ReadFails(c) \/ Interrupt(c, TRUE) \/ Interrupt(c, FALSE)
    BY <2>5, StdioGivesUp
  <2>6. QED
    BY <1>2, <2>1, <2>2, <2>3, <2>4, <2>5 DEF Steps
<1>3. ASSUME NEW p \in Procs, Serves(p) \/ ServerNoise(p) \/ ServerDies(p) PROVE StdioInv'
  BY <1>3, StdioRuns, StdioServes, StdioEnds DEF Serves
<1>4. CASE Close
  BY <1>4, StdioEnds
<1>5. QED
  BY <1>1, <1>2, <1>3, <1>4 DEF Next

(***************************************************************************)
(* The stdio transport keeps the promise of every transport                *)
(***************************************************************************)

(* A step of call c that its caller does not see, or that returns.         *)
LEMMA StdioSeen ==
    ASSUME NEW c \in Calls, \A d \in Calls \ {c} : call'[d] = call[d], ran' = ran,
           call[c].pc \notin {"idle", "done"},
           \/ call'[c].pc \notin {"idle", "done"} /\ call'[c].res = call[c].res
           \/ call'[c].pc = "done" /\ call'[c].res = "error"
           \/ call'[c].pc = "done" /\ call'[c].res = "own" /\ ran[c] > 0
    PROVE  T!Return(c) \/ UNCHANGED T!vars
<1>1. CASE call'[c].pc \notin {"idle", "done"} /\ call'[c].res = call[c].res
  <2>1. \A d \in Calls : call'[d].res = call[d].res
    BY <1>1
  <2>2. \A d \in Calls : (IF call'[d].pc \in {"idle", "done"} THEN call'[d].pc ELSE "running")
                           = (IF call[d].pc \in {"idle", "done"} THEN call[d].pc ELSE "running")
    BY <1>1
  <2>3. Phases' = Phases /\ Results' = Results
    BY <2>1, <2>2 DEF Phases, Results
  <2>4. QED
    BY <2>3 DEF T!vars
<1>2. CASE call'[c].pc = "done" /\ \/ call'[c].res = "error"
                                   \/ call'[c].res = "own" /\ ran[c] > 0
  <2>1. Phases[c] = "running" /\ Phases' = [Phases EXCEPT ![c] = "done"]
    BY <1>2 DEF Phases
  <2>2. Results' = [Results EXCEPT ![c] = call'[c].res]
    BY DEF Results
  <2>3. QED
    BY <1>2, <2>1, <2>2 DEF T!Return
<1>3. QED
  BY <1>1, <1>2

LEMMA StdioCallSeen ==
    ASSUME MCPAssumption, StdioInv, NEW c \in Calls,
           \/ Call(c) \/ Steps(c) \/ CancelQueued(c) \/ Interrupt(c, TRUE)
    PROVE  [T!Next]_(T!vars)
<1>1. StdioTypes /\ call \in [Calls -> CallType] /\ call[c] \in CallType
  BY DEF StdioInv, StdioTypes
<1>2. CASE Call(c)
  <2>1. Goto(c, "ensure") /\ call[c].pc = "idle" /\ ran' = ran
    BY <1>2 DEF Call
  <2>2. /\ \A d \in Calls \ {c} : call'[d] = call[d]
        /\ call'[c] = [call[c] EXCEPT !.pc = "ensure"]
    BY <1>1, <2>1, CallShapes
  <2>3. call'[c].pc = "ensure" /\ call'[c].res = call[c].res
    BY <1>1, <2>2 DEF CallType
  <2>4. Phases[c] = "idle" /\ Phases' = [Phases EXCEPT ![c] = "running"]
    BY <2>1, <2>2, <2>3 DEF Phases
  <2>5. Results' = Results
    BY <2>2, <2>3 DEF Results
  <2>6. T!CallTool(c)
    BY <2>1, <2>4, <2>5 DEF T!CallTool
  <2>7. QED
    BY <2>6 DEF T!Next
<1>3. CASE ~Call(c)
  <2>1. call[c].pc \notin {"idle", "done"} /\ ran' = ran
    BY <1>3 DEF Steps, Ensure, Pick, Recover, Acquire, CancelQueued, Write, Read, ReadFails, Interrupt
  <2>2. \/ \E pc \in StdioLabels \ {"idle", "done"} : Goto(c, pc)
        \/ Finish(c, "error")
        \/ Finish(c, "own") /\ Read(c) /\ IsReplyTo(Head(proc[call[c].p].out), c)
        \/ \E why \in {"ctx", "pipe"} : Failed(c, why)
        \/ Pick(c) /\ cur # 0
        \/ Recover(c)
        \/ call' = call
    <3>1. CASE Ensure(c)
      BY <3>1 DEF Ensure, StdioLabels
    <3>2. CASE Pick(c)
      BY <3>2 DEF Pick
    <3>3. CASE Acquire(c) \/ CancelQueued(c) \/ Write(c)
      BY <3>3 DEF Acquire, CancelQueued, Write, StdioLabels
    <3>4. CASE Read(c)
      BY <3>4 DEF Read, IsReplyTo, Finish
    <3>5. CASE ReadFails(c) \/ Interrupt(c, TRUE) \/ Interrupt(c, FALSE)
      BY <3>5 DEF ReadFails, Interrupt
    <3>6. CASE Recover(c)
      BY <3>6
    <3>7. QED
      BY <1>3, <3>1, <3>2, <3>3, <3>4, <3>5, <3>6 DEF Steps
  <2>3. /\ \A d \in Calls \ {c} : call'[d] = call[d]
        /\ \/ call'[c].pc \notin {"idle", "done"} /\ call'[c].res = call[c].res
           \/ call'[c].pc = "done" /\ call'[c].res = "error"
           \/ call'[c].pc = "done" /\ call'[c].res = "own" /\ ran[c] > 0
    <3>1. ASSUME NEW pc \in StdioLabels \ {"idle", "done"}, Goto(c, pc)
          PROVE  /\ \A d \in Calls \ {c} : call'[d] = call[d]
                 /\ call'[c].pc = pc /\ call'[c].res = call[c].res
      <4>1. /\ \A d \in Calls \ {c} : call'[d] = call[d]
            /\ call'[c] = [call[c] EXCEPT !.pc = pc]
        BY <1>1, <3>1, CallShapes
      <4>2. QED
        BY <1>1, <4>1 DEF CallType
    <3>2. ASSUME NEW r, Finish(c, r)
          PROVE  /\ \A d \in Calls \ {c} : call'[d] = call[d]
                 /\ call'[c].pc = "done" /\ call'[c].res = r
      <4>1. /\ \A d \in Calls \ {c} : call'[d] = call[d]
            /\ call'[c] = [[call[c] EXCEPT !.pc = "done"] EXCEPT !.res = r]
        BY <1>1, <3>2, CallShapes
      <4>2. QED
        BY <1>1, <4>1 DEF CallType
    <3>3. ASSUME NEW why \in {"ctx", "pipe"}, Failed(c, why)
          PROVE  /\ \A d \in Calls \ {c} : call'[d] = call[d]
                 /\ \/ call'[c].pc = "reset" /\ call'[c].res = call[c].res
                    \/ call'[c].pc = "done" /\ call'[c].res = "error"
      <4>1. CASE call[c].try = 1
        <5>1. /\ \A d \in Calls \ {c} : call'[d] = call[d]
              /\ call'[c] = [[call[c] EXCEPT !.pc = "reset"] EXCEPT !.why = why]
          BY <1>1, <3>3, <4>1, CallShapes
        <5>2. QED
          BY <1>1, <5>1 DEF CallType
      <4>2. CASE call[c].try # 1
        <5>1. /\ \A d \in Calls \ {c} : call'[d] = call[d]
              /\ call'[c] = [[call[c] EXCEPT !.pc = "done"] EXCEPT !.res = "error"]
          BY <1>1, <3>3, <4>2, CallShapes
        <5>2. QED
          BY <1>1, <5>1 DEF CallType
      <4>3. QED
        BY <4>1, <4>2
    <3>4. CASE Pick(c) /\ cur # 0
      <4>1. call' = [call EXCEPT ![c].pc = "queue", ![c].p = cur]
        BY <3>4 DEF Pick
      <4>2. /\ \A d \in Calls \ {c} : call'[d] = call[d]
            /\ call'[c] = [[call[c] EXCEPT !.pc = "queue"] EXCEPT !.p = cur]
        BY <1>1, <4>1
      <4>3. QED
        BY <1>1, <4>2 DEF CallType
    <3>5. CASE Recover(c)
      <4>1. \/ call' = [call EXCEPT ![c].pc = "done", ![c].res = "error"]
            \/ call' = [call EXCEPT ![c].pc = "ensure", ![c].try = 2]
        BY <3>5 DEF Recover
      <4>2. /\ \A d \in Calls \ {c} : call'[d] = call[d]
            /\ \/ call'[c] = [[call[c] EXCEPT !.pc = "done"] EXCEPT !.res = "error"]
               \/ call'[c] = [[call[c] EXCEPT !.pc = "ensure"] EXCEPT !.try = 2]
        BY <1>1, <4>1
      <4>3. QED
        BY <1>1, <4>2 DEF CallType
    <3>6. CASE Finish(c, "own") /\ Read(c) /\ IsReplyTo(Head(proc[call[c].p].out), c)
      <4> DEFINE q == call[c].p
      <4>1. /\ q \in Procs /\ proc[q] \in ProcType /\ proc[q].out # <<>>
        BY <1>1, <3>6 DEF Read, StdioInv, StdioTypes, Exchanging
      <4>2. 1 \in 1..Len(proc[q].out) /\ Head(proc[q].out) = proc[q].out[1]
        BY <4>1 DEF ProcType
      <4>3. c \in proc[q].run
        BY <3>6, <4>1, <4>2 DEF IsReplyTo, StdioInv, AnswersRun
      <4>4. ran[c] >= 1 /\ ran[c] \in 0..2
        BY <1>1, <4>1, <4>3 DEF StdioInv, RunCounted, RunBy, StdioTypes
      <4>5. QED
        BY <3>2, <3>6, <4>4
    <3>7. QED
      BY <2>1, <2>2, <3>1, <3>2, <3>3, <3>4, <3>5, <3>6
  <2>4. QED
    BY <2>1, <2>3, StdioSeen DEF T!Next
<1>4. QED
  BY <1>2, <1>3

LEMMA StdioTransport ==
    ASSUME MCPAssumption, StdioInv, [Next]_vars
    PROVE  [T!Next]_(T!vars)
<1>1. ASSUME call' = call, ran' = ran PROVE UNCHANGED T!vars
  BY <1>1 DEF T!vars, Phases, Results
<1>2. CASE UNCHANGED vars
  BY <1>1, <1>2 DEF vars
<1>3. ASSUME NEW c \in Calls, Call(c) \/ Steps(c) \/ CancelQueued(c) \/ Interrupt(c, TRUE)
      PROVE  [T!Next]_(T!vars)
  BY <1>3, StdioCallSeen
<1>4. ASSUME NEW p \in Procs, NEW c \in Calls, ServerRuns(p, c) PROVE [T!Next]_(T!vars)
  <2>1. ran[c] < 2 /\ call[c].pc # "idle" /\ call' = call /\ ran' = [ran EXCEPT ![c] = @ + 1]
    BY <1>4, StdioRuns DEF ServerRuns
  <2>2. Phases[c] # "idle" /\ Phases' = Phases /\ Results' = Results
    BY <2>1 DEF Phases, Results
  <2>3. T!Run(c)
    BY <2>1, <2>2 DEF T!Run
  <2>4. QED
    BY <2>3 DEF T!Next
<1>5. ASSUME NEW p \in Procs, \/ \E c \in Calls : ServerAnswers(p, c)
                              \/ ServerNoise(p) \/ ServerDies(p)
      PROVE  [T!Next]_(T!vars)
  BY <1>1, <1>5 DEF ServerAnswers, ServerNoise, ServerDies
<1>6. CASE Close
  BY <1>1, <1>6 DEF Close
<1>7. QED
  BY <1>2, <1>3, <1>4, <1>5, <1>6 DEF Next, Serves

LEMMA StdioTransportInit == Init => T!Init
<1>1. ASSUME Init PROVE \A c \in Calls : call[c].pc = "idle" /\ call[c].res = "none"
  BY <1>1 DEF Init
<1>2. ASSUME Init PROVE Phases = [c \in Calls |-> "idle"] /\ Results = [c \in Calls |-> "none"]
  BY <1>1, <1>2 DEF Phases, Results
<1>3. QED
  BY <1>2 DEF Init, T!Init

(* Only the process in use runs, also after restarts, and none starts once  *)
(* the transport is closed (reconnectingClient).                           *)
LEMMA StdioOneProcess == StdioInv => OneProcess
BY DEF StdioInv, Running

(* The semaphore of a process lets one call be between its request and its *)
(* answer (client.call).                                                   *)
LEMMA StdioOneExchange == StdioInv => OneExchange
<1>1. SUFFICES ASSUME StdioInv, NEW p \in Procs
               PROVE  Cardinality({c \in Calls : call[c].p = p /\ call[c].pc \in {"write", "read"}}) <= 1
  BY DEF OneExchange
<1> DEFINE S == {c \in Calls : call[c].p = p /\ call[c].pc \in {"write", "read"}}
<1>2. S \subseteq {proc[p].sem}
  BY <1>1 DEF StdioInv, Exchanging
<1>3. IsFiniteSet({proc[p].sem}) /\ Cardinality({proc[p].sem}) = 1
  BY FS_Singleton
<1>4. Cardinality(S) <= Cardinality({proc[p].sem})
  BY <1>2, <1>3, FS_Subset
<1>5. QED
  BY <1>3, <1>4

(***************************************************************************)
(* MCPHttp                                                                 *)
(***************************************************************************)

TokenOrNone == 0..(MaxTokens + 1)
PostLabels == {"idle", "auth", "token", "grant", "refresh", "person", "send", "sent", "http401",
               "http500", "done"}
PostType == [pc : PostLabels, try : {1, 2}, tok : TokenOrNone, bad : TokenOrNone,
             res : {"none", "own", "error"}]
SourceType == [mu : Calls \cup {0}, has : BOOLEAN, tok : TokenOrNone, ref : TokenOrNone, fresh : BOOLEAN]
FileType == [at : {"none", "mine", "other"}, tok : TokenOrNone, ref : TokenOrNone, fresh : BOOLEAN]

HttpTypes ==
    /\ kind \in {"static", "client", "login", "oauth"} /\ shared \in BOOLEAN
    /\ file \in FileType /\ src \in [Calls -> SourceType] /\ post \in [Calls -> PostType]
    /\ issued \in 1..MaxTokens /\ live \subseteq 1..issued /\ good \subseteq 1..issued
    /\ refused \in [1..(MaxTokens + 1) -> Nat]
    /\ posted \in [Calls -> {0, 1}]

(* A call is run once, between its request and the answer, and has no      *)
(* result before its end.                                                  *)
BeforeRun == {"idle", "auth", "token", "grant", "refresh", "person", "send", "http401"}
RunAlready == {"sent", "http500"}

RunAtSend ==
    \A c \in Calls :
        /\ post[c].pc \in BeforeRun => posted[c] = 0
        /\ post[c].pc \in RunAlready => posted[c] = 1
        /\ post[c].pc # "done" => post[c].res = "none"

(* Every token in use was issued for this server.                          *)
Ours ==
    /\ \A s \in Calls : src[s].tok <= issued /\ src[s].ref <= issued
    /\ \A c \in Calls : post[c].tok <= issued /\ post[c].bad <= issued
    /\ file.at = "mine" => file.tok <= issued /\ file.ref <= issued

(* A call that was given a token has loaded the grant of its source.       *)
Given == {"grant", "refresh", "person", "send", "sent", "http401", "http500"}
LoadedFirst ==
    \A c \in Calls :
        kind = "oauth" /\ (post[c].pc \in Given \/ post[c].bad # 0) => src[H!Of(c)].has

(* The source of a refused call has another token, or none that is fresh.  *)
Renewed ==
    \A c \in Calls :
        kind # "static" /\ post[c].bad # 0 =>
            /\ src[H!Of(c)].fresh => src[H!Of(c)].tok # post[c].bad
            /\ post[c].pc = "send" => post[c].tok # post[c].bad

(* A refresh token is of one source, which forgets it when it is refused.  *)
Forgotten ==
    kind = "login" =>
        /\ \A t \in 1..(MaxTokens + 1) :
            /\ refused[t] <= 1
            /\ refused[t] = 1 => t <= issued /\ \A s \in Calls : src[s].ref # t
        /\ \A s, u \in Calls : s # u /\ src[s].ref # 0 => src[s].ref # src[u].ref

CallbackMine == cli \notin {"strange", "wrong"}

HttpInv ==
    HttpTypes /\ RunAtSend /\ Ours /\ LoadedFirst /\ Renewed /\ H!FileKeepsUp /\ Forgotten /\ CallbackMine

LEMMA HttpOf == ASSUME MCPAssumption, HttpTypes, NEW c \in Calls PROVE H!Of(c) \in Calls
BY DEF MCPAssumption, H!Of

LEMMA HttpInit == ASSUME MCPAssumption, H!Init PROVE HttpInv
<1>1. /\ 0 \in TokenOrNone /\ 1 \in TokenOrNone /\ MaxTokens + 1 \in TokenOrNone /\ 1 <= MaxTokens
      /\ MaxTokens \in Nat
  BY MCPAssumption DEF TokenOrNone
<1>2. \A s \in Calls : src[s] \in [mu : {0}, has : {FALSE}, tok : {0}, ref : {0}, fresh : {FALSE}]
  BY DEF H!Init, H!Source, H!None
<1>3. \A c \in Calls : post[c] \in [pc : {"idle"}, try : {1}, tok : {0}, bad : {0}, res : {"none"}]
  BY DEF H!Init, H!None
<1>4. /\ file \in FileType
      /\ file.at = "mine" => file.tok = 1 /\ file.ref = 1
  <2>1. H!NoGrant \in FileType /\ H!NoGrant.at = "none"
    BY <1>1 DEF H!NoGrant, H!None, FileType
  <2>2. H!Saved("mine", 1) \in FileType /\ H!Saved("mine", 1).tok = 1 /\ H!Saved("mine", 1).ref = 1
    BY <1>1 DEF H!Saved, FileType
  <2>3. H!Saved("other", MaxTokens + 1) \in FileType /\ H!Saved("other", MaxTokens + 1).at = "other"
    BY <1>1 DEF H!Saved, FileType
  <2>4. file \in {H!NoGrant, H!Saved("mine", 1), H!Saved("other", MaxTokens + 1)}
    BY DEF H!Init, H!Foreign
  <2>5. QED
    BY <2>1, <2>2, <2>3, <2>4
<1>5. /\ kind \in {"static", "client", "login", "oauth"} /\ shared \in BOOLEAN /\ cli = "idle"
      /\ issued = 1 /\ live = {1} /\ good = {1}
      /\ refused = [t \in 1..(MaxTokens + 1) |-> 0] /\ posted = [c \in Calls |-> 0]
      /\ src = [s \in Calls |-> src[s]] /\ post = [c \in Calls |-> post[c]]
  BY DEF H!Init, H!Kinds, H!Tokens, H!Foreign
<1>6. HttpTypes
  <2>1. \A s \in Calls : src[s] \in SourceType
    BY <1>1, <1>2 DEF SourceType
  <2>2. \A c \in Calls : post[c] \in PostType
    BY <1>1, <1>3 DEF PostType, PostLabels
  <2>3. /\ issued \in 1..MaxTokens /\ live \subseteq 1..issued /\ good \subseteq 1..issued
    BY <1>1, <1>5
  <2>4. refused \in [1..(MaxTokens + 1) -> Nat] /\ posted \in [Calls -> {0, 1}]
    BY <1>5
  <2>5. src \in [Calls -> SourceType] /\ post \in [Calls -> PostType]
    BY <1>5, <2>1, <2>2
  <2>6. kind \in {"static", "client", "login", "oauth"} /\ shared \in BOOLEAN
    BY <1>5
  <2>7. QED
    BY <1>4, <2>3, <2>4, <2>5, <2>6 DEF HttpTypes
<1>7. RunAtSend
  BY <1>3, <1>5 DEF RunAtSend, BeforeRun, RunAlready
<1>8. Ours
  <2>1. \A s \in Calls : src[s].tok = 0 /\ src[s].ref = 0
    BY <1>2
  <2>2. \A c \in Calls : post[c].tok = 0 /\ post[c].bad = 0
    BY <1>3
  <2>3. issued = 1 /\ 0 <= issued /\ 1 <= issued
    BY <1>5
  <2>4. \A s \in Calls : src[s].tok <= issued /\ src[s].ref <= issued
    BY <2>1, <2>3
  <2>5. \A c \in Calls : post[c].tok <= issued /\ post[c].bad <= issued
    BY <2>2, <2>3
  <2>6. file.at = "mine" => file.tok <= issued /\ file.ref <= issued
    BY <1>4, <2>3
  <2>7. QED
    BY <2>4, <2>5, <2>6 DEF Ours
<1>9. LoadedFirst /\ Renewed
  BY <1>3 DEF LoadedFirst, Renewed, Given
<1>10. H!FileKeepsUp
  <2>1. 1 \in Calls /\ ~src[1].has
    BY <1>2, MCPAssumption
  <2>2. QED
    BY <2>1 DEF H!FileKeepsUp
<1>11. Forgotten
  <2>1. \A s \in Calls : src[s].ref = 0
    BY <1>2
  <2>2. \A t \in 1..(MaxTokens + 1) : refused[t] = 0
    BY <1>5
  <2>3. \A t \in 1..(MaxTokens + 1) : refused[t] <= 1 /\ refused[t] # 1
    BY <2>2
  <2>4. \A s, u \in Calls : ~(s # u /\ src[s].ref # 0)
    BY <2>1
  <2>5. QED
    BY <2>3, <2>4 DEF Forgotten
<1>12. CallbackMine
  BY <1>5 DEF CallbackMine
<1>13. QED
  BY <1>6, <1>7, <1>8, <1>9, <1>10, <1>11, <1>12 DEF HttpInv

(***************************************************************************)
(* The steps of a call that leave the tokens alone                         *)
(***************************************************************************)

LEMMA PostShapes ==
    ASSUME HttpTypes, NEW c \in Calls
    PROVE  /\ \A pc : H!Goto(c, pc) =>
                /\ post' = [d \in Calls |-> post'[d]] /\ \A d \in Calls \ {c} : post'[d] = post[d]
                /\ post'[c] = [post[c] EXCEPT !.pc = pc]
           /\ \A t : H!Carry(c, t) =>
                /\ post' = [d \in Calls |-> post'[d]] /\ \A d \in Calls \ {c} : post'[d] = post[d]
                /\ post'[c] = [[post[c] EXCEPT !.pc = "send"] EXCEPT !.tok = t]
           /\ \A r : H!Finish(c, r) =>
                /\ post' = [d \in Calls |-> post'[d]] /\ \A d \in Calls \ {c} : post'[d] = post[d]
                /\ post'[c] = [pc |-> "done", try |-> 1, tok |-> 0, bad |-> 0, res |-> r]
<1>1. post \in [Calls -> PostType]
  BY DEF HttpTypes
<1>2. ASSUME NEW pc, H!Goto(c, pc)
      PROVE  /\ post' = [d \in Calls |-> post'[d]] /\ \A d \in Calls \ {c} : post'[d] = post[d]
             /\ post'[c] = [post[c] EXCEPT !.pc = pc]
  BY <1>1, <1>2 DEF H!Goto
<1>3. ASSUME NEW t, H!Carry(c, t)
      PROVE  /\ post' = [d \in Calls |-> post'[d]] /\ \A d \in Calls \ {c} : post'[d] = post[d]
             /\ post'[c] = [[post[c] EXCEPT !.pc = "send"] EXCEPT !.tok = t]
  BY <1>1, <1>3 DEF H!Carry
<1>4. ASSUME NEW r, H!Finish(c, r)
      PROVE  /\ post' = [d \in Calls |-> post'[d]] /\ \A d \in Calls \ {c} : post'[d] = post[d]
             /\ post'[c] = [pc |-> "done", try |-> 1, tok |-> 0, bad |-> 0, res |-> r]
  BY <1>1, <1>4 DEF H!Finish, H!None
<1>5. QED
  BY <1>2, <1>3, <1>4

LEMMA PostGoes ==
    ASSUME MCPAssumption, HttpTypes, NEW c \in Calls
    PROVE  /\ \A pc \in PostLabels : H!Goto(c, pc) =>
                /\ post' \in [Calls -> PostType] /\ \A d \in Calls \ {c} : post'[d] = post[d]
                /\ post'[c].pc = pc /\ post'[c].tok = post[c].tok /\ post'[c].bad = post[c].bad
                /\ post'[c].res = post[c].res
           /\ \A t \in TokenOrNone : H!Carry(c, t) =>
                /\ post' \in [Calls -> PostType] /\ \A d \in Calls \ {c} : post'[d] = post[d]
                /\ post'[c].pc = "send" /\ post'[c].tok = t /\ post'[c].bad = post[c].bad
                /\ post'[c].res = post[c].res
           /\ \A r \in {"none", "own", "error"} : H!Finish(c, r) =>
                /\ post' \in [Calls -> PostType] /\ \A d \in Calls \ {c} : post'[d] = post[d]
                /\ post'[c].pc = "done" /\ post'[c].tok = 0 /\ post'[c].bad = 0
                /\ post'[c].res = r
<1>1. post \in [Calls -> PostType] /\ post[c] \in PostType
  BY DEF HttpTypes
<1>2. ASSUME NEW pc \in PostLabels, H!Goto(c, pc)
      PROVE  /\ post' \in [Calls -> PostType] /\ \A d \in Calls \ {c} : post'[d] = post[d]
             /\ post'[c].pc = pc /\ post'[c].tok = post[c].tok /\ post'[c].bad = post[c].bad
             /\ post'[c].res = post[c].res
  <2>1. /\ post' = [d \in Calls |-> post'[d]] /\ \A d \in Calls \ {c} : post'[d] = post[d]
        /\ post'[c] = [post[c] EXCEPT !.pc = pc]
    BY <1>2, PostShapes
  <2>2. /\ post'[c] \in PostType
        /\ post'[c].pc = pc /\ post'[c].tok = post[c].tok /\ post'[c].bad = post[c].bad
        /\ post'[c].res = post[c].res
    BY <1>1, <1>2, <2>1 DEF PostType
  <2>3. QED
    BY <1>1, <2>1, <2>2
<1>3. ASSUME NEW t \in TokenOrNone, H!Carry(c, t)
      PROVE  /\ post' \in [Calls -> PostType] /\ \A d \in Calls \ {c} : post'[d] = post[d]
             /\ post'[c].pc = "send" /\ post'[c].tok = t /\ post'[c].bad = post[c].bad
             /\ post'[c].res = post[c].res
  <2>1. /\ post' = [d \in Calls |-> post'[d]] /\ \A d \in Calls \ {c} : post'[d] = post[d]
        /\ post'[c] = [[post[c] EXCEPT !.pc = "send"] EXCEPT !.tok = t]
    BY <1>3, PostShapes
  <2>2. /\ post'[c] \in PostType
        /\ post'[c].pc = "send" /\ post'[c].tok = t /\ post'[c].bad = post[c].bad
        /\ post'[c].res = post[c].res
    BY <1>1, <1>3, <2>1 DEF PostType, PostLabels
  <2>3. QED
    BY <1>1, <2>1, <2>2
<1>4. ASSUME NEW r \in {"none", "own", "error"}, H!Finish(c, r)
      PROVE  /\ post' \in [Calls -> PostType] /\ \A d \in Calls \ {c} : post'[d] = post[d]
             /\ post'[c].pc = "done" /\ post'[c].tok = 0 /\ post'[c].bad = 0
             /\ post'[c].res = r
  <2>1. /\ post' = [d \in Calls |-> post'[d]] /\ \A d \in Calls \ {c} : post'[d] = post[d]
        /\ post'[c] = [pc |-> "done", try |-> 1, tok |-> 0, bad |-> 0, res |-> r]
    BY <1>4, PostShapes
  <2>2. 0 \in TokenOrNone
    BY MCPAssumption DEF TokenOrNone
  <2>3. /\ post'[c] \in PostType /\ post'[c].pc = "done" /\ post'[c].tok = 0 /\ post'[c].bad = 0
        /\ post'[c].res = r
    BY <1>4, <2>1, <2>2 DEF PostType, PostLabels
  <2>4. QED
    BY <1>1, <2>1, <2>3
<1>5. QED
  BY <1>2, <1>3, <1>4

(* A step of call c that gets no token, asks for none and runs nothing.    *)
Idles(c) ==
    /\ kind' = kind /\ shared' = shared /\ file' = file /\ cli' = cli /\ issued' = issued
    /\ live' = live /\ good' \subseteq good /\ posted' = posted
    /\ refused' = refused \/ (kind # "login" /\ refused' \in [1..(MaxTokens + 1) -> Nat])
    /\ post' \in [Calls -> PostType] /\ \A d \in Calls \ {c} : post'[d] = post[d]
    /\ src' \in [Calls -> SourceType]
    /\ \A s \in Calls : /\ src'[s].has = src[s].has /\ src'[s].tok = src[s].tok
                        /\ src'[s].ref = src[s].ref /\ src'[s].fresh = src[s].fresh
    /\ post[c].pc # "done"
    /\ post'[c].bad \in {0, post[c].bad}
    /\ \/ post'[c].tok \in {0, post[c].tok}
       \/ post'[c].tok = 1
    /\ post'[c].pc \in BeforeRun => post[c].pc \in BeforeRun
    /\ post'[c].pc \in RunAlready => post[c].pc \in RunAlready
    /\ post'[c].pc # "done" => post'[c].res = post[c].res
    /\ post'[c].pc \in Given => post[c].pc \in Given \/ kind = "static"
    /\ post'[c].pc = "send" => kind = "static"

LEMMA IdlesKeep ==
    ASSUME MCPAssumption, HttpInv, NEW c \in Calls, Idles(c)
    PROVE  HttpInv'
<1>1. HttpTypes /\ \A d \in Calls : H!Of(d)' = H!Of(d) /\ H!Of(d) \in Calls
  BY HttpOf DEF HttpInv, Idles, H!Of
<1>2. HttpTypes'
  BY <1>1 DEF Idles, HttpTypes
<1>3. RunAtSend'
  BY DEF Idles, HttpInv, RunAtSend
<1>4. Ours'
  <2>1. post'[c].tok <= issued /\ post'[c].bad <= issued
    BY <1>1 DEF Idles, HttpInv, Ours, HttpTypes
  <2>2. QED
    BY <2>1 DEF Idles, HttpInv, Ours
<1>5. LoadedFirst'
  <2>1. SUFFICES ASSUME NEW d \in Calls, kind = "oauth", post'[d].pc \in Given \/ post'[d].bad # 0
                 PROVE  src'[H!Of(d)].has
    BY <1>1 DEF Idles, LoadedFirst, H!Of
  <2>2. post[d].pc \in Given \/ post[d].bad # 0
    BY <2>1 DEF Idles
  <2>3. QED
    BY <1>1, <2>1, <2>2 DEF Idles, HttpInv, LoadedFirst
<1>6. Renewed'
  <2>1. SUFFICES ASSUME NEW d \in Calls, kind # "static", post'[d].bad # 0
                 PROVE  /\ src'[H!Of(d)].fresh => src'[H!Of(d)].tok # post'[d].bad
                        /\ post'[d].pc = "send" => post'[d].tok # post'[d].bad
    BY <1>1 DEF Idles, Renewed, H!Of
  <2>2. post'[d].bad = post[d].bad /\ (post'[d].pc = "send" => post[d].pc = "send" /\ post'[d].tok = post[d].tok)
    BY <2>1 DEF Idles
  <2>3. src'[H!Of(d)].fresh = src[H!Of(d)].fresh /\ src'[H!Of(d)].tok = src[H!Of(d)].tok
    BY <1>1 DEF Idles
  <2>4. /\ src[H!Of(d)].fresh => src[H!Of(d)].tok # post[d].bad
        /\ post[d].pc = "send" => post[d].tok # post[d].bad
    BY <2>1, <2>2 DEF HttpInv, Renewed
  <2>5. QED
    BY <2>2, <2>3, <2>4
<1>7. H!FileKeepsUp'
  <2>1. post[c].res = "none"
    BY DEF Idles, HttpInv, RunAtSend
  <2>2. 1 \in Calls
    BY MCPAssumption
  <2>3. QED
    BY <2>1, <2>2 DEF Idles, HttpInv, H!FileKeepsUp
<1>8. Forgotten'
  BY DEF Idles, HttpInv, Forgotten
<1>9. CallbackMine'
  BY DEF Idles, HttpInv, CallbackMine
<1>10. QED
  BY <1>2, <1>3, <1>4, <1>5, <1>6, <1>7, <1>8, <1>9 DEF HttpInv

(* The answer to a call on a stream is the call's own.                     *)
LEMMA StreamsOwn ==
    ASSUME MCPAssumption, NEW c \in Calls, NEW stream \in H!Streams(c)
    PROVE  H!ReadSSE(stream, c) \in {"own", "error"}
<1> DEFINE mine == {i \in DOMAIN stream : H!IdMatch(stream[i], c)}
           first == CHOOSE i \in mine : \A j \in mine : i <= j
<1>1. c # 0 /\ c # -1 /\ c \in Nat
  BY MCPAssumption
<1>2. \A i \in DOMAIN stream : stream[i].id = c => stream[i].kind = "reply"
  BY <1>1 DEF H!Streams, H!None
<1>3. mine \subseteq Nat
  <2>1. DOMAIN stream \subseteq Nat
    BY DEF H!Streams
  <2>2. QED
    BY <2>1
<1>4. CASE mine # {}
  <2>1. \E i \in mine : \A j \in mine : i <= j
    <3>1. DOMAIN stream \subseteq {1, 2}
      BY DEF H!Streams
    <3>2. QED
      BY <1>4, <3>1
  <2>2. first \in mine
    BY <2>1
  <2>3. stream[first].kind = "reply"
    BY <1>2, <2>2 DEF H!IdMatch
  <2>4. QED
    BY <1>4, <2>3 DEF H!ReadSSE
<1>5. CASE mine = {}
  BY <1>5 DEF H!ReadSSE
<1>6. QED
  BY <1>4, <1>5

(* What the steps of a call do with it.                                    *)
LEMMA HttpIdles ==
    ASSUME MCPAssumption, HttpInv, NEW c \in Calls,
           \/ H!Call(c) \/ H!Apply(c) \/ H!RefreshLost(c) \/ H!LoginFails(c) \/ H!Answer(c)
           \/ H!Unauthorized(c) \/ H!Unsent(c) \/ H!Status(c)
    PROVE  HttpInv'
<1>1. HttpTypes /\ H!Of(c) \in Calls /\ 1 \in TokenOrNone /\ c \in Calls \cup {0}
  BY HttpOf, MCPAssumption DEF HttpInv, TokenOrNone
<1>2. /\ kind' = kind /\ shared' = shared /\ file' = file /\ cli' = cli /\ issued' = issued
      /\ live' = live /\ good' \subseteq good /\ refused' = refused /\ posted' = posted
  BY DEF H!Call, H!Apply, H!RefreshLost, H!LoginFails, H!Answer, H!Unauthorized, H!Unsent, H!Status,
     H!servers
<1>3. \/ src' = src
      \/ \E u \in Calls \cup {0} : src' = [src EXCEPT ![H!Of(c)].mu = u]
  <2>1. CASE H!Call(c) \/ H!Answer(c) \/ H!Unauthorized(c) \/ H!Unsent(c) \/ H!Status(c)
    BY <2>1 DEF H!Call, H!Answer, H!Unauthorized, H!Unsent, H!Status
  <2>2. CASE H!Apply(c)
    BY <1>1, <2>2 DEF H!Apply
  <2>3. CASE H!RefreshLost(c) \/ H!LoginFails(c)
    BY <1>1, <2>3 DEF H!RefreshLost, H!LoginFails, H!Unlocked, H!None
  <2>4. QED
    BY <2>1, <2>2, <2>3
<1>4. /\ src' \in [Calls -> SourceType]
      /\ \A s \in Calls : /\ src'[s].has = src[s].has /\ src'[s].tok = src[s].tok
                          /\ src'[s].ref = src[s].ref /\ src'[s].fresh = src[s].fresh
  <2>1. CASE src' = src
    BY <1>1, <2>1 DEF HttpTypes
  <2>2. ASSUME NEW u \in Calls \cup {0}, src' = [src EXCEPT ![H!Of(c)].mu = u]
        PROVE  /\ src' \in [Calls -> SourceType]
               /\ \A s \in Calls : /\ src'[s].has = src[s].has /\ src'[s].tok = src[s].tok
                                   /\ src'[s].ref = src[s].ref /\ src'[s].fresh = src[s].fresh
    <3> DEFINE q == H!Of(c)
    <3>1. q \in Calls /\ src' = [src EXCEPT ![q].mu = u] /\ src \in [Calls -> SourceType]
      BY <1>1, <2>2 DEF HttpTypes
    <3> HIDE DEF q
    <3>2. /\ src' = [p \in Calls |-> src'[p]] /\ \A p \in Calls \ {q} : src'[p] = src[p]
          /\ src'[q] = [src[q] EXCEPT !.mu = u]
      BY <3>1
    <3>3. /\ src'[q] \in SourceType /\ src'[q].has = src[q].has /\ src'[q].tok = src[q].tok
          /\ src'[q].ref = src[q].ref /\ src'[q].fresh = src[q].fresh
      BY <2>2, <3>1, <3>2 DEF SourceType
    <3>4. QED
      BY <3>1, <3>2, <3>3
  <2>3. QED
    BY <1>3, <2>1, <2>2
<1>5. \/ post[c].pc = "idle" /\ H!Goto(c, "auth")
      \/ post[c].pc = "auth" /\ H!Goto(c, "token")
      \/ post[c].pc = "auth" /\ kind = "static" /\ H!Carry(c, 1)
      \/ post[c].pc = "refresh" /\ H!Goto(c, "person")
      \/ post[c].pc = "sent" /\ H!Goto(c, "http500")
      \/ post[c].pc = "send" /\ H!Goto(c, "http401")
      \/ post[c].pc # "done" /\ \E r \in {"own", "error"} : H!Finish(c, r)
  <2>1. CASE H!Call(c)
    BY <2>1 DEF H!Call
  <2>2. CASE H!Apply(c)
    BY <2>2 DEF H!Apply
  <2>3. CASE H!RefreshLost(c)
    BY <2>3 DEF H!RefreshLost
  <2>4. CASE H!LoginFails(c) \/ H!Unsent(c) \/ H!Status(c)
    BY <2>4 DEF H!LoginFails, H!Unsent, H!Status
  <2>5. CASE H!Answer(c)
    BY <2>5, StreamsOwn DEF H!Answer
  <2>6. CASE H!Unauthorized(c)
    BY <2>6 DEF H!Unauthorized
  <2>7. QED
    BY <2>1, <2>2, <2>3, <2>4, <2>5, <2>6
<1>6. Idles(c)
  <2>1. ASSUME NEW a, NEW b, \/ a = "idle" /\ b = "auth"
                             \/ a = "auth" /\ b = "token"
                             \/ a = "refresh" /\ b = "person"
                             \/ a = "sent" /\ b = "http500"
                             \/ a = "send" /\ b = "http401",
               post[c].pc = a, H!Goto(c, b)
        PROVE  Idles(c)
    <3>1. b \in PostLabels
      BY <2>1 DEF PostLabels
    <3>2. /\ post' \in [Calls -> PostType] /\ \A d \in Calls \ {c} : post'[d] = post[d]
          /\ post'[c].pc = b /\ post'[c].tok = post[c].tok /\ post'[c].bad = post[c].bad
          /\ post'[c].res = post[c].res
      BY <1>1, <2>1, <3>1, PostGoes
    <3>3. QED
      BY <1>2, <1>4, <2>1, <3>2 DEF Idles, BeforeRun, RunAlready, Given
  <2>2. CASE post[c].pc = "auth" /\ kind = "static" /\ H!Carry(c, 1)
    <3>1. /\ post' \in [Calls -> PostType] /\ \A d \in Calls \ {c} : post'[d] = post[d]
          /\ post'[c].pc = "send" /\ post'[c].tok = 1 /\ post'[c].bad = post[c].bad
          /\ post'[c].res = post[c].res
      BY <1>1, <2>2, PostGoes
    <3>2. QED
      BY <1>2, <1>4, <2>2, <3>1 DEF Idles, BeforeRun, RunAlready, Given
  <2>3. ASSUME post[c].pc # "done", NEW r \in {"own", "error"}, H!Finish(c, r)
        PROVE  Idles(c)
    <3>1. /\ post' \in [Calls -> PostType] /\ \A d \in Calls \ {c} : post'[d] = post[d]
          /\ post'[c].pc = "done" /\ post'[c].tok = 0 /\ post'[c].bad = 0
      BY <1>1, <2>3, PostGoes
    <3>2. QED
      BY <1>2, <1>4, <2>3, <3>1 DEF Idles, BeforeRun, RunAlready, Given
  <2>4. QED
    BY <1>5, <2>1, <2>2, <2>3
<1>7. QED
  BY <1>6, IdlesKeep

(***************************************************************************)
(* The steps that change the tokens                                        *)
(***************************************************************************)

(* The request runs.                                                       *)
LEMMA HttpRuns ==
    ASSUME MCPAssumption, HttpInv, NEW c \in Calls, H!Runs(c)
    PROVE  HttpInv'
<1>1. HttpTypes
  BY DEF HttpInv
<1>2. /\ kind' = kind /\ shared' = shared /\ file' = file /\ cli' = cli /\ issued' = issued /\ src' = src
      /\ live' = live /\ good' = good /\ refused' = refused /\ posted' = [posted EXCEPT ![c] = @ + 1]
      /\ post[c].pc = "send" /\ H!Goto(c, "sent")
  BY DEF H!Runs, H!servers
<1>3. /\ post' \in [Calls -> PostType] /\ \A d \in Calls \ {c} : post'[d] = post[d]
      /\ post'[c].pc = "sent" /\ post'[c].tok = post[c].tok /\ post'[c].bad = post[c].bad
      /\ post'[c].res = post[c].res
  BY <1>1, <1>2, PostGoes DEF PostLabels
<1>4. posted[c] = 0 /\ post[c].res = "none"
  BY <1>2 DEF HttpInv, RunAtSend, BeforeRun
<1>5. posted' \in [Calls -> {0, 1}] /\ posted'[c] = 1 /\ \A d \in Calls \ {c} : posted'[d] = posted[d]
  BY <1>1, <1>2, <1>4 DEF HttpTypes
<1>6. HttpTypes'
  BY <1>1, <1>2, <1>3, <1>5 DEF HttpTypes
<1>7. RunAtSend'
  BY <1>3, <1>4, <1>5 DEF HttpInv, RunAtSend, BeforeRun, RunAlready
<1>8. Ours'
  BY <1>2, <1>3 DEF HttpInv, Ours
<1>9. LoadedFirst'
  BY <1>2, <1>3 DEF HttpInv, LoadedFirst, Given, H!Of
<1>10. Renewed'
  BY <1>2, <1>3 DEF HttpInv, Renewed, H!Of
<1>11. H!FileKeepsUp'
  BY <1>2, <1>3 DEF HttpInv, H!FileKeepsUp
<1>12. Forgotten' /\ CallbackMine'
  BY <1>2 DEF HttpInv, Forgotten, CallbackMine
<1>13. QED
  BY <1>6, <1>7, <1>8, <1>9, <1>10, <1>11, <1>12 DEF HttpInv

(* A request that was refused goes back for another token.                 *)
LEMMA HttpAgain ==
    ASSUME MCPAssumption, HttpInv, NEW c \in Calls, H!Again(c)
    PROVE  HttpInv'
<1> DEFINE s == H!Of(c)
<1>1. HttpTypes /\ s \in Calls
  BY HttpOf DEF HttpInv
<1>2. /\ kind' = kind /\ shared' = shared /\ file' = file /\ cli' = cli /\ issued' = issued
      /\ live' = live /\ good' = good /\ refused' = refused /\ posted' = posted
      /\ post[c].pc = "http401"
      /\ src' = [src EXCEPT ![s].fresh = FALSE]
      /\ post' = [post EXCEPT ![c].pc = "auth", ![c].try = 2, ![c].bad = post[c].tok]
  BY DEF H!Again, H!Resend, H!Forced, H!servers
<1>3. /\ post' \in [Calls -> PostType] /\ \A d \in Calls \ {c} : post'[d] = post[d]
      /\ post'[c].pc = "auth" /\ post'[c].tok = post[c].tok /\ post'[c].bad = post[c].tok
      /\ post'[c].res = post[c].res
  <2>1. post \in [Calls -> PostType] /\ post[c] \in PostType
    BY <1>1 DEF HttpTypes
  <2>2. /\ post' = [d \in Calls |-> post'[d]] /\ \A d \in Calls \ {c} : post'[d] = post[d]
        /\ post'[c] = [[[post[c] EXCEPT !.pc = "auth"] EXCEPT !.try = 2] EXCEPT !.bad = post[c].tok]
    BY <1>2, <2>1
  <2>3. /\ post'[c] \in PostType
        /\ post'[c].pc = "auth" /\ post'[c].tok = post[c].tok /\ post'[c].bad = post[c].tok
        /\ post'[c].res = post[c].res
    BY <2>1, <2>2 DEF PostType, PostLabels
  <2>4. QED
    BY <2>1, <2>2, <2>3
<1>4. \A d \in Calls : H!Of(d)' = H!Of(d) /\ H!Of(d) \in Calls
  BY <1>1, <1>2, HttpOf DEF H!Of
<1> HIDE DEF s
<1>5. /\ src' \in [Calls -> SourceType] /\ ~src'[s].fresh
      /\ \A q \in Calls : /\ src'[q].has = src[q].has /\ src'[q].tok = src[q].tok
                          /\ src'[q].ref = src[q].ref /\ (src'[q].fresh => src[q].fresh)
  <2>1. src \in [Calls -> SourceType] /\ src[s] \in SourceType
    BY <1>1 DEF HttpTypes
  <2>2. /\ src' = [p \in Calls |-> src'[p]] /\ \A p \in Calls \ {s} : src'[p] = src[p]
        /\ src'[s] = [src[s] EXCEPT !.fresh = FALSE]
    BY <1>1, <1>2, <2>1
  <2>3. /\ src'[s] \in SourceType /\ src'[s].has = src[s].has /\ src'[s].tok = src[s].tok
        /\ src'[s].ref = src[s].ref /\ ~src'[s].fresh
    BY <2>1, <2>2 DEF SourceType
  <2>4. QED
    BY <2>1, <2>2, <2>3
<1>6. HttpTypes'
  BY <1>1, <1>2, <1>3, <1>5 DEF HttpTypes
<1>7. RunAtSend'
  BY <1>2, <1>3 DEF HttpInv, RunAtSend, BeforeRun, RunAlready
<1>8. Ours'
  BY <1>2, <1>3, <1>5 DEF HttpInv, Ours
<1>9. LoadedFirst'
  <2>1. SUFFICES ASSUME NEW d \in Calls, kind = "oauth", post'[d].pc \in Given \/ post'[d].bad # 0
                 PROVE  src'[H!Of(d)].has
    BY <1>2, <1>4 DEF LoadedFirst, H!Of
  <2>2. post[d].pc \in Given \/ post[d].bad # 0
    BY <1>2, <1>3, <2>1 DEF Given
  <2>3. QED
    BY <1>4, <1>5, <2>1, <2>2 DEF HttpInv, LoadedFirst
<1>10. Renewed'
  <2>1. SUFFICES ASSUME NEW d \in Calls, kind # "static", post'[d].bad # 0
                 PROVE  /\ src'[H!Of(d)].fresh => src'[H!Of(d)].tok # post'[d].bad
                        /\ post'[d].pc = "send" => post'[d].tok # post'[d].bad
    BY <1>2, <1>4 DEF Renewed, H!Of
  <2>2. CASE d = c
    BY <1>3, <1>5, <2>2 DEF s
  <2>3. CASE d # c
    <3>1. post'[d] = post[d]
      BY <1>3, <2>3
    <3>2. /\ src[H!Of(d)].fresh => src[H!Of(d)].tok # post[d].bad
          /\ post[d].pc = "send" => post[d].tok # post[d].bad
      BY <2>1, <3>1 DEF HttpInv, Renewed
    <3>3. src'[H!Of(d)].tok = src[H!Of(d)].tok /\ (src'[H!Of(d)].fresh => src[H!Of(d)].fresh)
      BY <1>4, <1>5
    <3>4. QED
      BY <3>1, <3>2, <3>3
  <2>4. QED
    BY <2>2, <2>3
<1>11. H!FileKeepsUp'
  <2>1. 1 \in Calls
    BY MCPAssumption
  <2>2. \A d \in Calls : post'[d].res = post[d].res
    BY <1>3
  <2>3. QED
    BY ZenonT(40), <1>2, <1>5, <2>1, <2>2 DEF HttpInv, H!FileKeepsUp
<1>12. Forgotten' /\ CallbackMine'
  BY <1>2, <1>5 DEF HttpInv, Forgotten, CallbackMine
<1>13. QED
  BY <1>6, <1>7, <1>8, <1>9, <1>10, <1>11, <1>12 DEF HttpInv

(* A step of call c takes a token or asks for one: what it leaves in the   *)
(* source is r.                                                            *)
LEMMA HttpToken ==
    ASSUME MCPAssumption, HttpInv, NEW c \in Calls, H!Token(c)
    PROVE  HttpInv'
<1> DEFINE s == H!Of(c)  r == H!Loaded(s)
<1>1. HttpTypes /\ s \in Calls /\ \A d \in Calls : H!Of(d) \in Calls
  BY HttpOf DEF HttpInv
<1>2. /\ kind' = kind /\ shared' = shared /\ file' = file /\ cli' = cli /\ issued' = issued
      /\ live' = live /\ good' = good /\ refused' = refused /\ posted' = posted
      /\ post[c].pc = "token"
  BY DEF H!Token, H!servers
<1>3. /\ src \in [Calls -> SourceType] /\ src[s] \in SourceType /\ file \in FileType
      /\ post[c] \in PostType /\ 0 \in TokenOrNone
  <2>1. 0 \in TokenOrNone
    BY MCPAssumption DEF TokenOrNone
  <2>2. src \in [Calls -> SourceType] /\ post \in [Calls -> PostType] /\ file \in FileType
    BY <1>1 DEF HttpTypes
  <2> HIDE DEF s
  <2>3. QED
    BY <1>1, <2>1, <2>2
<1>4. \A d \in Calls : H!Of(d)' = H!Of(d)
  BY <1>2 DEF H!Of
<1>5. CASE kind = "oauth" /\ ~src[s].has /\ ~H!Pinned(file)
  <2>1. H!Finish(c, "error") /\ src' = [src EXCEPT ![s].mu = 0]
    BY <1>5 DEF H!Token, H!Unlocked, H!None
  <2>2. /\ post' \in [Calls -> PostType] /\ \A d \in Calls \ {c} : post'[d] = post[d]
        /\ post'[c].pc = "done" /\ post'[c].tok = 0 /\ post'[c].bad = 0
    BY <1>1, <2>1, PostGoes
  <2> HIDE DEF s
  <2>3. /\ src' = [p \in Calls |-> src'[p]] /\ \A p \in Calls \ {s} : src'[p] = src[p]
        /\ src'[s] = [src[s] EXCEPT !.mu = 0]
    BY <1>1, <1>3, <2>1
  <2>4. /\ src'[s] \in SourceType /\ src'[s].has = src[s].has /\ src'[s].tok = src[s].tok
        /\ src'[s].ref = src[s].ref /\ src'[s].fresh = src[s].fresh
    BY <1>3, <2>3 DEF SourceType
  <2>5. Idles(c)
    BY <1>1, <1>2, <1>3, <2>2, <2>3, <2>4 DEF Idles, BeforeRun, RunAlready, Given
  <2>6. QED
    BY <2>5, IdlesKeep
<1>6. CASE ~(kind = "oauth" /\ ~src[s].has /\ ~H!Pinned(file))
  <2>1. /\ r \in SourceType /\ (kind = "oauth" => r.has)
        /\ \/ r = src[s] /\ (kind = "oauth" => src[s].has)
           \/ /\ kind = "oauth" /\ ~src[s].has /\ file.at = "mine"
              /\ r.tok = file.tok /\ r.ref = file.ref
    <3>1. CASE kind = "oauth" /\ ~src[s].has
      <4>1. file.at = "mine"
        BY <1>6, <3>1 DEF H!Pinned
      <4>2. r = [src[s] EXCEPT !.has = TRUE, !.tok = file.tok, !.ref = file.ref, !.fresh = file.fresh]
        BY <3>1 DEF H!Loaded
      <4> HIDE DEF r, s
      <4>3. r = [[[[src[s] EXCEPT !.has = TRUE] EXCEPT !.tok = file.tok] EXCEPT !.ref = file.ref]
                     EXCEPT !.fresh = file.fresh]
        BY <1>3, <4>2
      <4>4. /\ file.tok \in TokenOrNone /\ file.ref \in TokenOrNone /\ file.fresh \in BOOLEAN
        BY <1>3 DEF FileType
      <4>5. r \in SourceType /\ r.has /\ r.tok = file.tok /\ r.ref = file.ref
        BY <1>3, <4>3, <4>4 DEF SourceType
      <4>6. QED
        BY <3>1, <4>1, <4>5
    <3>2. CASE ~(kind = "oauth" /\ ~src[s].has)
      BY <1>3, <3>2 DEF H!Loaded
    <3>3. QED
      BY <3>1, <3>2
  <2>2. \/ r.tok # 0 /\ r.fresh /\ H!Carry(c, r.tok) /\ src' = [src EXCEPT ![s] = [r EXCEPT !.mu = 0]]
        \/ H!Finish(c, "error") /\ src' = [src EXCEPT ![s] = [r EXCEPT !.mu = 0]]
        \/ \E pc \in {"grant", "refresh", "person"} : H!Goto(c, pc) /\ src' = [src EXCEPT ![s] = r]
    BY <1>6 DEF H!Token, H!Wanted, H!None
  <2> HIDE DEF s, r
  <2>3. /\ src' \in [Calls -> SourceType] /\ \A q \in Calls \ {s} : src'[q] = src[q]
        /\ src'[s].has = r.has /\ src'[s].tok = r.tok /\ src'[s].ref = r.ref /\ src'[s].fresh = r.fresh
    <3>1. /\ [r EXCEPT !.mu = 0] \in SourceType /\ [r EXCEPT !.mu = 0].has = r.has
          /\ [r EXCEPT !.mu = 0].tok = r.tok /\ [r EXCEPT !.mu = 0].ref = r.ref
          /\ [r EXCEPT !.mu = 0].fresh = r.fresh
      BY <2>1 DEF SourceType
    <3> DEFINE u == [r EXCEPT !.mu = 0]
    <3>2. /\ u \in SourceType /\ u.has = r.has /\ u.tok = r.tok /\ u.ref = r.ref /\ u.fresh = r.fresh
          /\ src' = [src EXCEPT ![s] = u] \/ src' = [src EXCEPT ![s] = r]
      BY <2>2, <3>1
    <3> HIDE DEF u
    <3>3. QED
      BY <1>1, <1>3, <2>1, <3>2
  <2>4. /\ post' \in [Calls -> PostType] /\ \A d \in Calls \ {c} : post'[d] = post[d]
        /\ post'[c].pc \in {"send", "done", "grant", "refresh", "person"}
        /\ post'[c].tok \in {0, post[c].tok, r.tok} /\ post'[c].bad \in {0, post[c].bad}
        /\ post'[c].pc = "send" => post'[c].tok = r.tok /\ r.fresh
        /\ post'[c].pc # "done" => post'[c].res = post[c].res
    <3>1. CASE r.fresh /\ H!Carry(c, r.tok)
      <4>1. r.tok \in TokenOrNone
        BY <2>1 DEF SourceType
      <4>2. QED
        BY <1>1, <3>1, <4>1, PostGoes
    <3>2. CASE H!Finish(c, "error")
      BY <1>1, <3>2, PostGoes
    <3>3. ASSUME NEW pc \in {"grant", "refresh", "person"}, H!Goto(c, pc)
          PROVE  /\ post' \in [Calls -> PostType] /\ \A d \in Calls \ {c} : post'[d] = post[d]
                 /\ post'[c].pc \in {"grant", "refresh", "person"}
                 /\ post'[c].tok = post[c].tok /\ post'[c].bad = post[c].bad
                 /\ post'[c].res = post[c].res
      <4>1. pc \in PostLabels
        BY <3>3 DEF PostLabels
      <4>2. QED
        BY <1>1, <3>3, <4>1, PostGoes
    <3>4. QED
      BY <2>2, <3>1, <3>2, <3>3
  <2>5. HttpTypes'
    BY <1>1, <1>2, <2>3, <2>4 DEF HttpTypes
  <2>6. RunAtSend'
    BY <1>2, <2>4 DEF HttpInv, RunAtSend, BeforeRun, RunAlready
  <2>7. Ours'
    <3>1. r.tok <= issued /\ r.ref <= issued
      BY <1>1, <2>1 DEF HttpInv, Ours
    <3>2. post'[c].tok <= issued /\ post'[c].bad <= issued
      BY <1>1, <2>4, <3>1, MCPAssumption DEF HttpInv, Ours, HttpTypes
    <3>3. QED
      BY <1>2, <2>3, <2>4, <3>1, <3>2 DEF HttpInv, Ours
  <2>8. LoadedFirst'
    <3>1. SUFFICES ASSUME NEW d \in Calls, kind = "oauth", post'[d].pc \in Given \/ post'[d].bad # 0
                   PROVE  src'[H!Of(d)].has
      BY <1>2, <1>4 DEF LoadedFirst, H!Of
    <3>2. CASE H!Of(d) = s
      BY <2>1, <2>3, <3>1, <3>2
    <3>3. CASE H!Of(d) # s
      BY <1>1, <2>3, <2>4, <3>1, <3>3 DEF HttpInv, LoadedFirst, s
    <3>4. QED
      BY <3>2, <3>3
  <2>9. Renewed'
    <3>1. SUFFICES ASSUME NEW d \in Calls, kind # "static", post'[d].bad # 0
                   PROVE  /\ src'[H!Of(d)].fresh => src'[H!Of(d)].tok # post'[d].bad
                          /\ post'[d].pc = "send" => post'[d].tok # post'[d].bad
      BY <1>2, <1>4 DEF Renewed, H!Of
    <3>2. post'[d].bad = post[d].bad
      BY <2>4, <3>1
    <3>3. kind = "oauth" => src[H!Of(d)].has
      BY <3>1, <3>2 DEF HttpInv, LoadedFirst
    <3>4. src'[H!Of(d)].tok = src[H!Of(d)].tok /\ src'[H!Of(d)].fresh = src[H!Of(d)].fresh
      BY <1>1, <2>1, <2>3, <3>3
    <3>5. /\ src[H!Of(d)].fresh => src[H!Of(d)].tok # post[d].bad
          /\ post[d].pc = "send" => post[d].tok # post[d].bad
      BY <3>1, <3>2 DEF HttpInv, Renewed
    <3>6. post'[d].pc = "send" => post'[d].tok # post'[d].bad
      <4>1. CASE d = c
        BY <2>3, <2>4, <3>2, <3>4, <3>5, <4>1 DEF s
      <4>2. CASE d # c
        BY <2>4, <3>2, <3>5, <4>2
      <4>3. QED
        BY <4>1, <4>2
    <3>7. QED
      BY <3>2, <3>4, <3>5, <3>6
  <2>10. H!FileKeepsUp'
    <3>1. SUFFICES ASSUME kind = "oauth", shared, cli # "done", src'[1].has,
                          \A d \in Calls : post'[d].res # "error"
                   PROVE  file.ref = src'[1].ref
      BY <1>2 DEF H!FileKeepsUp
    <3>2. s = 1
      BY <3>1 DEF s, H!Of
    <3>3. \A d \in Calls : post[d].res # "error"
      BY <1>2, <2>4, <3>1 DEF HttpInv, RunAtSend
    <3>4. CASE r = src[s]
      BY <2>3, <3>1, <3>2, <3>3, <3>4 DEF HttpInv, H!FileKeepsUp
    <3>5. CASE r.ref = file.ref
      BY <2>3, <3>2, <3>5
    <3>6. QED
      BY <2>1, <3>4, <3>5
  <2>11. Forgotten'
    <3>1. kind = "login" => \A q \in Calls : src'[q].ref = src[q].ref
      BY <2>1, <2>3
    <3>2. QED
      BY <1>2, <3>1 DEF HttpInv, Forgotten
  <2>12. CallbackMine'
    BY <1>2 DEF HttpInv, CallbackMine
  <2>13. QED
    BY <2>5, <2>6, <2>7, <2>8, <2>9, <2>10, <2>11, <2>12 DEF HttpInv
<1>7. QED
  BY <1>5, <1>6

(* The server answers with a token.                                        *)
LEMMA HttpGranted ==
    ASSUME MCPAssumption, HttpInv, NEW c \in Calls, NEW rotates \in BOOLEAN, H!Granted(c, rotates)
    PROVE  HttpInv'
<1> DEFINE s == H!Of(c)  t == issued + 1  r == H!Stored(src[s], t, rotates)
<1>1. HttpTypes /\ s \in Calls /\ \A d \in Calls : H!Of(d) \in Calls
  BY HttpOf DEF HttpInv
<1>2. /\ kind' = kind /\ shared' = shared /\ cli' = cli /\ posted' = posted /\ refused' = refused
      /\ post[c].pc \in {"grant", "person", "refresh"}
      /\ issued < MaxTokens /\ issued' = t /\ live' = live \cup {t}
      /\ good' = IF rotates THEN (good \ {src[s].ref}) \cup {t} ELSE good
      /\ src' = [src EXCEPT ![s] = [r EXCEPT !.mu = 0]]
      /\ \/ H!Carry(c, r.tok) /\ file' = IF kind = "oauth" THEN H!Written(r) ELSE file
         \/ kind = "oauth" /\ file' = file /\ H!Finish(c, "error")
  BY DEF H!Granted, H!Issue, H!None
<1>3. /\ src \in [Calls -> SourceType] /\ src[s] \in SourceType /\ file \in FileType
      /\ post \in [Calls -> PostType] /\ post[c] \in PostType
  <2>1. src \in [Calls -> SourceType] /\ post \in [Calls -> PostType] /\ file \in FileType
    BY <1>1 DEF HttpTypes
  <2> HIDE DEF s
  <2>2. QED
    BY <1>1, <2>1
<1>4. \A d \in Calls : H!Of(d)' = H!Of(d)
  BY <1>2 DEF H!Of
<1>5. /\ t \in TokenOrNone /\ issued \in Nat /\ issued' \in 1..MaxTokens /\ issued' = issued + 1
      /\ live' \subseteq 1..issued' /\ good' \subseteq 1..issued'
  <2>1. issued \in 1..MaxTokens /\ live \subseteq 1..issued /\ good \subseteq 1..issued /\ MaxTokens \in Nat
    BY <1>1, MCPAssumption DEF HttpTypes
  <2>2. t \in 1..MaxTokens /\ 1..issued \subseteq 1..t /\ t \in 1..t
    BY <1>2, <2>1
  <2>3. good' \subseteq good \cup {t}
    BY <1>2
  <2>4. QED
    BY <1>2, <2>1, <2>2, <2>3 DEF TokenOrNone
<1> DEFINE old == src[s].ref
<1>6. /\ r \in SourceType /\ r.has = src[s].has /\ r.tok = t /\ r.fresh
      /\ r.ref = (IF rotates THEN t ELSE old)
      /\ [r EXCEPT !.mu = 0] \in SourceType
      /\ [r EXCEPT !.mu = 0].has = r.has /\ [r EXCEPT !.mu = 0].tok = r.tok
      /\ [r EXCEPT !.mu = 0].ref = r.ref /\ [r EXCEPT !.mu = 0].fresh = r.fresh
  <2>1. r = [src[s] EXCEPT !.tok = t, !.fresh = TRUE, !.ref = IF rotates THEN t ELSE old]
    BY <1>3 DEF H!Stored
  <2> HIDE DEF r, s, t, old
  <2>2. old \in TokenOrNone
    BY <1>3 DEF SourceType, old
  <2>3. r = [[[src[s] EXCEPT !.tok = t] EXCEPT !.fresh = TRUE] EXCEPT !.ref = IF rotates THEN t ELSE old]
    BY <1>3, <2>1
  <2>4. r \in SourceType /\ r.has = src[s].has /\ r.tok = t /\ r.fresh /\ r.ref = (IF rotates THEN t ELSE old)
    BY <1>3, <1>5, <2>2, <2>3 DEF SourceType
  <2>5. QED
    BY <2>4 DEF SourceType
<1> HIDE DEF s, t, r, old
<1>7. /\ src' \in [Calls -> SourceType] /\ \A q \in Calls \ {s} : src'[q] = src[q]
      /\ src'[s].has = src[s].has /\ src'[s].tok = t /\ src'[s].fresh
      /\ src'[s].ref = IF rotates THEN t ELSE old
  <2> DEFINE u == [r EXCEPT !.mu = 0]
  <2>1. /\ u \in SourceType /\ u.has = r.has /\ u.tok = r.tok /\ u.ref = r.ref /\ u.fresh = r.fresh
        /\ src' = [src EXCEPT ![s] = u]
    BY <1>2, <1>6
  <2> HIDE DEF u
  <2>2. src' \in [Calls -> SourceType] /\ src'[s] = u /\ \A q \in Calls \ {s} : src'[q] = src[q]
    BY <1>1, <1>3, <2>1
  <2>3. QED
    BY <1>6, <2>1, <2>2
<1>8. /\ post' \in [Calls -> PostType] /\ \A d \in Calls \ {c} : post'[d] = post[d]
      /\ \/ /\ post'[c].pc = "send" /\ post'[c].tok = t /\ post'[c].bad = post[c].bad
            /\ post'[c].res = post[c].res
         \/ /\ post'[c].pc = "done" /\ post'[c].tok = 0 /\ post'[c].bad = 0
            /\ post'[c].res = "error"
  <2>1. r.tok \in TokenOrNone /\ r.tok = t
    BY <1>5, <1>6
  <2>2. QED
    BY <1>1, <1>2, <2>1, PostGoes
<1>9. /\ file' \in FileType
      /\ \/ file' = file
         \/ file'.tok = t /\ file'.ref = r.ref
      /\ kind = "oauth" => \/ post'[c].pc = "done"
                           \/ file'.ref = r.ref
  <2>1. /\ H!Written(r) \in FileType /\ H!Written(r).tok = t /\ H!Written(r).ref = r.ref
    BY <1>6 DEF H!Written, FileType, SourceType
  <2>2. CASE H!Carry(c, r.tok) /\ file' = IF kind = "oauth" THEN H!Written(r) ELSE file
    BY <1>3, <2>1, <2>2
  <2>3. CASE kind = "oauth" /\ file' = file /\ H!Finish(c, "error")
    BY <1>1, <1>3, <2>3, PostGoes
  <2>4. QED
    BY <1>2, <2>2, <2>3
<1>10. HttpTypes'
  BY <1>1, <1>2, <1>5, <1>7, <1>8, <1>9 DEF HttpTypes
<1>11. RunAtSend'
  <2>1. posted[c] = 0 /\ post[c].res = "none"
    BY <1>2 DEF HttpInv, RunAtSend, BeforeRun
  <2>2. QED
    BY <1>2, <1>8, <2>1 DEF HttpInv, RunAtSend, BeforeRun, RunAlready
<1>12. Ours'
  <2>1. /\ t = issued + 1 /\ issued' = issued + 1 /\ issued \in Nat
        /\ old <= issued /\ old \in Nat
    BY <1>1, <1>3, <1>5, MCPAssumption DEF t, old, HttpInv, Ours, SourceType, TokenOrNone
  <2>2. \A q \in Calls : src[q].tok \in Nat /\ src[q].ref \in Nat
    BY <1>3, MCPAssumption DEF SourceType, TokenOrNone
  <2>3. \A d \in Calls : post[d].tok \in Nat /\ post[d].bad \in Nat
    BY <1>3, MCPAssumption DEF PostType, TokenOrNone
  <2>4. \A q \in Calls : src'[q].tok <= issued' /\ src'[q].ref <= issued'
    BY <1>7, <2>1, <2>2 DEF HttpInv, Ours
  <2>5. \A d \in Calls : post'[d].tok <= issued' /\ post'[d].bad <= issued'
    BY <1>8, <2>1, <2>3 DEF HttpInv, Ours
  <2>6. file'.at = "mine" => file'.tok <= issued' /\ file'.ref <= issued'
    <3>1. r.ref <= issued'
      BY <1>6, <2>1
    <3>2. file.tok \in Nat /\ file.ref \in Nat
      BY <1>3, MCPAssumption DEF FileType, TokenOrNone
    <3>3. QED
      BY <1>9, <2>1, <3>1, <3>2 DEF HttpInv, Ours
  <2>7. QED
    BY <2>4, <2>5, <2>6 DEF Ours
<1>13. LoadedFirst'
  <2>1. SUFFICES ASSUME NEW d \in Calls, kind = "oauth", post'[d].pc \in Given \/ post'[d].bad # 0
                 PROVE  src'[H!Of(d)].has
    BY <1>2, <1>4 DEF LoadedFirst, H!Of
  <2>2. post[d].pc \in Given \/ post[d].bad # 0
    BY <1>2, <1>8, <2>1 DEF Given
  <2>3. src[H!Of(d)].has
    BY <2>1, <2>2 DEF HttpInv, LoadedFirst
  <2>4. QED
    BY <1>1, <1>7, <2>3
<1>14. Renewed'
  <2>1. SUFFICES ASSUME NEW d \in Calls, kind # "static", post'[d].bad # 0
                 PROVE  /\ src'[H!Of(d)].fresh => src'[H!Of(d)].tok # post'[d].bad
                        /\ post'[d].pc = "send" => post'[d].tok # post'[d].bad
    BY <1>2, <1>4 DEF Renewed, H!Of
  <2>2. post'[d].bad = post[d].bad /\ post[d].bad # t
    <3>1. post'[d].bad = post[d].bad
      BY <1>8, <2>1
    <3>2. post[d].bad <= issued /\ post[d].bad \in Nat /\ issued \in Nat
      BY <1>3, <1>5, MCPAssumption DEF HttpInv, Ours, PostType, TokenOrNone
    <3>3. QED
      BY <3>1, <3>2 DEF t
  <2>3. /\ src[H!Of(d)].fresh => src[H!Of(d)].tok # post[d].bad
        /\ post[d].pc = "send" => post[d].tok # post[d].bad
    BY <2>1, <2>2 DEF HttpInv, Renewed
  <2>4. src'[H!Of(d)].fresh => src'[H!Of(d)].tok # post'[d].bad
    BY <1>1, <1>7, <2>2, <2>3
  <2>5. post'[d].pc = "send" => post'[d].tok # post'[d].bad
    BY <1>8, <2>1, <2>2, <2>3
  <2>6. QED
    BY <2>4, <2>5
<1>15. H!FileKeepsUp'
  <2>1. SUFFICES ASSUME kind = "oauth", shared, cli # "done", src'[1].has,
                        \A d \in Calls : post'[d].res # "error"
                 PROVE  file'.ref = src'[1].ref
    BY <1>2 DEF H!FileKeepsUp
  <2>2. s = 1
    BY <2>1 DEF s, H!Of
  <2>3. post'[c].pc # "done"
    BY <1>8, <2>1
  <2>4. QED
    BY <1>6, <1>7, <1>9, <2>1, <2>2, <2>3
<1>16. Forgotten'
  <2>1. SUFFICES ASSUME kind = "login"
                 PROVE  /\ \A x \in 1..(MaxTokens + 1) :
                             /\ refused[x] <= 1
                             /\ refused[x] = 1 => x <= issued' /\ \A q \in Calls : src'[q].ref # x
                        /\ \A q, p \in Calls : q # p /\ src'[q].ref # 0 => src'[q].ref # src'[p].ref
    BY <1>2 DEF Forgotten
  <2>2. /\ \A x \in 1..(MaxTokens + 1) :
             /\ refused[x] <= 1
             /\ refused[x] = 1 => x <= issued /\ \A q \in Calls : src[q].ref # x
        /\ \A q, p \in Calls : q # p /\ src[q].ref # 0 => src[q].ref # src[p].ref
    BY <2>1 DEF HttpInv, Forgotten
  <2>3. t = issued + 1 /\ issued' = issued + 1 /\ issued \in Nat
    BY <1>5 DEF t
  <2>4. \A q \in Calls : src[q].ref \in Nat /\ src[q].ref <= issued /\ src[q].ref # t
    BY <1>3, <2>3, MCPAssumption DEF HttpInv, Ours, SourceType, TokenOrNone
  <2>5. \A q \in Calls : src'[q].ref = src[q].ref \/ (q = s /\ src'[q].ref = t)
    BY <1>7 DEF old
  <2>6. ASSUME NEW x \in 1..(MaxTokens + 1), refused[x] = 1
        PROVE  x <= issued' /\ \A q \in Calls : src'[q].ref # x
    <3>1. x <= issued /\ x # t /\ \A q \in Calls : src[q].ref # x
      BY <2>2, <2>3, <2>6
    <3>2. x <= issued'
      BY <2>3, <3>1, MCPAssumption
    <3>3. \A q \in Calls : src'[q].ref # x
      BY <2>5, <3>1
    <3>4. QED
      BY <3>2, <3>3
  <2>7. ASSUME NEW q \in Calls, NEW p \in Calls, q # p, src'[q].ref # 0
        PROVE  src'[q].ref # src'[p].ref
    BY <2>2, <2>4, <2>5, <2>7
  <2>8. QED
    BY <2>2, <2>6, <2>7
<1>17. CallbackMine'
  BY <1>2 DEF HttpInv, CallbackMine
<1>18. QED
  BY <1>10, <1>11, <1>12, <1>13, <1>14, <1>15, <1>16, <1>17 DEF HttpInv

(* A refresh token is refused.                                             *)
LEMMA HttpRefused ==
    ASSUME MCPAssumption, HttpInv, NEW c \in Calls, H!Refused(c)
    PROVE  HttpInv'
<1> DEFINE s == H!Of(c)  old == src[s].ref
<1>1. HttpTypes /\ s \in Calls /\ \A d \in Calls : H!Of(d) \in Calls
  BY HttpOf DEF HttpInv
<1>2. /\ kind' = kind /\ shared' = shared /\ file' = file /\ cli' = cli /\ posted' = posted
      /\ issued' = issued /\ live' = live /\ good' = good
      /\ refused' = [refused EXCEPT ![old] = @ + 1]
      /\ post[c].pc = "refresh"
      /\ kind = "login" => H!Goto(c, "person")
      /\ kind # "login" => H!Finish(c, "error")
      /\ src' = [src EXCEPT ![s].ref = H!AfterRefusal(s), ![s].mu = IF kind = "login" THEN @ ELSE 0]
  BY DEF H!Refused, H!None
<1>3. /\ src \in [Calls -> SourceType] /\ post \in [Calls -> PostType]
      /\ refused \in [1..(MaxTokens + 1) -> Nat]
  BY <1>1 DEF HttpTypes
<1>4. \A d \in Calls : H!Of(d)' = H!Of(d)
  BY <1>2 DEF H!Of
<1>5. H!AfterRefusal(s) = IF kind = "login" THEN 0 ELSE old
  BY DEF H!AfterRefusal, H!None
<1> HIDE DEF s, old
<1>6. src[s] \in SourceType /\ post[c] \in PostType /\ 0 \in TokenOrNone /\ old = src[s].ref
      /\ old \in TokenOrNone
  BY <1>1, <1>3, MCPAssumption DEF TokenOrNone, SourceType, old
<1>7. /\ src' = [q \in Calls |-> src'[q]] /\ \A q \in Calls \ {s} : src'[q] = src[q]
      /\ src'[s] = [[src[s] EXCEPT !.ref = H!AfterRefusal(s)]
                       EXCEPT !.mu = IF kind = "login" THEN src[s].mu ELSE 0]
  BY <1>1, <1>2, <1>3
<1>8. /\ src'[s] \in SourceType /\ src'[s].has = src[s].has /\ src'[s].tok = src[s].tok
      /\ src'[s].fresh = src[s].fresh
      /\ src'[s].ref = IF kind = "login" THEN 0 ELSE old
  <2>1. CASE kind = "login"
    BY <1>5, <1>6, <1>7, <2>1 DEF SourceType
  <2>2. CASE kind # "login"
    BY <1>5, <1>6, <1>7, <2>2 DEF SourceType
  <2>3. QED
    BY <2>1, <2>2
<1>9. /\ refused' \in [1..(MaxTokens + 1) -> Nat]
      /\ \A x \in 1..(MaxTokens + 1) : refused'[x] = IF x = old THEN refused[x] + 1 ELSE refused[x]
  <2>1. CASE old \in 1..(MaxTokens + 1)
    <3>1. refused[old] + 1 \in Nat
      BY <1>3, <2>1
    <3>2. QED
      BY <1>2, <1>3, <2>1, <3>1
  <2>2. CASE old \notin 1..(MaxTokens + 1)
    <3>1. refused' = refused
      BY <1>2, <1>3, <2>2
    <3>2. QED
      BY <1>3, <2>2, <3>1
  <2>3. QED
    BY <2>1, <2>2
<1>10. CASE kind # "login"
  <2>1. /\ post' \in [Calls -> PostType] /\ \A d \in Calls \ {c} : post'[d] = post[d]
        /\ post'[c].pc = "done" /\ post'[c].tok = 0 /\ post'[c].bad = 0
    BY <1>1, <1>2, <1>10, PostGoes
  <2>2. /\ src' \in [Calls -> SourceType]
        /\ \A q \in Calls : /\ src'[q].has = src[q].has /\ src'[q].tok = src[q].tok
                            /\ src'[q].ref = src[q].ref /\ src'[q].fresh = src[q].fresh
    BY <1>3, <1>6, <1>7, <1>8, <1>10
  <2>3. Idles(c)
    BY <1>2, <1>9, <1>10, <2>1, <2>2 DEF Idles, BeforeRun, RunAlready, Given
  <2>4. QED
    BY <2>3, IdlesKeep
<1>11. CASE kind = "login"
  <2>1. /\ post' \in [Calls -> PostType] /\ \A d \in Calls \ {c} : post'[d] = post[d]
        /\ post'[c].pc = "person" /\ post'[c].tok = post[c].tok /\ post'[c].bad = post[c].bad
        /\ post'[c].res = post[c].res
    BY <1>1, <1>2, <1>11, PostGoes DEF PostLabels
  <2>2. src' \in [Calls -> SourceType]
    BY <1>3, <1>7, <1>8
  <2>3. HttpTypes'
    BY <1>1, <1>2, <1>9, <2>1, <2>2 DEF HttpTypes
  <2>4. RunAtSend'
    BY <1>2, <2>1 DEF HttpInv, RunAtSend, BeforeRun, RunAlready
  <2>5. Ours'
    <3>1. 0 <= issued
      BY <1>1, MCPAssumption DEF HttpTypes
    <3>2. \A q \in Calls : src'[q].tok <= issued /\ src'[q].ref <= issued
      BY <1>7, <1>8, <1>11, <3>1 DEF HttpInv, Ours
    <3>3. \A d \in Calls : post'[d].tok <= issued /\ post'[d].bad <= issued
      BY <2>1 DEF HttpInv, Ours
    <3>4. QED
      BY <1>2, <3>2, <3>3 DEF HttpInv, Ours
  <2>6. LoadedFirst' /\ H!FileKeepsUp'
    BY <1>2, <1>11 DEF LoadedFirst, H!FileKeepsUp
  <2>7. Renewed'
    <3>1. SUFFICES ASSUME NEW d \in Calls, post'[d].bad # 0
                   PROVE  /\ src'[H!Of(d)].fresh => src'[H!Of(d)].tok # post'[d].bad
                          /\ post'[d].pc = "send" => post'[d].tok # post'[d].bad
      BY <1>2, <1>4 DEF Renewed, H!Of
    <3>2. post'[d].bad = post[d].bad
      BY <2>1
    <3>3. /\ src[H!Of(d)].fresh => src[H!Of(d)].tok # post[d].bad
          /\ post[d].pc = "send" => post[d].tok # post[d].bad
      BY <1>11, <3>1, <3>2 DEF HttpInv, Renewed
    <3>4. src'[H!Of(d)].fresh = src[H!Of(d)].fresh /\ src'[H!Of(d)].tok = src[H!Of(d)].tok
      BY <1>1, <1>7, <1>8
    <3>5. QED
      BY <2>1, <3>2, <3>3, <3>4
  <2>8. Forgotten'
    <3>1. /\ \A x \in 1..(MaxTokens + 1) :
               /\ refused[x] <= 1
               /\ refused[x] = 1 => x <= issued /\ \A q \in Calls : src[q].ref # x
          /\ \A q, p \in Calls : q # p /\ src[q].ref # 0 => src[q].ref # src[p].ref
      BY <1>11 DEF HttpInv, Forgotten
    <3>2. \A q \in Calls : IF q = s THEN src'[q].ref = 0 ELSE src'[q].ref = src[q].ref
      BY <1>7, <1>8, <1>11
    <3>3. ASSUME NEW x \in 1..(MaxTokens + 1)
          PROVE  /\ refused'[x] <= 1
                 /\ refused'[x] = 1 => x <= issued /\ \A q \in Calls : src'[q].ref # x
      <4>1. x # 0
        OBVIOUS
      <4>2. CASE x = old
        <5>1. refused[x] = 0 /\ x <= issued
          <6>1. refused[x] # 1 /\ refused[x] \in Nat /\ refused[x] <= 1
            BY <1>1, <1>3, <1>6, <3>1, <4>2
          <6>2. x <= issued
            BY <1>1, <1>6, <4>2 DEF HttpInv, Ours
          <6>3. QED
            BY <6>1, <6>2
        <5>2. \A q \in Calls : q # s => src[q].ref # x
          BY <1>1, <1>6, <3>1, <4>1, <4>2
        <5>3. QED
          BY <1>9, <3>2, <4>1, <4>2, <5>1, <5>2
      <4>3. CASE x # old
        BY <1>9, <3>1, <3>2, <4>1, <4>3
      <4>4. QED
        BY <4>2, <4>3
    <3>4. ASSUME NEW q \in Calls, NEW p \in Calls, q # p, src'[q].ref # 0
          PROVE  src'[q].ref # src'[p].ref
      BY <3>1, <3>2, <3>4
    <3>5. QED
      BY <1>2, <3>3, <3>4 DEF Forgotten
  <2>9. CallbackMine'
    BY <1>2 DEF HttpInv, CallbackMine
  <2>10. QED
    BY <2>3, <2>4, <2>5, <2>6, <2>7, <2>8, <2>9 DEF HttpInv
<1>12. QED
  BY <1>10, <1>11

(* What happens beside the calls: a login or logout, an expiry, a token    *)
(* that is withdrawn.                                                      *)
Aside ==
    /\ kind' = kind /\ shared' = shared /\ post' = post /\ posted' = posted /\ refused' = refused
    /\ issued <= issued' /\ issued' \in 1..MaxTokens /\ live' \subseteq 1..issued' /\ good' \subseteq 1..issued'
    /\ src' \in [Calls -> SourceType]
    /\ \A s \in Calls : /\ src'[s].has = src[s].has /\ src'[s].tok = src[s].tok
                        /\ src'[s].ref = src[s].ref /\ (src'[s].fresh => src[s].fresh)
    /\ file' \in FileType
    /\ file'.at = "mine" => file'.tok <= issued' /\ file'.ref <= issued'
    /\ cli' \notin {"strange", "wrong"}
    /\ cli' = "done" \/ (cli # "done" /\ file'.ref = file.ref)

LEMMA AsideKeeps == ASSUME MCPAssumption, HttpInv, Aside PROVE HttpInv'
<1>1. HttpTypes /\ (\A d \in Calls : H!Of(d)' = H!Of(d) /\ H!Of(d) \in Calls) /\ issued \in Nat /\ issued' \in Nat
  BY HttpOf, MCPAssumption DEF HttpInv, HttpTypes, Aside, H!Of
<1>2. HttpTypes'
  BY <1>1 DEF Aside, HttpTypes
<1>3. RunAtSend'
  BY DEF Aside, HttpInv, RunAtSend
<1>4. Ours'
  <2>1. /\ \A s \in Calls : src[s].tok \in Nat /\ src[s].ref \in Nat
        /\ \A c \in Calls : post[c].tok \in Nat /\ post[c].bad \in Nat
    <3>1. \A s \in Calls : src[s] \in SourceType /\ post[s] \in PostType
      BY <1>1 DEF HttpTypes
    <3>2. \A r \in SourceType : r.tok \in Nat /\ r.ref \in Nat
      BY DEF SourceType, TokenOrNone
    <3>3. \A r \in PostType : r.tok \in Nat /\ r.bad \in Nat
      BY DEF PostType, TokenOrNone
    <3>4. QED
      BY <3>1, <3>2, <3>3
  <2>2. \A s \in Calls : src'[s].tok <= issued' /\ src'[s].ref <= issued'
    BY <1>1, <2>1 DEF Aside, HttpInv, Ours
  <2>3. \A c \in Calls : post[c].tok <= issued' /\ post[c].bad <= issued'
    BY <1>1, <2>1 DEF Aside, HttpInv, Ours
  <2>4. QED
    BY <2>2, <2>3 DEF Aside, Ours
<1>5. LoadedFirst'
  <2>1. SUFFICES ASSUME NEW d \in Calls, kind = "oauth", post[d].pc \in Given \/ post[d].bad # 0
                 PROVE  src'[H!Of(d)].has
    BY <1>1 DEF Aside, LoadedFirst, H!Of
  <2>2. QED
    BY <1>1, <2>1 DEF Aside, HttpInv, LoadedFirst
<1>6. Renewed'
  <2>1. SUFFICES ASSUME NEW d \in Calls, kind # "static", post[d].bad # 0
                 PROVE  /\ src'[H!Of(d)].fresh => src'[H!Of(d)].tok # post[d].bad
                        /\ post[d].pc = "send" => post[d].tok # post[d].bad
    BY <1>1 DEF Aside, Renewed, H!Of
  <2>2. /\ src[H!Of(d)].fresh => src[H!Of(d)].tok # post[d].bad
        /\ post[d].pc = "send" => post[d].tok # post[d].bad
    BY <2>1 DEF HttpInv, Renewed
  <2>3. src'[H!Of(d)].tok = src[H!Of(d)].tok /\ (src'[H!Of(d)].fresh => src[H!Of(d)].fresh)
    BY <1>1 DEF Aside
  <2>4. QED
    BY <2>2, <2>3
<1>7. H!FileKeepsUp'
  <2>1. 1 \in Calls
    BY MCPAssumption
  <2>2. QED
    BY <2>1 DEF Aside, HttpInv, H!FileKeepsUp
<1>8. Forgotten'
  <2>1. SUFFICES ASSUME kind = "login"
                 PROVE  /\ \A x \in 1..(MaxTokens + 1) :
                             /\ refused[x] <= 1
                             /\ refused[x] = 1 => x <= issued' /\ \A q \in Calls : src'[q].ref # x
                        /\ \A q, p \in Calls : q # p /\ src'[q].ref # 0 => src'[q].ref # src'[p].ref
    BY DEF Aside, Forgotten
  <2>2. \A q \in Calls : src'[q].ref = src[q].ref
    BY DEF Aside
  <2>3. /\ \A x \in 1..(MaxTokens + 1) :
             /\ refused[x] <= 1
             /\ refused[x] = 1 => x <= issued /\ \A q \in Calls : src[q].ref # x
        /\ \A q, p \in Calls : q # p /\ src[q].ref # 0 => src[q].ref # src[p].ref
    BY <2>1 DEF HttpInv, Forgotten
  <2>4. \A x \in 1..(MaxTokens + 1) : x <= issued => x <= issued'
    BY <1>1, MCPAssumption DEF Aside
  <2>5. QED
    BY <2>2, <2>3, <2>4
<1>9. CallbackMine'
  BY DEF Aside, CallbackMine
<1>10. QED
  BY <1>2, <1>3, <1>4, <1>5, <1>6, <1>7, <1>8, <1>9 DEF HttpInv

LEMMA HttpAside ==
    ASSUME MCPAssumption, HttpInv,
           \/ H!LoginStarts \/ H!Callback \/ H!LoginEnds \/ H!Logout
           \/ \E t : H!Expire(t) \/ H!Revoke(t)
           \/ UNCHANGED H!vars
    PROVE  HttpInv'
<1>1. /\ HttpTypes /\ issued \in Nat /\ issued \in 1..MaxTokens /\ live \subseteq 1..issued
      /\ good \subseteq 1..issued /\ MaxTokens \in Nat
      /\ src \in [Calls -> SourceType] /\ file \in FileType /\ 0 \in TokenOrNone
      /\ (file.at = "mine" => file.tok <= issued /\ file.ref <= issued)
      /\ cli \notin {"strange", "wrong"}
  BY MCPAssumption DEF HttpInv, HttpTypes, Ours, CallbackMine, TokenOrNone
<1>2. CASE UNCHANGED H!vars
  BY <1>1, <1>2 DEF Aside, AsideKeeps, H!vars, HttpInv, HttpTypes, RunAtSend, Ours, LoadedFirst, Renewed,
     H!FileKeepsUp, Forgotten, CallbackMine, H!Of
<1>3. ASSUME UNCHANGED <<kind, shared, file, src, post, issued, live, good, refused, posted>>,
             cli # "done", cli' \notin {"strange", "wrong"}
      PROVE  Aside
  BY <1>1, <1>3 DEF Aside
<1>4. CASE H!LoginStarts
  BY <1>3, <1>4, AsideKeeps DEF H!LoginStarts, H!servers
<1>5. CASE H!Callback
  <2>1. cli' \notin {"strange", "wrong"}
    BY <1>5 DEF H!Callback, H!Outcome
  <2>2. QED
    BY <1>3, <1>5, <2>1, AsideKeeps DEF H!Callback, H!servers
<1>6. CASE H!LoginEnds
  <2>1. CASE cli' = "failed" /\ UNCHANGED <<issued, live, good, refused, file>>
    BY <1>3, <1>6, <2>1, AsideKeeps DEF H!LoginEnds
  <2>2. CASE /\ H!Issue(issued + 1, H!None, TRUE)
             /\ file' = H!Saved("mine", issued + 1)
             /\ cli' = IF cli = "strange" THEN "wrong" ELSE "done"
    <3>1. /\ issued' = issued + 1 /\ issued < MaxTokens /\ live' = live \cup {issued + 1}
          /\ good' \subseteq good \cup {issued + 1} /\ refused' = refused
      BY <2>2 DEF H!Issue
    <3>2. issued' \in 1..MaxTokens /\ 1..issued \subseteq 1..issued' /\ issued' \in 1..issued'
          /\ issued' \in TokenOrNone /\ issued <= issued'
      BY <1>1, <3>1 DEF TokenOrNone
    <3>3. file' \in FileType /\ file'.tok = issued' /\ file'.ref = issued'
      BY <2>2, <3>1, <3>2 DEF H!Saved, FileType
    <3>4. Aside
      BY <1>1, <1>6, <2>2, <3>1, <3>2, <3>3 DEF Aside, H!LoginEnds
    <3>5. QED
      BY <3>4, AsideKeeps
  <2>3. QED
    BY <1>6, <2>1, <2>2 DEF H!LoginEnds
<1>7. CASE H!Logout
  <2>1. file' \in FileType /\ file'.at = "none"
    BY <1>1, <1>7 DEF H!Logout, H!NoGrant, H!None, FileType
  <2>2. Aside
    BY <1>1, <1>7, <2>1 DEF Aside, H!Logout, H!servers
  <2>3. QED
    BY <2>2, AsideKeeps
<1>8. ASSUME NEW t, H!Expire(t) PROVE HttpInv'
  <2>1. /\ UNCHANGED <<kind, shared, post, cli, issued, live, good, refused, posted>>
        /\ src' = [s \in Calls |-> [src[s] EXCEPT !.fresh = @ /\ src[s].tok # t]]
        /\ file' = [file EXCEPT !.fresh = @ /\ file.tok # t]
    BY <1>8 DEF H!Expire, H!servers
  <2>2. ASSUME NEW s \in Calls
        PROVE  /\ src'[s] \in SourceType /\ src'[s].has = src[s].has /\ src'[s].tok = src[s].tok
               /\ src'[s].ref = src[s].ref /\ (src'[s].fresh => src[s].fresh)
    <3>1. src'[s] = [src[s] EXCEPT !.fresh = src[s].fresh /\ src[s].tok # t] /\ src[s] \in SourceType
      BY <1>1, <2>1
    <3>2. QED
      BY <3>1 DEF SourceType
  <2>3. src' \in [Calls -> SourceType]
    BY <2>1, <2>2
  <2>4. file' \in FileType /\ file'.at = file.at /\ file'.tok = file.tok /\ file'.ref = file.ref
    BY <1>1, <2>1 DEF FileType
  <2>5. Aside
    <3>1. UNCHANGED <<kind, shared, post, cli, issued, live, good, refused, posted>>
      BY <2>1
    <3>2. QED
      BY <1>1, <2>2, <2>3, <2>4, <3>1 DEF Aside
  <2>6. QED
    BY <2>5, AsideKeeps
<1>9. ASSUME NEW t, H!Revoke(t) PROVE HttpInv'
  <2>1. Aside
    BY <1>1, <1>9 DEF Aside, H!Revoke
  <2>2. QED
    BY <2>1, AsideKeeps
<1>10. QED
  BY <1>2, <1>4, <1>5, <1>6, <1>7, <1>8, <1>9

LEMMA HttpStep == ASSUME MCPAssumption, HttpInv, [H!Next]_(H!vars) PROVE HttpInv'
<1>1. ASSUME NEW c \in Calls, H!Call(c) \/ H!Steps(c) PROVE HttpInv'
  BY <1>1, HttpIdles, HttpRuns, HttpAgain, HttpToken, HttpGranted, HttpRefused DEF H!Steps
<1>2. CASE \/ H!LoginStarts \/ H!Callback \/ H!LoginEnds \/ H!Logout
           \/ \E t \in H!Tokens : H!Expire(t) \/ H!Revoke(t)
           \/ UNCHANGED H!vars
  BY <1>2, HttpAside
<1>3. QED
  BY <1>1, <1>2 DEF H!Next

(* What the invariant says of the properties of MCPHttp.                   *)
LEMMA HttpKept ==
    ASSUME MCPAssumption, HttpInv
    PROVE  /\ H!TokenIsTheServers /\ H!RunsOnce /\ H!RetryIsFresh /\ H!FileKeepsUp
           /\ H!DeadRefreshOnce /\ H!LoginIsMine
<1>1. H!TokenIsTheServers
  <2>1. issued <= MaxTokens /\ issued \in Nat /\ MaxTokens \in Nat
    BY MCPAssumption DEF HttpInv, HttpTypes
  <2>2. \A c \in Calls : post[c].tok \in Nat /\ post[c].tok <= issued
    BY MCPAssumption DEF HttpInv, HttpTypes, Ours, PostType, TokenOrNone
  <2>3. QED
    BY <2>1, <2>2 DEF H!TokenIsTheServers, H!Foreign
<1>2. H!RunsOnce
  BY DEF HttpInv, HttpTypes, H!RunsOnce
<1>3. H!RetryIsFresh
  BY DEF HttpInv, Renewed, H!RetryIsFresh, H!None
<1>4. H!DeadRefreshOnce
  BY DEF HttpInv, Forgotten, H!DeadRefreshOnce, H!Tokens, H!Foreign
<1>5. H!FileKeepsUp /\ H!LoginIsMine
  BY DEF HttpInv, CallbackMine, H!LoginIsMine
<1>6. QED
  BY <1>1, <1>2, <1>3, <1>4, <1>5

(***************************************************************************)
(* The HTTP transport keeps the promise of every transport                 *)
(***************************************************************************)

LEMMA HttpSeen ==
    ASSUME NEW c \in Calls, \A d \in Calls \ {c} : post'[d] = post[d], posted' = posted,
           post[c].pc \notin {"idle", "done"},
           \/ post'[c].pc \notin {"idle", "done"} /\ post'[c].res = post[c].res
           \/ post'[c].pc = "done" /\ post'[c].res = "error"
           \/ post'[c].pc = "done" /\ post'[c].res = "own" /\ posted[c] > 0
    PROVE  [H!T!Next]_(H!T!vars)
<1>1. CASE post'[c].pc \notin {"idle", "done"} /\ post'[c].res = post[c].res
  <2>1. \A d \in Calls : post'[d].res = post[d].res
    BY <1>1
  <2>2. \A d \in Calls : (IF post'[d].pc \in {"idle", "done"} THEN post'[d].pc ELSE "running")
                           = (IF post[d].pc \in {"idle", "done"} THEN post[d].pc ELSE "running")
    BY <1>1
  <2>3. H!Phases' = H!Phases /\ H!Results' = H!Results
    BY <2>1, <2>2 DEF H!Phases, H!Results
  <2>4. QED
    BY <2>3 DEF H!T!vars
<1>2. CASE post'[c].pc = "done" /\ \/ post'[c].res = "error"
                                   \/ post'[c].res = "own" /\ posted[c] > 0
  <2>1. H!Phases[c] = "running" /\ H!Phases' = [H!Phases EXCEPT ![c] = "done"]
    BY <1>2 DEF H!Phases
  <2>2. H!Results' = [H!Results EXCEPT ![c] = post'[c].res]
    BY DEF H!Results
  <2>3. H!T!Return(c)
    BY <1>2, <2>1, <2>2 DEF H!T!Return
  <2>4. QED
    BY <2>3 DEF H!T!Next
<1>3. QED
  BY <1>1, <1>2

LEMMA HttpTransportInit == H!Init => H!T!Init
<1>1. ASSUME H!Init PROVE \A c \in Calls : post[c].pc = "idle" /\ post[c].res = "none"
  BY <1>1 DEF H!Init
<1>2. ASSUME H!Init
      PROVE  H!Phases = [c \in Calls |-> "idle"] /\ H!Results = [c \in Calls |-> "none"]
  BY <1>1, <1>2 DEF H!Phases, H!Results
<1>3. QED
  BY <1>2 DEF H!Init, H!T!Init

LEMMA HttpTransport ==
    ASSUME MCPAssumption, HttpInv, [H!Next]_(H!vars)
    PROVE  [H!T!Next]_(H!T!vars)
<1>1. HttpTypes /\ post \in [Calls -> PostType]
  BY DEF HttpInv, HttpTypes
<1>2. ASSUME post' = post, posted' = posted PROVE UNCHANGED H!T!vars
  BY <1>2 DEF H!T!vars, H!Phases, H!Results
<1>3. CASE \/ H!LoginStarts \/ H!Callback \/ H!LoginEnds \/ H!Logout
           \/ \E t \in H!Tokens : H!Expire(t) \/ H!Revoke(t)
           \/ UNCHANGED H!vars
  <2>1. post' = post /\ posted' = posted
    BY <1>3 DEF H!LoginStarts, H!Callback, H!LoginEnds, H!Logout, H!Expire, H!Revoke, H!vars
  <2>2. QED
    BY <1>2, <2>1
<1>4. ASSUME NEW c \in Calls, H!Call(c) PROVE [H!T!Next]_(H!T!vars)
  <2>1. post[c].pc = "idle" /\ H!Goto(c, "auth") /\ posted' = posted
    BY <1>4 DEF H!Call
  <2>2. /\ \A d \in Calls \ {c} : post'[d] = post[d]
        /\ post'[c].pc = "auth" /\ post'[c].res = post[c].res
    BY <1>1, <2>1, PostGoes, MCPAssumption DEF PostLabels
  <2>3. H!Phases[c] = "idle" /\ H!Phases' = [H!Phases EXCEPT ![c] = "running"]
    BY <2>1, <2>2 DEF H!Phases
  <2>4. H!Results' = H!Results
    BY <2>2 DEF H!Results
  <2>5. H!T!CallTool(c)
    BY <2>1, <2>3, <2>4 DEF H!T!CallTool
  <2>6. QED
    BY <2>5 DEF H!T!Next
<1>5. ASSUME NEW c \in Calls, H!Runs(c) PROVE [H!T!Next]_(H!T!vars)
  <2>1. post[c].pc = "send" /\ H!Goto(c, "sent") /\ posted' = [posted EXCEPT ![c] = @ + 1]
    BY <1>5 DEF H!Runs
  <2>2. /\ \A d \in Calls \ {c} : post'[d] = post[d]
        /\ post'[c].pc = "sent" /\ post'[c].res = post[c].res
    BY <1>1, <2>1, PostGoes, MCPAssumption DEF PostLabels
  <2>3. H!Phases[c] # "idle" /\ H!Phases' = H!Phases
    <3>1. \A d \in Calls : (IF post'[d].pc \in {"idle", "done"} THEN post'[d].pc ELSE "running")
                             = (IF post[d].pc \in {"idle", "done"} THEN post[d].pc ELSE "running")
      BY <2>1, <2>2
    <3>2. QED
      BY <2>1, <3>1 DEF H!Phases
  <2>4. H!Results' = H!Results
    BY <2>2 DEF H!Results
  <2>5. posted[c] < 2
    BY <1>1 DEF HttpTypes
  <2>6. H!T!Run(c)
    BY <2>1, <2>3, <2>4, <2>5 DEF H!T!Run
  <2>7. QED
    BY <2>6 DEF H!T!Next
<1>6. ASSUME NEW c \in Calls, H!Steps(c), ~H!Runs(c) PROVE [H!T!Next]_(H!T!vars)
  <2>1. posted' = posted /\ post[c].pc \notin {"idle", "done"}
    BY <1>6 DEF H!Steps, H!Apply, H!Token, H!Refused, H!RefreshLost, H!LoginFails, H!Answer,
       H!Unauthorized, H!Unsent, H!Again, H!Status, H!Granted, H!Resend
  <2>2. \/ \E pc \in PostLabels \ {"idle", "done"} : H!Goto(c, pc)
        \/ \E t : H!Carry(c, t)
        \/ H!Finish(c, "error")
        \/ H!Finish(c, "own") /\ post[c].pc = "sent"
        \/ post' = [post EXCEPT ![c].pc = "auth", ![c].try = 2, ![c].bad = post[c].tok]
    <3>1. CASE H!Apply(c)
      BY <3>1 DEF H!Apply, PostLabels
    <3>2. CASE H!Token(c)
      <4>1. \/ \E t : H!Carry(c, t)
            \/ H!Finish(c, "error")
            \/ \E pc \in {"grant", "refresh", "person"} : H!Goto(c, pc)
        BY <3>2 DEF H!Token, H!Wanted
      <4>2. QED
        BY <4>1 DEF PostLabels
    <3>3. CASE H!Refused(c) \/ H!RefreshLost(c) \/ H!LoginFails(c)
      BY <3>3 DEF H!Refused, H!RefreshLost, H!LoginFails, PostLabels
    <3>4. CASE H!Answer(c)
      BY <3>4, StreamsOwn, MCPAssumption DEF H!Answer, PostLabels
    <3>5. CASE H!Unauthorized(c) \/ H!Unsent(c) \/ H!Status(c) \/ H!Again(c)
      BY <3>5 DEF H!Unauthorized, H!Unsent, H!Status, H!Again, PostLabels
    <3>6. ASSUME NEW rotates \in BOOLEAN, H!Granted(c, rotates)
          PROVE  \/ \E t : H!Carry(c, t)
                 \/ H!Finish(c, "error")
      BY <3>6 DEF H!Granted
    <3>7. QED
      BY <1>6, <3>1, <3>2, <3>3, <3>4, <3>5, <3>6 DEF H!Steps
  <2>3. /\ \A d \in Calls \ {c} : post'[d] = post[d]
        /\ \/ post'[c].pc \notin {"idle", "done"} /\ post'[c].res = post[c].res
           \/ post'[c].pc = "done" /\ post'[c].res = "error"
           \/ post'[c].pc = "done" /\ post'[c].res = "own" /\ post[c].pc = "sent"
    <3>1. post[c] \in PostType
      BY <1>1
    <3>2. ASSUME NEW pc \in PostLabels \ {"idle", "done"}, H!Goto(c, pc)
          PROVE  /\ \A d \in Calls \ {c} : post'[d] = post[d]
                 /\ post'[c].pc \notin {"idle", "done"} /\ post'[c].res = post[c].res
      BY <1>1, <3>2, PostGoes, MCPAssumption
    <3>3. ASSUME NEW t, H!Carry(c, t)
          PROVE  /\ \A d \in Calls \ {c} : post'[d] = post[d]
                 /\ post'[c].pc \notin {"idle", "done"} /\ post'[c].res = post[c].res
      <4>1. /\ \A d \in Calls \ {c} : post'[d] = post[d]
            /\ post'[c] = [[post[c] EXCEPT !.pc = "send"] EXCEPT !.tok = t]
        BY <1>1, <3>3, PostShapes
      <4>2. QED
        BY <3>1, <4>1 DEF PostType
    <3>4. ASSUME NEW r \in {"own", "error"}, H!Finish(c, r)
          PROVE  /\ \A d \in Calls \ {c} : post'[d] = post[d]
                 /\ post'[c].pc = "done" /\ post'[c].res = r
      BY <1>1, <3>4, PostGoes, MCPAssumption
    <3>5. CASE post' = [post EXCEPT ![c].pc = "auth", ![c].try = 2, ![c].bad = post[c].tok]
      <4>1. /\ \A d \in Calls \ {c} : post'[d] = post[d]
            /\ post'[c] = [[[post[c] EXCEPT !.pc = "auth"] EXCEPT !.try = 2] EXCEPT !.bad = post[c].tok]
        BY <1>1, <3>5
      <4>2. post'[c].pc = "auth" /\ post'[c].res = post[c].res
        BY <3>1, <4>1 DEF PostType
      <4>3. QED
        BY <4>1, <4>2
    <3>6. QED
      BY <2>2, <3>2, <3>3, <3>4, <3>5
  <2>4. post[c].pc = "sent" => posted[c] > 0
    <3>1. RunAtSend
      BY DEF HttpInv
    <3>2. post[c].pc = "sent" => posted[c] = 1
      BY <3>1 DEF RunAtSend, RunAlready
    <3>3. QED
      BY <3>2
  <2>5. QED
    BY <2>1, <2>3, <2>4, HttpSeen
<1>7. QED
  BY <1>3, <1>4, <1>5, <1>6 DEF H!Next

(***************************************************************************)
(* The run as a whole: a step is one of each part, or leaves it alone      *)
(***************************************************************************)

MCInv == StdioInv /\ HttpInv /\ GrantInv

LEMMA PartsStart == MCInit => Init /\ H!Init /\ G!Init
BY DEF MCInit, NoStdio, NoHttp, NoGrants

LEMMA PartsStep ==
    ASSUME [MCNext]_all
    PROVE  [Next]_vars /\ [H!Next]_(H!vars) /\ [G!Next]_(G!vars)
BY DEF MCNext, all, httpVars, grantVars, H!vars, G!vars

LEMMA MCInvInit == MCInit => MCInv
BY MCPAssumption, PartsStart, StdioInit, HttpInit, GrantInit DEF MCInv

LEMMA MCInvStep == ASSUME MCInv, [MCNext]_all PROVE MCInv'
BY MCPAssumption, PartsStep, StdioStep, HttpStep, GrantStep DEF MCInv

(* A stdio server: only the process in use runs and a process has one call *)
(* between its request and its answer (reconnectingClient, client.call).   *)
(* Over HTTP: tokens, resends, the saved grant and the login               *)
(* (httpTransport.call, tokenSource, oauthLogin).  The locks of the        *)
(* approvals are held only by a call that is inside (permstore).  For any  *)
(* number of calls, processes, tokens, cancellations and crashes.          *)
THEOREM ServersKeptHolds == MCSpec => []ServersKept
<1>1. MCInv => ServersKept
  <2>1. ASSUME MCInv PROVE OneProcess /\ OneExchange
    BY <2>1, StdioOneProcess, StdioOneExchange DEF MCInv
  <2>2. ASSUME MCInv
        PROVE  /\ H!TokenIsTheServers /\ H!RunsOnce /\ H!RetryIsFresh /\ H!FileKeepsUp
               /\ H!DeadRefreshOnce /\ H!LoginIsMine
    BY <2>2, MCPAssumption, HttpKept DEF MCInv
  <2>3. ASSUME MCInv PROVE G!LocksHeld
    BY <2>3 DEF MCInv, GrantInv
  <2>4. QED
    BY <2>1, <2>2, <2>3 DEF ServersKept
<1>2. QED
  BY <1>1, MCInvInit, MCInvStep, PTL DEF MCSpec

(* Both transports implement ToolTransport, step by step: a call ends      *)
(* once, with its own answer only after the server ran it, and runs twice  *)
(* at most (callTool of reconnectingClient and of httpTransport).          *)
THEOREM TransportsHold == MCSpec => Transports
<1>1. MCInit => T!Init /\ H!T!Init
  BY PartsStart, StdioTransportInit, HttpTransportInit
<1>2. MCInv /\ [MCNext]_all => [T!Next]_(T!vars) /\ [H!T!Next]_(H!T!vars)
  BY MCPAssumption, PartsStep, StdioTransport, HttpTransport DEF MCInv
<1>3. QED
  BY <1>1, <1>2, MCInvInit, MCInvStep, PTL
     DEF MCSpec, Transports, TransportSpec, T!Spec, H!TransportSpec, H!T!Spec

(* However processes interleave and die between the locks, a change of the *)
(* approvals changes the decision on its own key only (permstore's         *)
(* withFileLock around load and save).                                     *)
THEOREM RulesKeptHolds == MCSpec => RulesKept
<1>1. MCInv /\ [MCNext]_all => GrantInv /\ [G!Next]_(G!vars)
  BY PartsStep DEF MCInv
<1> DEFINE Kept ==
      \A k \in Keys :
          (k \in DOMAIN rules \cup DOMAIN rules'
           /\ ~(k \in DOMAIN rules \cap DOMAIN rules' /\ rules[k] = rules'[k])) =>
              \E c \in Callers : op[c].pc = "save" /\ op[c].what.on = k
<1>2. GrantInv /\ [G!Next]_(G!vars) => [Kept]_(G!vars)
  <2>1. SUFFICES ASSUME GrantInv, G!Next, NEW k \in Keys, k \in DOMAIN rules \cup DOMAIN rules',
                        ~(k \in DOMAIN rules \cap DOMAIN rules' /\ rules[k] = rules'[k])
                 PROVE  \E c \in Callers : op[c].pc = "save" /\ op[c].what.on = k
    OBVIOUS
  <2>2. rules' # rules
    BY <2>1
  <2>3. PICK c \in Callers : G!Save(c)
    BY <2>1, <2>2 DEF G!Next, G!Steps, G!Start, G!Mutex, G!Lock, G!Load, G!List, G!WriteTrusted, G!Crash
  <2>4. op[c].pc = "save" /\ rules' = G!Changed(op[c].what, rules)
    BY <2>1, <2>2, <2>3 DEF G!Save, GrantInv
  <2>5. k = op[c].what.on
    BY <2>1, <2>4, OnlyThatKey
  <2>6. QED
    BY <2>4, <2>5
<1>3. QED
  BY <1>1, <1>2, MCInvInit, MCInvStep, PTL DEF MCSpec, RulesKept, G!RulesKept

=============================================================================
