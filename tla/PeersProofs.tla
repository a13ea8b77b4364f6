---------------------------- MODULE PeersProofs ----------------------------
(***************************************************************************)
(* A peer works for a call with no more rights than the host of the call   *)
(* has, and the text a call returns is its own prompt's, whole: for any    *)
(* callers, agents, hosts and any number of processes, calls and chunks.   *)
(*                                                                         *)
(* The rights are in the key, and a slot that a call holds has the call's  *)
(* key (Placed).  The text is the harder part.  What is in a peer's pipe   *)
(* belongs to the holder (Owned), a reply is the last thing in it and      *)
(* counts the chunks before it (Shaped), and a slot changes hands only     *)
(* when nothing is left in its pipe (Quiet): a call whose peer may still   *)
(* write drops it (Drops).                                                 *)
(*                                                                         *)
(* Below: mow as the agent of an editor, for any editors, sessions and     *)
(* number of requests.  What a run has taken belongs to a request that     *)
(* goes on (Taken), a prompt that is alone has the token callback to       *)
(* itself (ByItself), and until a session is closed a running prompt has   *)
(* its cancel (Reached).                                                   *)
(***************************************************************************)
EXTENDS ACPMC, SequenceTheorems, TLAPS

AllRights == {"own", "write", "shell"}
Hosts     == [write : BOOLEAN, shell : BOOLEAN]
Somebody  == Callers \cup {0}
Message   == {"chunk", "ask", "result", "error"} \X Callers
KeyType   == {NoSlot.key} \cup {Key(a, h) : a \in Agents, h \in Hosts}

SlotType ==
    [key : KeyType, rights : SUBSET AllRights, st : {"unused", "starting", "up", "gone"},
     holder : Somebody, proc : {"none", "run", "exited"}, open : BOOLEAN, failed : BOOLEAN,
     pipe : Seq(Message), work : Somebody, sent : Nat,
     waits : BOOLEAN, text : Seq(Callers), pending : {"none", "open", "result", "error"}]

Labels == {"idle", "get", "waiting", "spawn", "lock", "held", "asking", "grace", "ending"}
CallType ==
    [pc : Labels, key : KeyType, rights : SUBSET AllRights, slot : 0 .. MaxSpawns,
     host : SUBSET AllRights, ctx : {"live", "over"}, result : {"none", "reply", "error"},
     got : Seq(Callers), whole : Nat]

TypeOK ==
    /\ slot \in [Slots -> SlotType]
    /\ call \in [Callers -> CallType]
    /\ spawned \in 0 .. MaxSpawns
    /\ pool \subseteq 1 .. spawned

-----------------------------------------------------------------------------
(* What holds of a slot                                                    *)

Lives(r) == r.open /\ ~r.failed /\ r.proc = "run"
Quiet(r) == r.pipe = <<>> /\ r.work = 0
Empty(r) == Quiet(r) /\ r.text = <<>> /\ r.sent = 0 /\ r.holder = 0 /\ ~r.waits /\ r.pending = "none"

\* Nobody's text is in the pipe but the holder's.
Owned(r) ==
    /\ \A i \in 1 .. Len(r.pipe) : r.pipe[i][2] = r.holder
    /\ \A i \in 1 .. Len(r.text) : r.text[i] = r.holder
    /\ r.work \in {0, r.holder}
    /\ r.holder = 0 => Quiet(r)

Final(r) == r.pipe[Len(r.pipe)][1]

\* Chunks, and then at most one reply or request; every chunk is counted.
Shaped(r) ==
    /\ \A i \in 1 .. Len(r.pipe) : i < Len(r.pipe) => r.pipe[i][1] = "chunk"
    /\ r.pipe # <<>> /\ Final(r) = "ask" =>
          Len(r.pipe) = 1 /\ r.sent = 0 /\ Len(r.text) = 0 /\ (r.waits \/ r.work = 0)
    /\ r.pipe # <<>> /\ Final(r) \in {"result", "error"} =>
          r.work = 0 /\ Len(r.text) + Len(r.pipe) = r.sent + 1
    /\ r.pipe = <<>> \/ Final(r) = "chunk" => Len(r.text) + Len(r.pipe) = r.sent
    /\ r.waits => r.pipe # <<>> /\ Final(r) = "ask"

\* A reply that was read leaves nothing to come.
Settled(r) ==
    /\ r.pending = "result" => Quiet(r)
    /\ r.pending = "error" => ~Lives(r) \/ Quiet(r)

Good(r) ==
    /\ r.rights = r.key.rights
    /\ Owned(r) /\ Shaped(r) /\ Settled(r)
    /\ r.st # "up" => Empty(r) /\ ~r.open /\ r.proc = "none"

(* What holds of a call                                                    *)

Holding == {"held", "asking", "grace", "ending"}
Placed(c) == call[c].pc \notin {"idle", "get"}

CallGood(c) ==
    /\ call[c].pc # "idle" => call[c].key.rights = call[c].rights /\ call[c].rights \subseteq call[c].host
    /\ Placed(c) => call[c].slot \in 1 .. spawned /\ slot[call[c].slot].key = call[c].key
    /\ call[c].pc = "spawn" => slot[call[c].slot].st = "starting"
    /\ call[c].pc \in Holding \cup {"lock"} => slot[call[c].slot].st = "up"
    /\ call[c].pc \in Holding => slot[call[c].slot].holder = c
    /\ call[c].pc = "held" => Quiet(slot[call[c].slot]) /\ slot[call[c].slot].sent = 0
    /\ call[c].pc = "ending" => Drops(c) \/ Quiet(slot[call[c].slot])
    /\ call[c].pc = "grace" => call[c].ctx = "over"
    /\ call[c].result = "reply" =>
          /\ call[c].pc = "ending" /\ Len(call[c].got) = call[c].whole
          /\ \A i \in 1 .. Len(call[c].got) : call[c].got[i] = c

SlotsGood  == \A s \in Slots : Good(slot[s]) /\ (s > spawned => slot[s].st = "unused")
CallsGood  == \A c \in Callers : CallGood(c)
HeldByCall == \A s \in Slots : slot[s].holder # 0 =>
                 call[slot[s].holder].slot = s /\ call[slot[s].holder].pc \in Holding
OneStarter == \A c, d \in Callers :
                 call[c].pc = "spawn" /\ call[d].pc = "spawn" /\ call[c].slot = call[d].slot => c = d

PeersInv == TypeOK /\ SlotsGood /\ CallsGood /\ HeldByCall /\ OneStarter

-----------------------------------------------------------------------------
(* Rights                                                                  *)

(* The flags of a native peer are capped by the host; an external one has  *)
(* its own command (delegate.go, buildMowAgentCommand).                    *)
LEMMA RightsAreHosts ==
    ASSUME NEW a \in Agents, NEW h \in Hosts
    PROVE  /\ Rights(a, h) \subseteq {r \in {"write", "shell"} : h[r]} \cup {"own"}
           /\ Rights(a, h) \subseteq AllRights
<1>1. Capped(a.write, h.write) => h.write
  BY DEF Capped, Hosts
<1>2. Capped(a.shell, h.shell) => h.shell
  BY DEF Capped, Hosts
<1>3. QED
  BY <1>1, <1>2 DEF Rights, AllRights, Hosts

LEMMA KeysHaveRights ==
    ASSUME NEW a \in Agents, NEW h \in Hosts
    PROVE  Key(a, h) \in KeyType /\ Key(a, h).rights = Rights(a, h)
BY DEF Key, KeyType

LEMMA FreshIsGood ==
    ASSUME NEW k \in KeyType, NEW r \in SUBSET AllRights, r = k.rights
    PROVE  /\ Fresh(k, r) \in SlotType /\ Good(Fresh(k, r))
           /\ Fresh(k, r).st = "starting" /\ Fresh(k, r).key = k /\ Fresh(k, r).holder = 0
BY DEF Fresh, SlotType, Good, Owned, Shaped, Settled, Empty, Quiet, Lives, Somebody

LEMMA NoSlotIsGood == NoSlot \in SlotType /\ Good(NoSlot) /\ NoSlot.st = "unused" /\ NoSlot.holder = 0
<1> DEFINE k == [agent |-> {}, rights |-> {}, permission |-> "reject"]
<1>1. NoSlot = [Fresh(k, {}) EXCEPT !.st = "unused"] /\ NoSlot.key = k
  BY DEF NoSlot, Fresh
<1>2. Fresh(k, {}) \in SlotType /\ Good(Fresh(k, {})) /\ Fresh(k, {}).holder = 0
  BY <1>1, FreshIsGood DEF KeyType
<1>3. NoSlot \in SlotType /\ NoSlot.st = "unused" /\ NoSlot.holder = 0
  BY <1>1, <1>2 DEF SlotType
<1>4. Good(NoSlot)
  BY <1>1, <1>2 DEF SlotType, Good, Owned, Shaped, Final, Settled, Empty, Quiet, Lives, Fresh
<1>5. QED
  BY <1>3, <1>4

LEMMA NoCallIsCall == NoCall \in CallType /\ NoCall.pc = "idle" /\ NoCall.result = "none"
BY BoundsAreNat DEF NoCall, CallType, KeyType, Labels

LEMMA PeersInit == Init => PeersInv
<1> SUFFICES ASSUME Init PROVE PeersInv
  OBVIOUS
<1>1. \A s \in Slots : slot[s] = NoSlot
  BY DEF Init
<1>2. \A c \in Callers : call[c] = NoCall
  BY DEF Init
<1>3. TypeOK
  BY NoSlotIsGood, NoCallIsCall, BoundsAreNat DEF Init, TypeOK
<1>4. SlotsGood /\ HeldByCall
  BY <1>1, NoSlotIsGood DEF SlotsGood, HeldByCall
<1>5. CallsGood /\ OneStarter
  BY <1>2, NoCallIsCall DEF CallsGood, CallGood, OneStarter, Placed, Holding
<1>6. QED
  BY <1>3, <1>4, <1>5 DEF PeersInv

-----------------------------------------------------------------------------
(* Steps of peers, readers and the pool                                    *)

\* What such a step may make of a slot.
Keeps(r, q) ==
    /\ q \in SlotType /\ Good(q)
    /\ q.key = r.key /\ q.st = r.st /\ q.holder = r.holder
    /\ Lives(q) => Lives(r)
    /\ Quiet(r) => Quiet(q) /\ (r.sent = 0 => q.sent = 0)

LEMMA SlotStep ==
    ASSUME PeersInv, \A s \in Slots : Keeps(slot[s], slot'[s]),
           slot' \in [Slots -> SlotType], pool' \subseteq pool,
           UNCHANGED <<call, spawned>>
    PROVE  PeersInv'
<1>1. TypeOK'
  BY DEF PeersInv, TypeOK
<1>2. SlotsGood' /\ HeldByCall' /\ OneStarter'
  BY DEF PeersInv, SlotsGood, HeldByCall, OneStarter, Keeps
<1>3. CallsGood'
  <2>1. SUFFICES ASSUME NEW c \in Callers PROVE CallGood(c)'
    BY DEF CallsGood
  <2>2. CallGood(c)
    BY DEF PeersInv, CallsGood
  <2>3. CASE ~Placed(c)
    BY <2>2, <2>3 DEF CallGood, Placed, Holding
  <2>4. CASE Placed(c)
    <3>1. call[c].slot \in Slots /\ Keeps(slot[call[c].slot], slot'[call[c].slot])
      BY <2>2, <2>4, BoundsAreNat DEF CallGood, PeersInv, TypeOK, Slots
    <3>2. Drops(c) => Drops(c)'
      BY <3>1 DEF Drops, Alive, Keeps, Lives
    <3>3. QED
      BY <2>2, <2>4, <3>1, <3>2 DEF CallGood, Placed, Keeps
  <2>5. QED
    BY <2>3, <2>4
<1>4. QED
  BY <1>1, <1>2, <1>3 DEF PeersInv

LEMMA SameKeeps == ASSUME NEW r \in SlotType, Good(r) PROVE Keeps(r, r)
BY DEF Keeps

(* One slot changes.                                                       *)
LEMMA OneSlotStep ==
    ASSUME PeersInv, NEW s \in Slots, NEW q, Keeps(slot[s], q), slot' = [slot EXCEPT ![s] = q],
           UNCHANGED <<pool, call, spawned>>
    PROVE  PeersInv'
<1>1. slot' \in [Slots -> SlotType]
  BY DEF PeersInv, TypeOK, Keeps
<1>2. \A t \in Slots : Keeps(slot[t], slot'[t])
  BY SameKeeps DEF PeersInv, TypeOK, SlotsGood
<1>3. QED
  BY <1>1, <1>2, SlotStep

(* A peer that is closed leaves nothing to read.                           *)
LEMMA CloseKeeps ==
    ASSUME NEW r \in SlotType, Good(r), r.st = "up"
    PROVE  Keeps(r, Close(r)) /\ ~Lives(Close(r)) /\ Quiet(Close(r))
<1> DEFINE p == IF r.pending = "open" THEN "error" ELSE r.pending
           q == [key |-> r.key, rights |-> r.rights, st |-> r.st, holder |-> r.holder,
                 proc |-> "exited", open |-> FALSE, failed |-> TRUE, pipe |-> <<>>, work |-> 0,
                 sent |-> 0, waits |-> FALSE, text |-> <<>>, pending |-> p]
<1>1. p \in {"none", "open", "result", "error"}
  BY DEF SlotType
<1>2. Close(r) = [r EXCEPT !.open = FALSE, !.proc = "exited", !.failed = TRUE, !.pipe = <<>>,
                           !.work = 0, !.waits = FALSE, !.text = <<>>, !.sent = 0, !.pending = p]
  BY DEF Close
<1> HIDE DEF p
<1>3. Close(r) = q
  BY <1>2 DEF SlotType
<1>4. q \in SlotType
  <2>1. /\ <<>> \in Seq(Callers) /\ <<>> \in Seq(Message)
        /\ r.key \in KeyType /\ r.rights \in SUBSET AllRights /\ r.holder \in Somebody
        /\ r.st \in {"unused", "starting", "up", "gone"} /\ 0 \in Somebody /\ 0 \in Nat
    BY DEF SlotType, Somebody
  <2>2. QED
    BY <1>1, <2>1 DEF SlotType
<1>5. Good(q) /\ Quiet(q) /\ ~Lives(q)
  BY DEF Good, Owned, Shaped, Settled, Quiet, Lives
<1>6. Keeps(r, q)
  BY <1>4, <1>5 DEF Keeps
<1>7. QED
  BY <1>3, <1>5, <1>6

LEMMA CloseAllKeeps ==
    ASSUME PeersInv, NEW S
    PROVE  /\ CloseAllOf(S) \in [Slots -> SlotType]
           /\ \A s \in Slots : Keeps(slot[s], CloseAllOf(S)[s])
<1>1. \A s \in Slots : slot[s] \in SlotType /\ Good(slot[s])
  BY DEF PeersInv, TypeOK, SlotsGood
<1>2. \A s \in Slots : Keeps(slot[s], CloseAllOf(S)[s])
  BY <1>1, CloseKeeps, SameKeeps DEF CloseAllOf
<1>3. QED
  BY <1>2 DEF Keeps, CloseAllOf

LEMMA PoolSteps == ASSUME PeersInv, DropPeers \/ CloseAll \/ Reap PROVE PeersInv'
<1>1. CASE DropPeers
  BY <1>1, CloseAllKeeps, SlotStep DEF DropPeers
<1>2. CASE CloseAll
  BY <1>2, CloseAllKeeps, SlotStep DEF CloseAll
<1>3. CASE Reap
  BY <1>3, CloseAllKeeps, SlotStep DEF Reap
<1>4. QED
  BY <1>1, <1>2, <1>3

LEMMA Lines ==
    /\ \A x \in Message : x[1] \in {"chunk", "ask", "result", "error"} /\ x[2] \in Callers
    /\ \A m \in {"chunk", "ask", "result", "error"}, c \in Callers : <<m, c>> \in Message
BY DEF Message

LEMMA Appended ==
    ASSUME NEW S, NEW x \in S, NEW p \in Seq(S)
    PROVE  /\ Append(p, x) \in Seq(S) /\ Append(p, x) # <<>> /\ Len(p) \in Nat
           /\ Len(Append(p, x)) = Len(p) + 1 /\ Append(p, x)[Len(p) + 1] = x
           /\ \A i \in 1 .. Len(p) : Append(p, x)[i] = p[i] /\ p[i] \in S
OBVIOUS

LEMMA Rest ==
    ASSUME NEW S, NEW p \in Seq(S), p # <<>>
    PROVE  /\ Tail(p) \in Seq(S) /\ Len(p) \in Nat /\ Len(p) > 0 /\ Head(p) = p[1] /\ Head(p) \in S
           /\ p[Len(p)] \in S /\ Len(Tail(p)) = Len(p) - 1
           /\ \A i \in 1 .. Len(Tail(p)) : Tail(p)[i] = p[i + 1]
           /\ Tail(p) = <<>> <=> Len(p) = 1
<1>1. /\ Tail(p) \in Seq(S) /\ Len(p) \in Nat /\ Len(p) > 0 /\ Head(p) = p[1] /\ Head(p) \in S
      /\ p[Len(p)] \in S /\ Len(Tail(p)) = Len(p) - 1
      /\ \A i \in 1 .. Len(Tail(p)) : Tail(p)[i] = p[i + 1]
  OBVIOUS
<1>2. Tail(p) = <<>> <=> Len(Tail(p)) = 0
  BY <1>1
<1>3. QED
  BY <1>1, <1>2

(* The prompt a peer works on is the one whose call holds the slot; unless *)
(* the peer waits for an answer, all it has written are chunks.            *)
LEMMA Working ==
    ASSUME NEW r \in SlotType, Good(r), r.work # 0
    PROVE  /\ r.work = r.holder /\ r.work \in Callers /\ ~Quiet(r) /\ r.pending # "result"
           /\ r.pending = "error" => ~Lives(r)
           /\ r.st = "up"
           /\ ~r.waits => /\ \A i \in 1 .. Len(r.pipe) : r.pipe[i][1] = "chunk"
                          /\ Len(r.text) + Len(r.pipe) = r.sent
<1>1. /\ r.work = r.holder /\ r.work \in Callers /\ ~Quiet(r) /\ r.pending # "result"
      /\ r.pending = "error" => ~Lives(r)
      /\ r.st = "up"
  BY DEF SlotType, Somebody, Good, Owned, Settled, Empty, Quiet
<1>2. ASSUME ~r.waits
      PROVE  /\ \A i \in 1 .. Len(r.pipe) : r.pipe[i][1] = "chunk"
             /\ Len(r.text) + Len(r.pipe) = r.sent
  <2>1. CASE r.pipe = <<>>
    BY <2>1 DEF Good, Shaped
  <2>2. CASE r.pipe # <<>>
    <3>1. Len(r.pipe) \in Nat /\ Len(r.pipe) > 0 /\ Final(r) \in {"chunk", "ask", "result", "error"}
      BY <2>2, Rest, Lines DEF SlotType, Final
    <3>2. Final(r) = "chunk"
      BY <1>2, <2>2, <3>1 DEF Good, Shaped
    <3>3. \A i \in 1 .. Len(r.pipe) : i = Len(r.pipe) \/ i < Len(r.pipe)
      BY <3>1
    <3>4. QED
      BY <3>1, <3>2, <3>3 DEF Good, Shaped, Final
  <2>3. QED
    BY <2>1, <2>2
<1>3. QED
  BY <1>1, <1>2

\* What a line of the peer makes of a slot.
Wrote(r, q, m) ==
    /\ q.pipe = Append(r.pipe, <<m, r.work>>)
    /\ q.key = r.key /\ q.rights = r.rights /\ q.st = r.st /\ q.holder = r.holder
    /\ q.text = r.text /\ q.pending = r.pending
    /\ q.open = r.open /\ q.failed = r.failed /\ q.proc = r.proc
    /\ \/ m = "chunk" /\ ~q.waits /\ q.sent = r.sent + 1 /\ q.work = r.work
       \/ m = "ask" /\ q.waits /\ q.sent = r.sent /\ q.work = r.work /\ r.sent = 0 /\ r.pipe = <<>>
       \/ m \in {"result", "error"} /\ ~q.waits /\ q.sent = r.sent /\ q.work = 0

(* What a peer writes is the holder's, and comes after its chunks.         *)
LEMMA Writing ==
    ASSUME NEW r \in SlotType, Good(r), r.work # 0, ~r.waits,
           NEW m \in {"chunk", "ask", "result", "error"}, NEW q \in SlotType, Wrote(r, q, m)
    PROVE  Keeps(r, q)
<1>1. /\ r.work = r.holder /\ r.work \in Callers /\ ~Quiet(r) /\ r.pending # "result"
      /\ r.pending = "error" => ~Lives(r)
      /\ r.st = "up"
      /\ \A i \in 1 .. Len(r.pipe) : r.pipe[i][1] = "chunk"
      /\ Len(r.text) + Len(r.pipe) = r.sent
  BY Working
<1>2. /\ r.pipe \in Seq(Message) /\ Len(r.text) \in Nat /\ r.sent \in Nat /\ Len(r.pipe) \in Nat
      /\ <<m, r.work>> \in Message
  BY <1>1, Lines DEF SlotType
<1>3. /\ Len(q.pipe) = Len(r.pipe) + 1 /\ q.pipe[Len(q.pipe)] = <<m, r.work>>
      /\ \A i \in 1 .. Len(r.pipe) : q.pipe[i] = r.pipe[i]
      /\ q.pipe # <<>>
  BY <1>1, <1>2, Appended DEF Wrote
<1>4. Owned(q)
  BY <1>1, <1>2, <1>3, CallersAssumption DEF Good, Owned, Quiet, Wrote
<1>5. Final(q) = m
  BY <1>3 DEF Final
<1>6. Shaped(q)
  <2>1. \A i \in 1 .. Len(q.pipe) : i < Len(q.pipe) => i \in 1 .. Len(r.pipe)
    BY <1>2, <1>3
  <2>2. \A i \in 1 .. Len(q.pipe) : i < Len(q.pipe) => q.pipe[i][1] = "chunk"
    BY <1>1, <1>3, <2>1
  <2>3. CASE m = "chunk"
    <3>1. ~q.waits /\ Len(q.text) + Len(q.pipe) = q.sent
      <4>1. ~q.waits /\ q.sent = r.sent + 1 /\ q.text = r.text
        BY <2>3 DEF Wrote
      <4>2. \A i, j \in Nat : i + (j + 1) = (i + j) + 1
        OBVIOUS
      <4>3. Len(r.text) + (Len(r.pipe) + 1) = r.sent + 1
        BY <1>1, <1>2, <4>2
      <4>4. QED
        BY <1>3, <4>1, <4>3
    <3>2. QED
      BY <1>3, <1>5, <2>2, <2>3, <3>1 DEF Shaped
  <2>4. CASE m = "ask"
    <3>1. /\ Len(r.pipe) = 0 /\ Len(r.text) = 0 /\ Len(q.pipe) = 1
          /\ q.waits /\ q.sent = 0 /\ Len(q.text) = 0
      <4>1. q.waits /\ q.sent = r.sent /\ r.sent = 0 /\ r.pipe = <<>> /\ q.text = r.text
        BY <2>4 DEF Wrote
      <4>2. Len(r.pipe) = 0
        BY <4>1
      <4>3. \A i, j \in Nat : i + j = 0 /\ j = 0 => i = 0 /\ j + 1 = 1
        OBVIOUS
      <4>4. Len(r.text) = 0 /\ Len(r.pipe) + 1 = 1
        BY <1>1, <1>2, <4>1, <4>2, <4>3
      <4>5. QED
        BY <1>3, <4>1, <4>2, <4>4
    <3>2. QED
      BY <1>3, <1>5, <2>2, <2>4, <3>1 DEF Shaped
  <2>5. CASE m \in {"result", "error"}
    <3>1. ~q.waits /\ q.work = 0 /\ Len(q.text) + Len(q.pipe) = q.sent + 1
      <4>1. ~q.waits /\ q.work = 0 /\ q.sent = r.sent /\ q.text = r.text
        BY <2>5 DEF Wrote
      <4>2. \A i, j \in Nat : i + (j + 1) = (i + j) + 1
        OBVIOUS
      <4>3. Len(r.text) + (Len(r.pipe) + 1) = r.sent + 1
        BY <1>1, <1>2, <4>2
      <4>4. QED
        BY <1>3, <4>1, <4>3
    <3>2. QED
      BY <1>3, <1>5, <2>2, <2>5, <3>1 DEF Shaped
  <2>6. QED
    BY <2>3, <2>4, <2>5
<1>7. Settled(q) /\ Lives(q) = Lives(r)
  BY <1>1 DEF Settled, Lives, Wrote
<1>8. QED
  BY <1>1, <1>4, <1>6, <1>7 DEF Keeps, Good, Wrote

LEMMA PeerSteps == ASSUME PeersInv, NEW s \in Slots, Peer(s) PROVE PeersInv'
<1> DEFINE r == slot[s]
<1>0. r \in SlotType /\ Good(r)
  BY DEF PeersInv, TypeOK, SlotsGood
<1>1. CASE PeerChunk(s)
  <2> DEFINE p == Append(r.pipe, <<"chunk", r.work>>)
             q == [r EXCEPT !.pipe = p, !.sent = @ + 1]
  <2>1. slot' = [slot EXCEPT ![s] = q] /\ r.work # 0 /\ ~r.waits
    BY <1>1 DEF PeerChunk, PeersInv, TypeOK
  <2>2. r.work \in Callers /\ p = Append(r.pipe, <<"chunk", r.work>>) /\ p \in Seq(Message)
    <3>1. r.work \in Callers
      BY <1>0, <2>1, Working
    <3>2. <<"chunk", r.work>> \in Message /\ r.pipe \in Seq(Message)
      BY <1>0, <3>1, Lines DEF SlotType
    <3>3. QED
      BY <3>1, <3>2, Appended
  <2> HIDE DEF p
  <2>3. q \in SlotType
    <3>1. r.sent + 1 \in Nat
      BY <1>0 DEF SlotType
    <3>2. QED
      BY <1>0, <2>2, <3>1 DEF SlotType
  <2>4. Wrote(r, q, "chunk")
    BY <1>0, <2>1, <2>2 DEF SlotType, Wrote
  <2>5. Keeps(r, q)
    BY <1>0, <2>1, <2>3, <2>4, Writing
  <2>6. QED
    BY <1>1, <2>1, <2>5, OneSlotStep DEF PeerChunk
<1>2. CASE PeerAsks(s)
  <2> DEFINE p == Append(r.pipe, <<"ask", r.work>>)
             q == [r EXCEPT !.pipe = p, !.waits = TRUE]
  <2>1. slot' = [slot EXCEPT ![s] = q] /\ r.work # 0 /\ ~r.waits /\ r.sent = 0 /\ r.pipe = <<>>
    BY <1>2 DEF PeerAsks, PeersInv, TypeOK
  <2>2. r.work \in Callers /\ p = Append(r.pipe, <<"ask", r.work>>) /\ p \in Seq(Message)
    <3>1. r.work \in Callers
      BY <1>0, <2>1, Working
    <3>2. <<"ask", r.work>> \in Message /\ r.pipe \in Seq(Message)
      BY <1>0, <3>1, Lines DEF SlotType
    <3>3. QED
      BY <3>1, <3>2, Appended
  <2> HIDE DEF p
  <2>3. q \in SlotType
    BY <1>0, <2>2 DEF SlotType
  <2>4. Wrote(r, q, "ask")
    BY <1>0, <2>1, <2>2 DEF SlotType, Wrote
  <2>5. Keeps(r, q)
    BY <1>0, <2>1, <2>3, <2>4, Writing
  <2>6. QED
    BY <1>2, <2>1, <2>5, OneSlotStep DEF PeerAsks
<1>3. ASSUME NEW m \in {"result", "error"}, PeerReplies(s, m) PROVE PeersInv'
  <2> DEFINE p == Append(r.pipe, <<m, r.work>>)
             q == [r EXCEPT !.pipe = p, !.work = 0]
  <2>1. slot' = [slot EXCEPT ![s] = q] /\ r.work # 0 /\ ~r.waits
    BY <1>3 DEF PeerReplies, PeersInv, TypeOK
  <2>2. r.work \in Callers /\ p = Append(r.pipe, <<m, r.work>>) /\ p \in Seq(Message)
    <3>1. r.work \in Callers
      BY <1>0, <2>1, Working
    <3>2. <<m, r.work>> \in Message /\ r.pipe \in Seq(Message)
      BY <1>0, <3>1, Lines DEF SlotType
    <3>3. QED
      BY <3>1, <3>2, Appended
  <2> HIDE DEF p
  <2>3. q \in SlotType
    BY <1>0, <2>2 DEF SlotType, Somebody
  <2>4. Wrote(r, q, m)
    BY <1>0, <2>1, <2>2 DEF SlotType, Wrote
  <2>5. Keeps(r, q)
    BY <1>0, <2>1, <2>3, <2>4, Writing
  <2>6. QED
    BY <1>3, <2>1, <2>5, OneSlotStep DEF PeerReplies
<1>4. CASE PeerExits(s)
  <2> DEFINE q == [r EXCEPT !.proc = "exited", !.work = 0, !.waits = FALSE]
  <2>1. slot' = [slot EXCEPT ![s] = q] /\ r.proc = "run"
    BY <1>4 DEF PeerExits, PeersInv, TypeOK
  <2>2. q \in SlotType
    BY <1>0 DEF SlotType, Somebody
  <2>3. Owned(q) /\ Settled(q) /\ (Quiet(r) => Quiet(q)) /\ ~Lives(q)
    BY <1>0 DEF SlotType, Good, Owned, Settled, Quiet, Lives
  <2>4. Shaped(q)
    BY <1>0 DEF SlotType, Good, Shaped, Final
  <2>5. Keeps(r, q)
    BY <1>0, <2>1, <2>2, <2>3, <2>4 DEF SlotType, Good, Keeps
  <2>6. QED
    BY <1>4, <2>1, <2>5, OneSlotStep DEF PeerExits
<1>5. QED
  BY <1>1, <1>2, <1>3, <1>4 DEF Peer

(* The reader takes the first line: a chunk joins the text, a reply is the *)
(* last line there is.                                                     *)
LEMMA ReadSteps == ASSUME PeersInv, NEW s \in Slots, Read(s) PROVE PeersInv'
<1> DEFINE old == slot[s]
           m == Head(old.pipe)
           r == [old EXCEPT !.pipe = Tail(@)]
           wanted == r.pending = "open" /\ r.holder = m[2]
           q == IF m[1] = "chunk" THEN [r EXCEPT !.text = Append(@, m[2])]
                ELSE IF m[1] = "ask" THEN Respond(r)
                ELSE IF wanted THEN [r EXCEPT !.pending = m[1]] ELSE r
<1>0. old \in SlotType /\ Good(old)
  BY DEF PeersInv, TypeOK, SlotsGood
<1>1. slot' = [slot EXCEPT ![s] = q] /\ old.pipe # <<>> /\ old.open
  BY DEF Read
<1>2. /\ old.pipe \in Seq(Message) /\ old.text \in Seq(Callers)
      /\ old.sent \in Nat
  BY <1>0 DEF SlotType
<1>10. /\ m \in Message /\ m[1] \in {"chunk", "ask", "result", "error"} /\ m[2] \in Callers
  BY <1>1, <1>2, Rest, Lines
<1>3. /\ Len(old.pipe) \in Nat /\ Len(old.pipe) > 0 /\ m = old.pipe[1] /\ Len(old.text) \in Nat
      /\ m[1] \in {"chunk", "ask", "result", "error"} /\ m[2] \in Callers
      /\ Tail(old.pipe) \in Seq(Message)
      /\ Len(Tail(old.pipe)) = Len(old.pipe) - 1
      /\ \A i \in 1 .. Len(Tail(old.pipe)) : Tail(old.pipe)[i] = old.pipe[i + 1]
      /\ Tail(old.pipe) = <<>> <=> Len(old.pipe) = 1
  <2>1. Len(old.text) \in Nat
    BY <1>2
  <2>2. QED
    BY <1>10, <1>1, <1>2, <2>1, Rest
<1>4. m[2] = old.holder /\ old.holder # 0 /\ old.st = "up" /\ ~Quiet(old)
  BY SMTT(30), <1>0, <1>1, <1>3, CallersAssumption DEF Good, Owned, Quiet, Empty
<1>5. r \in SlotType
  BY <1>0, <1>3 DEF SlotType
<1>6. /\ r.key = old.key /\ r.rights = old.rights /\ r.st = old.st /\ r.holder = old.holder
      /\ r.proc = old.proc /\ r.open = old.open /\ r.failed = old.failed /\ r.work = old.work
      /\ r.sent = old.sent /\ r.waits = old.waits /\ r.text = old.text /\ r.pending = old.pending
      /\ r.pipe = Tail(old.pipe)
  BY <1>0 DEF SlotType
<1>7. CASE m[1] = "chunk"
  <2> DEFINE t == Append(old.text, m[2])
  <2>1. q = [r EXCEPT !.text = t]
    BY <1>6, <1>7
  <2>0. /\ t = Append(old.text, m[2]) /\ t \in Seq(Callers) /\ Len(t) = Len(old.text) + 1
        /\ t[Len(old.text) + 1] = m[2] /\ \A i \in 1 .. Len(old.text) : t[i] = old.text[i]
    BY <1>2, <1>3, Appended
  <2> HIDE DEF q, r, m, t
  <2>2. q \in SlotType /\ q.text = t
    BY <1>5, <2>0, <2>1 DEF SlotType
  <2>3. /\ q.key = old.key /\ q.rights = old.rights /\ q.st = old.st /\ q.holder = old.holder
        /\ q.proc = old.proc /\ q.open = old.open /\ q.failed = old.failed /\ q.work = old.work
        /\ q.sent = old.sent /\ q.waits = old.waits /\ q.pending = old.pending
        /\ q.pipe = Tail(old.pipe)
    BY <1>5, <1>6, <2>1 DEF SlotType
  <2>4. Owned(q)
    BY SMTT(30), <1>0, <1>2, <1>3, <1>4, <2>0, <2>2, <2>3 DEF Good, Owned
  <2>5. Final(old) # "ask" /\ (q.pipe # <<>> => Final(q) = Final(old))
    BY SMTT(30), <1>0, <1>1, <1>3, <1>7, <2>3 DEF Good, Shaped, Final
  <2>6. Shaped(q)
    <3>1. \A i \in 1 .. Len(q.pipe) : i < Len(q.pipe) => q.pipe[i][1] = "chunk"
      <4>1. \A i \in 1 .. Len(q.pipe) : i < Len(q.pipe) =>
               i + 1 \in 1 .. Len(old.pipe) /\ i + 1 < Len(old.pipe) /\ q.pipe[i] = old.pipe[i + 1]
        BY <1>3, <2>3
      <4>2. QED
        BY <1>0, <4>1 DEF Good, Shaped
    <3>2. Len(old.pipe) = 1 => Final(old) = "chunk"
      BY <1>3, <1>7 DEF Final
    <3>3. Len(q.text) + Len(q.pipe) = Len(old.text) + Len(old.pipe)
      <4>1. Len(q.text) = Len(old.text) + 1
        BY <2>0, <2>2
      <4>2. Len(q.pipe) = Len(old.pipe) - 1
        BY <1>3, <2>3
      <4>3. Len(old.text) \in Nat /\ Len(old.pipe) \in Nat
        BY <1>3
      <4>4. \A i, j \in Nat : (i + 1) + (j - 1) = i + j
        OBVIOUS
      <4>5. QED
        BY <4>1, <4>2, <4>3, <4>4
    <3>4. Final(old) = "chunk" => Len(q.text) + Len(q.pipe) = q.sent
      BY <1>0, <3>3, <2>3 DEF Good, Shaped
    <3>5. Final(old) \in {"result", "error"} => q.work = 0 /\ Len(q.text) + Len(q.pipe) = q.sent + 1
      BY <1>0, <1>1, <3>3, <2>3 DEF Good, Shaped
    <3>6. q.pipe = <<>> => Final(old) = "chunk"
      BY <1>3, <2>3, <3>2
    <3>7. ~q.waits
      BY <1>0, <2>3, <2>5 DEF Good, Shaped
    <3>8. QED
      BY <2>5, <3>1, <3>4, <3>5, <3>6, <3>7 DEF Shaped
  <2>7. Settled(q) /\ Lives(q) = Lives(old)
    BY <1>0, <1>4, <2>3 DEF Good, Settled, Lives
  <2>8. Keeps(old, q)
    BY <1>0, <1>4, <2>2, <2>3, <2>4, <2>6, <2>7 DEF Keeps, Good
  <2>9. QED
    BY <1>1, <2>8, OneSlotStep DEF Read
<1>8. CASE m[1] # "chunk"
  <2>1. Len(old.pipe) = 1 /\ r.pipe = <<>> /\ Final(old) = m[1]
    BY SMTT(30), <1>0, <1>3, <1>6, <1>8 DEF Good, Shaped, Final
  <2>2. CASE m[1] = "ask"
    <3>1. q = [r EXCEPT !.waits = FALSE]
      BY <2>2 DEF Respond
    <3>2. q \in SlotType
      BY ZenonT(40), <1>5, <3>1 DEF SlotType
    <3>3. /\ q.key = old.key /\ q.rights = old.rights /\ q.st = old.st /\ q.holder = old.holder
          /\ q.proc = old.proc /\ q.open = old.open /\ q.failed = old.failed /\ q.work = old.work
          /\ q.sent = old.sent /\ ~q.waits /\ q.text = old.text /\ q.pending = old.pending
          /\ q.pipe = <<>>
      BY ZenonT(40), <1>5, <1>6, <2>1, <3>1 DEF SlotType
    <3> HIDE DEF q, r, m
    <3>4. Owned(q) /\ Settled(q)
      BY <1>0, <1>4, <3>3 DEF Good, Owned, Settled, Lives
    <3>5. Shaped(q)
      BY <1>0, <1>1, <2>1, <2>2, <3>3 DEF Good, Shaped
    <3>6. Keeps(old, q)
      BY <1>0, <1>4, <3>2, <3>3, <3>4, <3>5 DEF Keeps, Good, Lives
    <3>7. QED
      BY <1>1, <3>6, OneSlotStep DEF Read
  <2>3. CASE m[1] # "ask"
    <3>2. q = IF wanted THEN [r EXCEPT !.pending = m[1]] ELSE r
      BY <1>8, <2>3
    <3>3. m[1] \in {"result", "error"}
      BY <1>3, <1>8, <2>3
    <3>4. q \in SlotType
      BY ZenonT(40), <1>5, <3>2, <3>3 DEF SlotType
    <3>5. /\ q.key = old.key /\ q.rights = old.rights /\ q.st = old.st /\ q.holder = old.holder
          /\ q.proc = old.proc /\ q.open = old.open /\ q.failed = old.failed /\ q.work = old.work
          /\ q.sent = old.sent /\ q.waits = old.waits /\ q.text = old.text
          /\ q.pipe = <<>>
      <4>1. CASE wanted
        <5>1. q = [r EXCEPT !.pending = m[1]]
          BY <3>2, <4>1
        <5>2. QED
          BY ZenonT(40), <1>5, <1>6, <2>1, <5>1 DEF SlotType
      <4>2. CASE ~wanted
        BY <1>6, <2>1, <3>2, <4>2
      <4>3. QED
        BY <4>1, <4>2
    <3>6. old.work = 0 /\ Len(old.text) = old.sent /\ ~old.waits
      <4>1. Len(old.text) \in Nat
        BY <1>2
      <4>2. QED
        BY <1>0, <1>1, <1>2, <2>1, <3>3, <4>1 DEF Good, Shaped
    <3> HIDE DEF q, r, m
    <3>7. Owned(q) /\ Settled(q)
      BY <1>0, <1>4, <3>5, <3>6 DEF Good, Owned, Settled, Quiet
    <3>8. Shaped(q)
      BY <1>2, <3>5, <3>6 DEF Shaped
    <3>9. Keeps(old, q)
      BY <1>0, <1>4, <3>4, <3>5, <3>7, <3>8 DEF Keeps, Good, Lives
    <3>10. QED
      BY <1>1, <3>9, OneSlotStep DEF Read
  <2>4. QED
    BY <2>2, <2>3
<1>9. QED
  BY <1>7, <1>8

LEMMA ReadEndsSteps == ASSUME PeersInv, NEW s \in Slots, ReadEnds(s) PROVE PeersInv'
<1> DEFINE r == slot[s]
           p == IF r.pending = "open" THEN "error" ELSE r.pending
           q == [r EXCEPT !.failed = TRUE, !.pending = p]
<1>1. r \in SlotType /\ Good(r) /\ r.st = "up" /\ r.proc = "exited"
  BY DEF PeersInv, TypeOK, SlotsGood, ReadEnds
<1>2. slot' = [slot EXCEPT ![s] = q]
  BY DEF ReadEnds, PeersInv, TypeOK
<1>3. p \in {"none", "open", "result", "error"} /\ (p = "result" => r.pending = "result")
  BY <1>1 DEF SlotType
<1> HIDE DEF p
<1>4. q \in SlotType
  BY <1>1, <1>3 DEF SlotType
<1>5. Keeps(r, q)
  BY ZenonT(40), <1>1, <1>3, <1>4 DEF SlotType, Good, Owned, Shaped, Final, Settled, Quiet, Lives, Keeps
<1>6. QED
  BY <1>2, <1>5, OneSlotStep DEF ReadEnds

-----------------------------------------------------------------------------
(* Steps of the calls                                                      *)

\* What a step of call c may make of a slot it finds; of the one it has, more.
Around(c, r, q) ==
    /\ q.key = r.key
    /\ r.st = "up" => q.st = "up"
    /\ r.holder \notin {0, c} => q = r
    /\ q.holder \in {r.holder, 0, c}

LEMMA CallStep ==
    ASSUME PeersInv, NEW c \in Callers, TypeOK', SlotsGood', CallGood(c)',
           \A d \in Callers \ {c} : call'[d] = call[d],
           spawned' >= spawned,
           \A s \in 1 .. spawned : Around(c, slot[s], slot'[s]),
           \A s \in 1 .. spawned : slot[s].st = "starting" /\ slot'[s].st # "starting" =>
               call[c].pc = "spawn" /\ call[c].slot = s /\ call'[c].pc # "spawn",
           \A s \in Slots \ (1 .. spawned) : slot'[s].holder = 0,
           \A s \in 1 .. spawned : slot'[s].holder = c =>
               call'[c].slot = s /\ call'[c].pc \in Holding,
           call'[c].pc = "spawn" /\ call[c].pc # "spawn" => call'[c].slot \notin 1 .. spawned,
           call'[c].pc = "spawn" /\ call[c].pc = "spawn" => call'[c].slot = call[c].slot
    PROVE  PeersInv'
<1>0. 1 .. spawned \subseteq Slots /\ spawned \in Nat /\ spawned' \in Nat
      /\ 1 .. spawned \subseteq 1 .. spawned'
  BY BoundsAreNat DEF PeersInv, TypeOK, Slots
<1>1. \A d \in Callers \ {c} : CallGood(d)'
  <2>1. SUFFICES ASSUME NEW d \in Callers \ {c} PROVE CallGood(d)'
    OBVIOUS
  <2>2. CallGood(d) /\ call'[d] = call[d]
    BY DEF PeersInv, CallsGood
  <2>3. CASE ~Placed(d)
    BY <2>2, <2>3 DEF CallGood, Placed, Holding
  <2>4. CASE Placed(d)
    <3> DEFINE s == call[d].slot
    <3>1. s \in 1 .. spawned /\ s \in 1 .. spawned' /\ slot[s].key = call[d].key /\ Around(c, slot[s], slot'[s])
      BY <1>0, <2>2, <2>4 DEF CallGood
    <3>2. call[d].pc = "spawn" => slot'[s].st = "starting"
      BY <2>2, <3>1 DEF CallGood, PeersInv, OneStarter
    <3>3. call[d].pc \in Holding => slot'[s] = slot[s] /\ slot[s].holder = d
      BY <2>2, <3>1, CallersAssumption DEF CallGood, Around
    <3>4. call[d].pc = "ending" /\ Drops(d) => Drops(d)'
      BY <2>2, <3>3 DEF Drops, Alive, Holding
    <3>5. call[d].pc \in Holding \cup {"lock"} => slot'[s].st = "up"
      BY <2>2, <3>1 DEF CallGood, Around
    <3>6. QED
      BY <2>2, <3>1, <3>2, <3>3, <3>4, <3>5 DEF CallGood, Placed, Around, Holding
  <2>5. QED
    BY <2>3, <2>4
<1>2. CallsGood'
  BY <1>1 DEF CallsGood
<1>3. HeldByCall'
  <2>1. SUFFICES ASSUME NEW s \in Slots, slot'[s].holder # 0
                 PROVE  /\ call'[slot'[s].holder].slot = s
                        /\ call'[slot'[s].holder].pc \in Holding
    BY DEF HeldByCall
  <2>2. s \in 1 .. spawned
    BY <2>1
  <2>3. CASE slot'[s].holder = c
    BY <2>2, <2>3
  <2>4. CASE slot'[s].holder # c
    <3>1. slot'[s].holder = slot[s].holder
      BY <2>1, <2>2, <2>4 DEF Around
    <3>2. slot[s].holder \in Callers \ {c}
      BY <1>0, <2>1, <2>2, <2>4, <3>1 DEF PeersInv, TypeOK, SlotType, Somebody
    <3>3. QED
      BY <2>1, <3>1, <3>2 DEF PeersInv, HeldByCall
  <2>5. QED
    BY <2>3, <2>4
<1>4. OneStarter'
  <2>1. \A d \in Callers : call[d].pc = "spawn" => call[d].slot \in 1 .. spawned
    BY DEF PeersInv, CallsGood, CallGood, Placed
  <2>2. QED
    BY <2>1 DEF PeersInv, OneStarter
<1>5. QED
  BY <1>2, <1>3, <1>4 DEF PeersInv

(* A step of c that leaves every slot and goes on, or starts or ends.      *)
LEMMA OnlyCall ==
    ASSUME PeersInv, NEW c \in Callers, NEW q \in CallType, call' = [call EXCEPT ![c] = q],
           UNCHANGED <<pool, slot, spawned>>, call[c].pc \notin Holding,
           CallGood(c)', q.pc = "spawn" => call[c].pc = "spawn" /\ q.slot = call[c].slot
    PROVE  PeersInv'
<1>1. TypeOK' /\ SlotsGood' /\ call'[c] = q /\ \A d \in Callers \ {c} : call'[d] = call[d]
  BY DEF PeersInv, TypeOK, SlotsGood
<1>2. \A s \in Slots : slot[s].holder # c
  BY CallersAssumption DEF PeersInv, HeldByCall
<1>3. 1 .. spawned \subseteq Slots /\ spawned \in Nat
  BY BoundsAreNat DEF PeersInv, TypeOK, Slots
<1>4. \A s \in 1 .. spawned : Around(c, slot[s], slot'[s])
  BY DEF Around
<1>5. \A s \in Slots \ (1 .. spawned) : slot'[s].holder = 0
  BY <1>3 DEF PeersInv, SlotsGood, Good, Empty, Slots
<1>6. QED
  BY <1>1, <1>2, <1>3, <1>4, <1>5, CallStep

LEMMA CallerFacts ==
    ASSUME PeersInv, NEW c \in Callers
    PROVE  /\ call[c] \in CallType /\ CallGood(c)
           /\ \A s \in Slots : slot[s] \in SlotType /\ Good(slot[s]) /\ (s > spawned => slot[s].st = "unused")
           /\ 1 .. spawned \subseteq Slots /\ spawned \in Nat
           /\ Placed(c) => call[c].slot \in 1 .. spawned /\ call[c].slot \in Slots
<1>1. 1 .. spawned \subseteq Slots /\ spawned \in Nat
  BY BoundsAreNat DEF PeersInv, TypeOK, Slots
<1>2. QED
  BY <1>1 DEF PeersInv, TypeOK, SlotsGood, CallsGood, CallGood

LEMMA BeginSteps ==
    ASSUME PeersInv, NEW c \in Callers, NEW a \in Agents, NEW h \in HostsOf[c], Begin(c, a, h)
    PROVE  PeersInv'
<1> DEFINE host == {r \in {"write", "shell"} : h[r]} \cup {"own"}
           k == Key(a, h)
           rights == Rights(a, h)
           q == [NoCall EXCEPT !.pc = "get", !.key = k, !.rights = rights, !.host = host]
<1>1. call' = [call EXCEPT ![c] = q] /\ call[c].pc = "idle"
  BY DEF Begin
<1>2. /\ rights \subseteq host /\ rights \subseteq AllRights
      /\ k \in KeyType /\ k.rights = rights
  BY CallersAssumption, RightsAreHosts, KeysHaveRights DEF Hosts
<1>3. host \subseteq AllRights
  BY DEF AllRights
<1> HIDE DEF host, k, rights
<1>4. q \in CallType /\ q.pc = "get" /\ q.key = k /\ q.rights = rights /\ q.host = host /\ q.result = "none"
  BY <1>2, <1>3, NoCallIsCall DEF CallType, Labels
<1>5. call'[c] = q
  BY <1>1 DEF PeersInv, TypeOK
<1>6. CallGood(c)'
  BY <1>2, <1>4, <1>5 DEF CallGood, Placed, Holding
<1>7. QED
  BY <1>1, <1>4, <1>6, OnlyCall DEF Begin, Holding

LEMMA CancelSteps == ASSUME PeersInv, NEW c \in Callers, Cancel(c) PROVE PeersInv'
<1> DEFINE q == [call[c] EXCEPT !.ctx = "over"]
<1>1. call' = [call EXCEPT ![c] = q] /\ call[c].pc \in {"waiting", "spawn", "lock"}
  BY DEF Cancel, PeersInv, TypeOK
<1>2. /\ q \in CallType /\ q.pc = call[c].pc /\ q.key = call[c].key /\ q.rights = call[c].rights
      /\ q.host = call[c].host /\ q.slot = call[c].slot /\ q.result = call[c].result
      /\ call'[c] = q
  BY <1>1 DEF PeersInv, TypeOK, CallType
<1>3. CallGood(c)'
  BY <1>1, <1>2, CallerFacts DEF CallGood, Placed, Holding, Cancel
<1>4. QED
  BY <1>1, <1>2, <1>3, OnlyCall DEF Cancel, Holding

(* A call that returns leaves no trace.                                    *)
LEMMA IdleIsGood == ASSUME PeersInv, NEW c \in Callers, call'[c] = NoCall PROVE CallGood(c)'
BY NoCallIsCall DEF CallGood, Placed, Holding

LEMMA WaitSteps == ASSUME PeersInv, NEW c \in Callers, Wait(c) PROVE PeersInv'
<1>1. call[c].pc = "waiting"
  BY DEF Wait
<1>2. CASE Returns(c)
  <2>1. call'[c] = NoCall
    BY <1>2 DEF Returns, PeersInv, TypeOK
  <2>2. QED
    BY <1>1, <1>2, <2>1, IdleIsGood, NoCallIsCall, OnlyCall DEF Wait, Returns, Holding
<1>3. CASE call' = [call EXCEPT ![c].pc = "get", ![c].slot = 0]
  <2> DEFINE q == [call[c] EXCEPT !.pc = "get", !.slot = 0]
  <2>1. call' = [call EXCEPT ![c] = q]
    BY <1>3 DEF PeersInv, TypeOK
  <2>2. /\ q \in CallType /\ q.pc = "get" /\ q.key = call[c].key /\ q.rights = call[c].rights
        /\ q.host = call[c].host /\ q.result = call[c].result /\ call'[c] = q
    <3>1. 0 \in 0 .. MaxSpawns /\ call[c] \in CallType
      BY BoundsAreNat, CallerFacts
    <3>2. call'[c] = q
      BY <2>1 DEF PeersInv, TypeOK
    <3>3. QED
      BY <3>1, <3>2 DEF CallType, Labels
  <2>3. CallGood(c)'
    BY <1>1, <2>2, CallerFacts DEF CallGood, Placed, Holding
  <2>4. QED
    BY <1>1, <2>1, <2>2, <2>3, OnlyCall DEF Wait, Holding
<1>4. QED
  BY <1>2, <1>3 DEF Wait

(* A call that changes the one slot it has, with or without holding it.    *)
LEMMA OwnSlot ==
    ASSUME PeersInv, NEW c \in Callers, Placed(c),
           NEW q \in SlotType, slot' = [slot EXCEPT ![call[c].slot] = q],
           NEW k \in CallType, call' = [call EXCEPT ![c] = k],
           pool' \subseteq pool, UNCHANGED spawned,
           Good(q), Around(c, slot[call[c].slot], q), q.st # "unused",
           slot[call[c].slot].st = "starting" /\ q.st # "starting" => call[c].pc = "spawn" /\ k.pc # "spawn",
           q.holder = c <=> k.pc \in Holding,
           k.pc \in Holding => k.slot = call[c].slot,
           k.pc = "spawn" => call[c].pc = "spawn" /\ k.slot = call[c].slot,
           CallGood(c)'
    PROVE  PeersInv'
<1> DEFINE s == call[c].slot
<1>1. s \in 1 .. spawned /\ s \in Slots /\ 1 .. spawned \subseteq Slots /\ spawned \in Nat
  BY CallerFacts
<1>2. slot'[s] = q /\ \A t \in Slots \ {s} : slot'[t] = slot[t]
  BY <1>1 DEF PeersInv, TypeOK
<1>3. call'[c] = k /\ \A d \in Callers \ {c} : call'[d] = call[d]
  BY DEF PeersInv, TypeOK
<1>4. TypeOK'
  BY <1>1 DEF PeersInv, TypeOK
<1>5. SlotsGood'
  BY <1>1, <1>2 DEF PeersInv, SlotsGood
<1>6. \A t \in Slots \ {s} : slot[t].holder # c
  BY CallersAssumption DEF PeersInv, HeldByCall
<1>7. \A t \in 1 .. spawned : Around(c, slot[t], slot'[t])
  BY <1>1, <1>2 DEF Around
<1>8. \A t \in Slots \ (1 .. spawned) : slot'[t].holder = 0
  BY <1>1, <1>2 DEF PeersInv, SlotsGood, Good, Empty, Slots
<1>9. \A t \in 1 .. spawned : slot'[t].holder = c => call'[c].slot = t /\ call'[c].pc \in Holding
  BY <1>1, <1>2, <1>3, <1>6
<1>10. \A t \in 1 .. spawned : slot[t].st = "starting" /\ slot'[t].st # "starting" =>
          call[c].pc = "spawn" /\ call[c].slot = t /\ call'[c].pc # "spawn"
  BY <1>1, <1>2, <1>3
<1>11. QED
  BY <1>1, <1>3, <1>4, <1>5, <1>7, <1>8, <1>9, <1>10, CallStep

LEMMA StartSteps == ASSUME PeersInv, NEW c \in Callers, StartPeer(c) PROVE PeersInv'
<1> DEFINE s == call[c].slot
           r == slot[s]
           q == [r EXCEPT !.st = "up", !.proc = "run", !.open = TRUE]
           k == [call[c] EXCEPT !.pc = "lock"]
<1>1. /\ call[c].pc = "spawn" /\ Placed(c) /\ s \in Slots /\ s \in 1 .. spawned
      /\ r \in SlotType /\ Good(r) /\ r.st = "starting" /\ r.key = call[c].key
  BY CallerFacts DEF StartPeer, Placed, CallGood
<1>2. slot' = [slot EXCEPT ![s] = q] /\ call' = [call EXCEPT ![c] = k]
  BY <1>1 DEF StartPeer, PeersInv, TypeOK
<1>3. /\ q \in SlotType /\ q.key = r.key /\ q.rights = r.rights /\ q.st = "up" /\ q.holder = r.holder
      /\ q.pipe = r.pipe /\ q.text = r.text /\ q.work = r.work /\ q.sent = r.sent /\ q.waits = r.waits
      /\ q.pending = r.pending
  BY <1>1 DEF SlotType
<1>4. /\ k \in CallType /\ k.pc = "lock" /\ k.key = call[c].key /\ k.rights = call[c].rights
      /\ k.host = call[c].host /\ k.slot = s /\ k.result = call[c].result
  BY CallerFacts DEF CallType, Labels
<1>5. slot'[s] = q /\ call'[c] = k
  BY <1>1, <1>2 DEF PeersInv, TypeOK
<1> HIDE DEF q, k
<1>6. Good(q) /\ q.holder = 0
  <2>1. Empty(r)
    BY <1>1 DEF Good
  <2>2. /\ q.pipe = <<>> /\ q.text = <<>> /\ q.sent = 0 /\ q.work = 0 /\ ~q.waits
        /\ q.holder = 0 /\ q.pending = "none" /\ Quiet(q)
    BY <1>3, <2>1 DEF Empty, Quiet
  <2>3. Owned(q) /\ Shaped(q) /\ Settled(q)
    BY <2>2 DEF Owned, Shaped, Settled
  <2>4. QED
    BY <1>1, <1>3, <2>2, <2>3 DEF Good
<1>7. CallGood(c)'
  <2>1. call[c].result # "reply" /\ call[c].key.rights = call[c].rights /\ call[c].rights \subseteq call[c].host
    BY <1>1, CallerFacts DEF CallGood
  <2>2. s \in 1 .. spawned'
    BY <1>1 DEF StartPeer
  <2>3. QED
    BY <1>1, <1>3, <1>4, <1>5, <2>1, <2>2 DEF CallGood, Placed, Holding
<1>8. Around(c, r, q)
  BY <1>1, <1>3, <1>6 DEF Around, Good, Empty
<1>9. QED
  BY <1>1, <1>2, <1>3, <1>4, <1>6, <1>7, <1>8, OwnSlot, CallersAssumption DEF StartPeer, Holding

LEMMA StartFailsSteps == ASSUME PeersInv, NEW c \in Callers, StartFails(c) PROVE PeersInv'
<1> DEFINE s == call[c].slot
           r == slot[s]
           q == [r EXCEPT !.st = "gone"]
<1>1. /\ call[c].pc = "spawn" /\ Placed(c) /\ s \in Slots /\ s \in 1 .. spawned
      /\ r \in SlotType /\ Good(r) /\ r.st = "starting" /\ r.key = call[c].key
  BY CallerFacts DEF StartFails, Placed, CallGood
<1>2. slot' = [slot EXCEPT ![s] = q] /\ call' = [call EXCEPT ![c] = NoCall]
  BY <1>1 DEF StartFails, Unreserve, Returns, PeersInv, TypeOK
<1>3. /\ q \in SlotType /\ q.key = r.key /\ q.rights = r.rights /\ q.st = "gone" /\ q.holder = r.holder
      /\ q.pipe = r.pipe /\ q.text = r.text /\ q.work = r.work /\ q.sent = r.sent /\ q.waits = r.waits
      /\ q.pending = r.pending /\ q.open = r.open /\ q.proc = r.proc /\ q.failed = r.failed
  BY <1>1 DEF SlotType
<1> HIDE DEF q
<1>4. Good(q) /\ q.holder = 0
  BY ZenonT(40), <1>1, <1>3 DEF Good, Empty, Owned, Shaped, Final, Settled, Quiet, Lives
<1>5. CallGood(c)'
  <2>1. call'[c] = NoCall
    BY <1>2 DEF PeersInv, TypeOK
  <2>2. QED
    BY <2>1, IdleIsGood
<1>6. Around(c, r, q)
  BY <1>1, <1>3, <1>4 DEF Around, Good, Empty
<1>7. QED
  BY <1>1, <1>2, <1>3, <1>4, <1>5, <1>6, OwnSlot, NoCallIsCall, CallersAssumption
     DEF StartFails, Unreserve, Holding

LEMMA LockSteps == ASSUME PeersInv, NEW c \in Callers, Lock(c) PROVE PeersInv'
<1> DEFINE s == call[c].slot
           r == slot[s]
           q == [r EXCEPT !.holder = c]
           k == [call[c] EXCEPT !.pc = "held"]
<1>1. /\ call[c].pc = "lock" /\ Placed(c) /\ s \in Slots /\ s \in 1 .. spawned
      /\ r \in SlotType /\ Good(r) /\ r.st = "up" /\ r.key = call[c].key
  BY CallerFacts DEF Lock, Placed, CallGood
<1>2. CASE Returns(c) /\ UNCHANGED slot
  <2>1. call'[c] = NoCall
    BY <1>2 DEF Returns, PeersInv, TypeOK
  <2>2. QED
    BY <1>1, <1>2, <2>1, IdleIsGood, NoCallIsCall, OnlyCall DEF Lock, Returns, Holding
<1>3. CASE r.holder = 0 /\ slot' = [slot EXCEPT ![s].holder = c] /\ call' = [call EXCEPT ![c].pc = "held"]
  <2>1. slot' = [slot EXCEPT ![s] = q] /\ call' = [call EXCEPT ![c] = k]
    BY <1>1, <1>3 DEF PeersInv, TypeOK
  <2>2. /\ q \in SlotType /\ q.key = r.key /\ q.rights = r.rights /\ q.st = "up" /\ q.holder = c
        /\ q.pipe = r.pipe /\ q.text = r.text /\ q.work = r.work /\ q.sent = r.sent /\ q.waits = r.waits
        /\ q.pending = r.pending /\ q.open = r.open /\ q.proc = r.proc /\ q.failed = r.failed
    BY <1>1 DEF SlotType, Somebody
  <2>3. /\ k \in CallType /\ k.pc = "held" /\ k.key = call[c].key /\ k.rights = call[c].rights
        /\ k.host = call[c].host /\ k.slot = s /\ k.result = call[c].result
    BY CallerFacts DEF CallType, Labels
  <2>4. slot'[s] = q /\ call'[c] = k
    BY <1>1, <2>1 DEF PeersInv, TypeOK
  <2> HIDE DEF q, k
  <2>5. Quiet(r) /\ Quiet(q)
    BY <1>1, <1>3, <2>2 DEF Good, Owned, Quiet
  <2>6. \A i \in 1 .. Len(r.text) : FALSE
    <3>1. \A i \in 1 .. Len(r.text) : r.text[i] \in Callers
      BY <1>1 DEF SlotType
    <3>2. QED
      BY <1>1, <1>3, <3>1, CallersAssumption DEF Good, Owned
  <2>7. Owned(q)
    BY <2>2, <2>5, <2>6 DEF Owned, Quiet
  <2>8. Good(q)
    BY <1>1, <2>2, <2>5, <2>7 DEF Good, Shaped, Final, Settled, Quiet, Lives
  <2>12. q.sent = 0
    <3>1. Len(r.text) \in Nat /\ r.pipe = <<>> /\ r.sent \in Nat /\ Len(r.text) + Len(r.pipe) = r.sent
      BY <1>1, <2>5 DEF SlotType, Good, Shaped, Quiet
    <3>2. Len(r.text) = 0
      BY <2>6, <3>1
    <3>3. Len(r.pipe) = 0
      BY <3>1
    <3>4. QED
      BY <2>2, <3>1, <3>2, <3>3
  <2>9. CallGood(c)'
    <3>1. /\ k.key.rights = k.rights /\ k.rights \subseteq k.host /\ k.result # "reply"
          /\ k.slot \in 1 .. spawned
      BY <1>1, <2>3, CallerFacts DEF CallGood, Placed
    <3>2. /\ q.key = k.key /\ q.st = "up" /\ q.holder = c /\ Quiet(q) /\ q.sent = 0
      BY <1>1, <2>2, <2>3, <2>5, <2>12
    <3>3. spawned' = spawned
      BY DEF Lock
    <3>4. /\ call'[c] = k /\ k.pc = "held" /\ k.slot = s /\ slot'[k.slot] = q
      BY <2>3, <2>4
    <3> HIDE DEF s
    <3>5. QED
      BY ZenonT(40), <3>1, <3>2, <3>3, <3>4 DEF CallGood, Placed, Holding
  <2>10. Around(c, r, q)
    BY <1>1, <1>3, <2>2 DEF Around
  <2>11. QED
    BY <1>1, <2>1, <2>2, <2>3, <2>8, <2>9, <2>10, OwnSlot, CallersAssumption DEF Lock, Holding
<1>4. QED
  BY <1>2, <1>3 DEF Lock

(* A call that holds a slot and goes on with it.                           *)
LEMMA HeldFacts ==
    ASSUME PeersInv, NEW c \in Callers, call[c].pc \in Holding
    PROVE  /\ Placed(c) /\ call[c].slot \in Slots /\ call[c].slot \in 1 .. spawned
           /\ slot[call[c].slot] \in SlotType /\ Good(slot[call[c].slot])
           /\ slot[call[c].slot].st = "up" /\ slot[call[c].slot].holder = c
           /\ slot[call[c].slot].key = call[c].key
           /\ call[c].key.rights = call[c].rights /\ call[c].rights \subseteq call[c].host
           /\ call[c] \in CallType /\ c # 0
BY CallerFacts, CallersAssumption DEF CallGood, Placed, Holding

(* It ends with a result, of which it has made sure, or goes on.           *)
LEMMA HeldStep ==
    ASSUME PeersInv, NEW c \in Callers, call[c].pc \in Holding,
           NEW q \in SlotType, slot' = [slot EXCEPT ![call[c].slot] = q],
           Good(q), q.key = slot[call[c].slot].key, q.st = "up", q.holder = c,
           NEW k \in CallType, call' = [call EXCEPT ![c] = k],
           k.pc \in {"asking", "grace", "ending"}, k.slot = call[c].slot,
           k.key = call[c].key, k.rights = call[c].rights, k.host = call[c].host,
           k.pc = "ending" => (k.result = "error" /\ (~Lives(q) \/ k.ctx # "live")) \/ Quiet(q),
           k.pc = "grace" => k.ctx = "over",
           k.result = "reply" => k.pc = "ending" /\ Len(k.got) = k.whole /\ \A i \in 1 .. Len(k.got) : k.got[i] = c,
           UNCHANGED <<pool, spawned>>
    PROVE  PeersInv'
<1> DEFINE s == call[c].slot
<1>1. /\ Placed(c) /\ s \in Slots /\ s \in 1 .. spawned /\ slot[s].st = "up" /\ slot[s].holder = c
      /\ slot[s].key = call[c].key
      /\ call[c].key.rights = call[c].rights /\ call[c].rights \subseteq call[c].host
  BY HeldFacts
<1>2. slot'[s] = q /\ call'[c] = k
  BY <1>1 DEF PeersInv, TypeOK
<1>3. k.pc = "ending" => Drops(c)' \/ Quiet(q)
  BY <1>1, <1>2 DEF Drops, Alive, Lives
<1>4. CallGood(c)'
  BY <1>1, <1>2, <1>3 DEF CallGood, Placed, Holding
<1>5. QED
  BY <1>1, <1>4, OwnSlot DEF Around, Holding

LEMMA AskSteps == ASSUME PeersInv, NEW c \in Callers, Ask(c) PROVE PeersInv'
<1> DEFINE s == call[c].slot
           r == slot[s]
<1>1. /\ call[c].pc = "held" /\ call[c].pc \in Holding /\ Quiet(r) /\ r.sent = 0
      /\ call[c] \in CallType /\ call[c].result # "reply"
  BY CallerFacts DEF Ask, CallGood, Holding
<1>2. s \in Slots /\ r \in SlotType /\ Good(r) /\ r.st = "up" /\ r.holder = c /\ c # 0
  BY <1>1, HeldFacts
<1>3. Len(r.text) \in Nat /\ <<>> \in Seq(Callers) /\ 0 \in Nat
  BY <1>2 DEF SlotType
<1>4. ~r.waits
  BY <1>1, <1>2 DEF Good, Shaped, Quiet
<1>5. CASE /\ slot' = [slot EXCEPT ![s].text = <<>>, ![s].pending = "open", ![s].sent = 0,
                                   ![s].work = IF slot[s].proc = "run" THEN c ELSE 0]
           /\ call' = [call EXCEPT ![c].pc = "asking"]
  <2> DEFINE w == IF r.proc = "run" THEN c ELSE 0
             q == [r EXCEPT !.text = <<>>, !.pending = "open", !.sent = 0, !.work = w]
             k == [call[c] EXCEPT !.pc = "asking"]
  <2>1. slot' = [slot EXCEPT ![s] = q] /\ call' = [call EXCEPT ![c] = k]
    BY <1>2, <1>5 DEF PeersInv, TypeOK
  <2>2. w \in Somebody /\ w \in {0, c}
    BY DEF Somebody
  <2> HIDE DEF w
  <2>3. /\ q \in SlotType /\ q.key = r.key /\ q.rights = r.rights /\ q.st = "up" /\ q.holder = c
        /\ q.pipe = <<>> /\ q.text = <<>> /\ q.work = w /\ q.sent = 0 /\ ~q.waits /\ q.pending = "open"
    BY <1>1, <1>2, <1>3, <1>4, <2>2 DEF SlotType, Quiet
  <2>4. /\ k \in CallType /\ k.pc = "asking" /\ k.key = call[c].key /\ k.rights = call[c].rights
        /\ k.host = call[c].host /\ k.slot = s /\ k.result = call[c].result
    BY <1>1 DEF CallType, Labels
  <2> HIDE DEF q, k
  <2>5. Owned(q) /\ Shaped(q) /\ Settled(q)
    BY <1>2, <2>2, <2>3 DEF Owned, Shaped, Settled
  <2>6. Good(q)
    BY <1>2, <2>3, <2>5 DEF Good
  <2>7. QED
    BY <1>1, <2>1, <2>3, <2>4, <2>6, HeldStep DEF Ask
<1>6. CASE /\ call[c].ctx # "live" \/ slot[s].failed \/ slot[s].proc # "run"
           /\ slot' = [slot EXCEPT ![s].text = <<>>]
           /\ Ends(c, "error")
  <2> DEFINE q == [r EXCEPT !.text = <<>>]
             k == [call[c] EXCEPT !.pc = "ending", !.result = "error"]
  <2>1. slot' = [slot EXCEPT ![s] = q] /\ call' = [call EXCEPT ![c] = k]
    BY <1>2, <1>6 DEF PeersInv, TypeOK, Ends
  <2>2. /\ q \in SlotType /\ q.key = r.key /\ q.rights = r.rights /\ q.st = "up" /\ q.holder = c
        /\ q.pipe = <<>> /\ q.text = <<>> /\ q.work = 0 /\ q.sent = r.sent /\ ~q.waits
        /\ q.pending = r.pending /\ q.open = r.open /\ q.failed = r.failed /\ q.proc = r.proc
    BY <1>1, <1>2, <1>3, <1>4 DEF SlotType, Quiet
  <2>3. /\ k \in CallType /\ k.pc = "ending" /\ k.key = call[c].key /\ k.rights = call[c].rights
        /\ k.host = call[c].host /\ k.slot = s /\ k.result = "error"
    BY <1>1 DEF CallType, Labels
  <2> HIDE DEF q, k
  <2>4. Good(q) /\ Quiet(q)
    <3>1. q.sent = 0 /\ Quiet(q)
      BY <1>1, <2>2 DEF Quiet
    <3>2. Owned(q) /\ Shaped(q) /\ Settled(q)
      BY <2>2, <3>1 DEF Owned, Shaped, Settled
    <3>3. QED
      BY <1>2, <2>2, <3>1, <3>2 DEF Good
  <2>5. QED
    BY <1>1, <2>1, <2>2, <2>3, <2>4, HeldStep DEF Ask
<1>7. QED
  BY <1>5, <1>6 DEF Ask

(* Nobody waits for the slot's reply any more.                             *)
LEMMA NothingAsked ==
    ASSUME NEW r \in SlotType, Good(r), r.st = "up", NEW q \in SlotType,
           q.key = r.key /\ q.rights = r.rights /\ q.st = "up" /\ q.holder = r.holder,
           q.pipe = r.pipe /\ q.text = r.text /\ q.work = r.work /\ q.sent = r.sent,
           q.waits = r.waits, q.pending = "none"
    PROVE  Good(q)
<1>1. Owned(q)
  BY DEF Good, Owned, Quiet
<1>2. Shaped(q)
  BY DEF Good, Shaped, Final
<1>3. QED
  BY <1>1, <1>2 DEF Good, Settled

(* The text a call returns is what was read when the reply had come.       *)
LEMMA AnsweredSteps == ASSUME PeersInv, NEW c \in Callers, Answered(c) PROVE PeersInv'
<1> DEFINE s == call[c].slot
           r == slot[s]
           q == [r EXCEPT !.pending = "none"]
<1>1. call[c].pc = "asking" /\ call[c].pc \in Holding /\ call[c] \in CallType /\ call[c].result # "reply"
  BY CallerFacts DEF Answered, CallGood, Holding
<1>2. s \in Slots /\ r \in SlotType /\ Good(r) /\ r.st = "up" /\ r.holder = c /\ c # 0
  BY <1>1, HeldFacts
<1>3. slot' = [slot EXCEPT ![s] = q]
  BY <1>2 DEF Answered, PeersInv, TypeOK
<1>4. /\ q \in SlotType /\ q.key = r.key /\ q.rights = r.rights /\ q.st = "up" /\ q.holder = c
      /\ q.pipe = r.pipe /\ q.text = r.text /\ q.work = r.work /\ q.sent = r.sent /\ q.waits = r.waits
      /\ q.pending = "none" /\ q.open = r.open /\ q.failed = r.failed /\ q.proc = r.proc
  BY <1>2 DEF SlotType
<1> HIDE DEF q
<1>5. Good(q)
  BY <1>2, <1>4, NothingAsked
<1>6. CASE r.pending = "result"
  <2> DEFINE k == [call[c] EXCEPT !.pc = "ending", !.result = "reply", !.got = r.text, !.whole = r.sent]
  <2>1. call' = [call EXCEPT ![c] = k]
    BY <1>6 DEF Answered, PeersInv, TypeOK
  <2>2. r.text \in Seq(Callers) /\ r.sent \in Nat
    BY <1>2 DEF SlotType
  <2>3. /\ k \in CallType /\ k.pc = "ending" /\ k.key = call[c].key /\ k.rights = call[c].rights
        /\ k.host = call[c].host /\ k.slot = s /\ k.result = "reply" /\ k.got = r.text /\ k.whole = r.sent
    BY <1>1, <2>2 DEF CallType, Labels
  <2> HIDE DEF k
  <2>4. Quiet(r) /\ Quiet(q) /\ \A i \in 1 .. Len(r.text) : r.text[i] = c
    BY <1>2, <1>4, <1>6 DEF Good, Settled, Owned, Quiet
  <2>5. Len(r.text) = r.sent
    <3>1. Len(r.text) \in Nat /\ Len(r.pipe) = 0 /\ Len(r.text) + Len(r.pipe) = r.sent
      BY <1>2, <2>2, <2>4 DEF Good, Shaped, Quiet
    <3>2. QED
      BY <3>1
  <2>6. Len(k.got) = k.whole /\ \A i \in 1 .. Len(k.got) : k.got[i] = c
    BY <2>3, <2>4, <2>5
  <2>7. QED
    BY <1>1, <1>3, <1>4, <1>5, <2>1, <2>3, <2>4, <2>6, HeldStep DEF Answered
<1>7. CASE r.pending = "error"
  <2> DEFINE k == [call[c] EXCEPT !.pc = "ending", !.result = "error"]
  <2>1. call' = [call EXCEPT ![c] = k]
    BY <1>7 DEF Answered, Ends, PeersInv, TypeOK
  <2>2. /\ k \in CallType /\ k.pc = "ending" /\ k.key = call[c].key /\ k.rights = call[c].rights
        /\ k.host = call[c].host /\ k.slot = s /\ k.result = "error"
    BY <1>1 DEF CallType, Labels
  <2> HIDE DEF k
  <2>3. ~Lives(q) \/ Quiet(q)
    BY <1>2, <1>4, <1>7 DEF Good, Settled, Lives, Quiet
  <2>4. QED
    BY <1>1, <1>3, <1>4, <1>5, <2>1, <2>2, <2>3, HeldStep DEF Answered
<1>8. QED
  BY <1>6, <1>7 DEF Answered

(* The context ends: whatever comes is not read as an answer any more.     *)
LEMMA GiveSteps == ASSUME PeersInv, NEW c \in Callers, Give(c) PROVE PeersInv'
<1> DEFINE s == call[c].slot
           r == slot[s]
           k == [call[c] EXCEPT !.pc = "grace", !.ctx = "over"]
<1>1. call[c].pc = "asking" /\ call[c].pc \in Holding /\ call[c] \in CallType /\ call[c].result # "reply"
  BY CallerFacts DEF Give, CallGood, Holding
<1>2. s \in Slots /\ r \in SlotType /\ Good(r) /\ r.st = "up" /\ r.holder = c
  BY <1>1, HeldFacts
<1>3. slot' = [slot EXCEPT ![s] = r] /\ call' = [call EXCEPT ![c] = k]
  BY <1>2 DEF Give, PeersInv, TypeOK
<1>4. /\ k \in CallType /\ k.pc = "grace" /\ k.ctx = "over" /\ k.key = call[c].key /\ k.rights = call[c].rights
      /\ k.host = call[c].host /\ k.slot = s /\ k.result = call[c].result
  BY <1>1 DEF CallType, Labels
<1> HIDE DEF k
<1>5. QED
  BY <1>1, <1>2, <1>3, <1>4, HeldStep DEF Give

(* A call gives up; its peer is dead, or the context is over.              *)
LEMMA GivenUp ==
    ASSUME PeersInv, NEW c \in Callers, call[c].pc \in {"asking", "grace"},
           slot' = [slot EXCEPT ![call[c].slot].pending = "none"], Ends(c, "error"),
           call[c].pc = "asking" => slot[call[c].slot].proc = "exited",
           UNCHANGED <<pool, spawned>>
    PROVE  PeersInv'
<1> DEFINE s == call[c].slot
           r == slot[s]
           q == [r EXCEPT !.pending = "none"]
           k == [call[c] EXCEPT !.pc = "ending", !.result = "error"]
<1>1. call[c].pc \in Holding /\ call[c] \in CallType
  BY CallerFacts DEF Holding
<1>2. s \in Slots /\ r \in SlotType /\ Good(r) /\ r.st = "up" /\ r.holder = c /\ c # 0
  BY <1>1, HeldFacts
<1>3. slot' = [slot EXCEPT ![s] = q] /\ call' = [call EXCEPT ![c] = k]
  BY <1>2 DEF Ends, PeersInv, TypeOK
<1>4. /\ q \in SlotType /\ q.key = r.key /\ q.rights = r.rights /\ q.st = "up" /\ q.holder = c
      /\ q.pipe = r.pipe /\ q.text = r.text /\ q.work = r.work /\ q.sent = r.sent /\ q.waits = r.waits
      /\ q.pending = "none" /\ q.open = r.open /\ q.failed = r.failed /\ q.proc = r.proc
  BY <1>2 DEF SlotType
<1>5. /\ k \in CallType /\ k.pc = "ending" /\ k.key = call[c].key /\ k.rights = call[c].rights
      /\ k.host = call[c].host /\ k.slot = s /\ k.result = "error" /\ k.ctx = call[c].ctx
  BY <1>1 DEF CallType, Labels
<1> HIDE DEF q, k
<1>6. Good(q)
  BY <1>2, <1>4, NothingAsked
<1>7. ~Lives(q) \/ k.ctx # "live"
  BY <1>4, <1>5, CallerFacts DEF Lives, CallGood
<1>8. QED
  BY <1>1, <1>3, <1>4, <1>5, <1>6, <1>7, HeldStep

(* The slot is given back: a peer that may still write is closed first.    *)
LEMMA EndSteps == ASSUME PeersInv, NEW c \in Callers, End(c) PROVE PeersInv'
<1> DEFINE s == call[c].slot
           old == slot[s]
           r == [old EXCEPT !.holder = 0, !.pending = "none", !.text = <<>>, !.sent = 0]
           q == IF Drops(c) THEN Close(r) ELSE r
<1>1. call[c].pc = "ending" /\ call[c].pc \in Holding
  BY DEF End, Holding
<1>2. s \in Slots /\ old \in SlotType /\ Good(old) /\ old.st = "up" /\ old.holder = c /\ Placed(c)
  BY <1>1, HeldFacts
<1>3. slot' = [slot EXCEPT ![s] = q] /\ call' = [call EXCEPT ![c] = NoCall] /\ call'[c] = NoCall
  BY DEF End, Returns, PeersInv, TypeOK
<1>4. pool' \subseteq pool /\ UNCHANGED spawned
  BY DEF End
<1>5. /\ r \in SlotType /\ r.key = old.key /\ r.rights = old.rights /\ r.st = "up" /\ r.holder = 0
      /\ r.pipe = old.pipe /\ r.text = <<>> /\ r.work = old.work /\ r.sent = 0 /\ r.waits = old.waits
      /\ r.pending = "none"
  <2>1. <<>> \in Seq(Callers) /\ 0 \in Nat /\ 0 \in Somebody
    BY DEF Somebody
  <2>2. QED
    BY <1>2, <2>1 DEF SlotType
<1>6. CASE Drops(c)
  <2> DEFINE p == IF r.pending = "open" THEN "error" ELSE r.pending
             z == [key |-> r.key, rights |-> r.rights, st |-> r.st, holder |-> r.holder,
                   proc |-> "exited", open |-> FALSE, failed |-> TRUE, pipe |-> <<>>, work |-> 0,
                   sent |-> 0, waits |-> FALSE, text |-> <<>>, pending |-> "none"]
  <2>1. q = Close(r)
    BY <1>6
  <2> HIDE DEF r, q
  <2>2. Close(r) = [r EXCEPT !.open = FALSE, !.proc = "exited", !.failed = TRUE, !.pipe = <<>>,
                             !.work = 0, !.waits = FALSE, !.text = <<>>, !.sent = 0, !.pending = p]
    BY DEF Close
  <2>3. p = "none"
    BY <1>5
  <2> HIDE DEF p
  <2>4. Close(r) = z
    BY <1>5, <2>2, <2>3 DEF SlotType
  <2>5. z \in SlotType
    <3>1. /\ <<>> \in Seq(Callers) /\ <<>> \in Seq(Message)
          /\ r.key \in KeyType /\ r.rights \in SUBSET AllRights /\ r.holder \in Somebody
          /\ r.st \in {"unused", "starting", "up", "gone"} /\ 0 \in Somebody /\ 0 \in Nat
      BY <1>5 DEF SlotType, Somebody
    <3>2. QED
      BY <3>1 DEF SlotType
  <2>6. Good(z)
    <3>1. z.rights = z.key.rights
      BY <1>2, <1>5 DEF Good
    <3>2. Owned(z) /\ Shaped(z) /\ Settled(z)
      BY DEF Owned, Shaped, Settled, Quiet
    <3>3. QED
      BY <1>5, <3>1, <3>2 DEF Good
  <2>7. z.key = old.key /\ z.st = "up" /\ z.holder = 0
    BY <1>5
  <2> HIDE DEF z
  <2>8. QED
    BY <1>1, <1>2, <1>3, <1>4, <2>1, <2>4, <2>5, <2>6, <2>7, IdleIsGood, NoCallIsCall, OwnSlot,
       CallersAssumption DEF Around, Holding
<1>7. CASE ~Drops(c)
  <2>1. q = r
    BY <1>7
  <2> HIDE DEF r, q
  <2>2. old.pipe = <<>> /\ old.work = 0
    BY <1>1, <1>7, CallerFacts DEF CallGood, Quiet
  <2>3. ~old.waits
    BY <1>2, <2>2 DEF Good, Shaped
  <2>4. Owned(r) /\ Shaped(r) /\ Settled(r)
    BY <1>5, <2>2, <2>3 DEF Owned, Shaped, Settled, Quiet
  <2>5. Good(r)
    BY <1>2, <1>5, <2>4 DEF Good
  <2>6. QED
    BY <1>1, <1>2, <1>3, <1>4, <1>5, <2>1, <2>5, IdleIsGood, NoCallIsCall, OwnSlot,
       CallersAssumption DEF Around, Holding
<1>8. QED
  BY <1>6, <1>7

(* What making room closes is held by no one.                              *)
LEMMA Swept ==
    ASSUME PeersInv, NEW c \in Callers, NEW E \in Evictions
    PROVE  /\ pool \subseteq 1 .. spawned
           /\ CloseAllOf(E) \in [Slots -> SlotType]
           /\ \A s \in Slots : /\ Keeps(slot[s], CloseAllOf(E)[s])
                              /\ Around(c, slot[s], CloseAllOf(E)[s])
<1>1. \A s \in E : s \in pool /\ slot[s].holder = 0
  BY DEF Evictions, Evictable
<1>2. \A s \in Slots : slot[s].holder # 0 => CloseAllOf(E)[s] = slot[s]
  BY <1>1 DEF CloseAllOf
<1>3. CloseAllOf(E) \in [Slots -> SlotType] /\ \A s \in Slots : Keeps(slot[s], CloseAllOf(E)[s])
  BY CloseAllKeeps
<1>4. \A s \in Slots : Around(c, slot[s], CloseAllOf(E)[s])
  BY <1>2, <1>3 DEF Around, Keeps
<1>5. QED
  BY <1>3, <1>4 DEF PeersInv, TypeOK

(* A call that finds a slot under its key waits for it or for its mutex.   *)
LEMMA GetFinds ==
    ASSUME PeersInv, NEW c \in Callers, call[c].pc = "get", NEW E \in Evictions,
           NEW s \in pool, slot[s].key = call[c].key,
           NEW l \in {"waiting", "lock"}, l = "lock" => slot[s].st = "up",
           call' = [call EXCEPT ![c].pc = l, ![c].slot = s],
           pool' = pool \ E, slot' = CloseAllOf(E), UNCHANGED spawned
    PROVE  PeersInv'
<1> DEFINE k == [call[c] EXCEPT !.pc = l, !.slot = s]
<1>1. /\ s \in 1 .. spawned /\ s \in Slots /\ s \in 0 .. MaxSpawns /\ 1 .. spawned \subseteq Slots
      /\ call[c] \in CallType /\ CallGood(c)
  BY Swept, CallerFacts, BoundsAreNat DEF Slots
<1>2. call' = [call EXCEPT ![c] = k] /\ call'[c] = k /\ \A d \in Callers \ {c} : call'[d] = call[d]
  BY DEF PeersInv, TypeOK
<1>3. /\ k \in CallType /\ k.pc = l /\ k.slot = s /\ k.key = call[c].key /\ k.rights = call[c].rights
      /\ k.host = call[c].host /\ k.result = call[c].result
  BY <1>1 DEF CallType, Labels
<1> HIDE DEF k
<1>4. /\ slot' \in [Slots -> SlotType]
      /\ \A t \in Slots : Keeps(slot[t], slot'[t]) /\ Around(c, slot[t], slot'[t])
  BY Swept
<1>5. TypeOK' /\ SlotsGood'
  BY <1>2, <1>3, <1>4 DEF PeersInv, TypeOK, SlotsGood, Keeps
<1>6. \A t \in Slots : slot[t].holder # c
  BY CallersAssumption DEF PeersInv, HeldByCall, Holding
<1>7. \A t \in Slots : slot'[t].holder # c /\ slot'[t].st = slot[t].st
  BY <1>4, <1>6 DEF Keeps
<1>8. \A t \in Slots \ (1 .. spawned) : slot'[t].holder = 0
  BY <1>4, CallerFacts DEF Keeps, Good, Empty, Slots
<1>9. CallGood(c)'
  BY <1>1, <1>2, <1>3, <1>4, <1>7 DEF CallGood, Placed, Holding, Keeps
<1>10. call'[c].pc \in {"waiting", "lock"} /\ spawned' = spawned /\ spawned \in Nat
  BY <1>2, <1>3, CallerFacts
<1>11. \A t \in 1 .. spawned : /\ Around(c, slot[t], slot'[t])
                              /\ slot'[t].st = slot[t].st /\ slot'[t].holder # c
  BY <1>1, <1>4, <1>7
<1>12. /\ call'[c].pc = "spawn" /\ call[c].pc # "spawn" => call'[c].slot \notin 1 .. spawned
       /\ call'[c].pc = "spawn" /\ call[c].pc = "spawn" => call'[c].slot = call[c].slot
       /\ spawned' >= spawned
  BY <1>10
<1>13. \A t \in 1 .. spawned :
          /\ slot[t].st = "starting" /\ slot'[t].st # "starting" =>
                call[c].pc = "spawn" /\ call[c].slot = t /\ call'[c].pc # "spawn"
          /\ slot'[t].holder = c => call'[c].slot = t /\ call'[c].pc \in Holding
  BY <1>11
<1>14. QED
  BY <1>2, <1>5, <1>8, <1>9, <1>11, <1>12, <1>13, CallStep

(* A call that finds none reserves the next, with its own key and rights.  *)
LEMMA GetReserves ==
    ASSUME PeersInv, NEW c \in Callers, call[c].pc = "get", NEW E \in Evictions,
           spawned < MaxSpawns, spawned' = spawned + 1,
           call' = [call EXCEPT ![c].pc = "spawn", ![c].slot = spawned'],
           pool' \subseteq pool \cup {spawned'},
           slot' = [CloseAllOf(E) EXCEPT ![spawned'] = Fresh(call[c].key, call[c].rights)]
    PROVE  PeersInv'
<1> DEFINE n == spawned + 1
           f == Fresh(call[c].key, call[c].rights)
           k == [call[c] EXCEPT !.pc = "spawn", !.slot = n]
<1>1. /\ n \in Slots /\ n \in 0 .. MaxSpawns /\ n \notin 1 .. spawned /\ spawned \in Nat
      /\ 1 .. spawned \subseteq Slots /\ 1 .. spawned \subseteq 1 .. n /\ n \in 1 .. n /\ n >= spawned
      /\ \A t \in Slots : t > n => t > spawned
      /\ call[c] \in CallType /\ CallGood(c)
  BY CallerFacts, BoundsAreNat DEF Slots, PeersInv, TypeOK
<1>2. call' = [call EXCEPT ![c] = k] /\ call'[c] = k /\ \A d \in Callers \ {c} : call'[d] = call[d]
  BY DEF PeersInv, TypeOK
<1>3. /\ k \in CallType /\ k.pc = "spawn" /\ k.slot = n /\ k.key = call[c].key
      /\ k.rights = call[c].rights /\ k.host = call[c].host /\ k.result = call[c].result
  BY <1>1 DEF CallType, Labels
<1>4. f \in SlotType /\ Good(f) /\ f.st = "starting" /\ f.key = call[c].key /\ f.holder = 0
  BY <1>1, FreshIsGood DEF CallType, CallGood
<1> HIDE DEF k, f
<1>5. /\ slot' \in [Slots -> SlotType] /\ slot'[n] = f
      /\ \A t \in Slots \ {n} : Keeps(slot[t], slot'[t]) /\ Around(c, slot[t], slot'[t])
  BY <1>1, <1>4, Swept DEF f
<1> HIDE DEF n
<1>6. spawned' = n /\ pool' \subseteq 1 .. n
  BY <1>1, Swept DEF n
<1>7. TypeOK'
  BY <1>1, <1>2, <1>3, <1>5, <1>6 DEF PeersInv, TypeOK
<1>8. SlotsGood'
  <2>1. SUFFICES ASSUME NEW t \in Slots PROVE Good(slot'[t]) /\ (t > n => slot'[t].st = "unused")
    BY <1>6 DEF SlotsGood
  <2>2. CASE t = n
    BY <1>1, <1>4, <1>5, <2>2
  <2>3. CASE t # n
    BY <1>1, <1>5, <2>3 DEF PeersInv, SlotsGood, Keeps
  <2>4. QED
    BY <2>2, <2>3
<1>9. \A t \in Slots : slot[t].holder # c
  BY CallersAssumption DEF PeersInv, HeldByCall, Holding
<1>10. \A t \in 1 .. spawned : /\ t \in Slots \ {n} /\ slot'[t].holder # c
                               /\ slot'[t].st = slot[t].st
  BY <1>1, <1>5, <1>9 DEF Keeps
<1>11. \A t \in Slots \ (1 .. spawned) : slot'[t].holder = 0
  BY <1>1, <1>4, <1>5, CallerFacts DEF Keeps, Good, Empty, Slots
<1>12. CallGood(c)'
  BY <1>1, <1>2, <1>3, <1>4, <1>5, <1>6 DEF CallGood, Placed, Holding
<1>13. QED
  BY ZenonT(40), <1>1, <1>2, <1>3, <1>5, <1>6, <1>7, <1>8, <1>10, <1>11, <1>12, CallStep

LEMMA GetSteps == ASSUME PeersInv, NEW c \in Callers, Get(c) PROVE PeersInv'
<1>1. call[c].pc = "get"
  BY DEF Get
<1>2. PICK E \in Evictions : Get(c)!(E)
  BY DEF Get
<1> DEFINE kept  == pool \ E
           found == {s \in kept : slot[s].key = call[c].key}
<1>3. \A s \in found : s \in pool /\ slot[s].key = call[c].key
  OBVIOUS
<1>4. ASSUME NEW s \in found, slot[s].st = "starting",
             call' = [call EXCEPT ![c].pc = "waiting", ![c].slot = s],
             pool' = kept, slot' = CloseAllOf(E), UNCHANGED spawned
      PROVE  PeersInv'
  BY <1>1, <1>3, <1>4, GetFinds
<1>5. ASSUME NEW s \in found, Alive(s),
             call' = [call EXCEPT ![c].pc = "lock", ![c].slot = s],
             pool' = kept, slot' = CloseAllOf(E), UNCHANGED spawned
      PROVE  PeersInv'
  <2>1. s \in Slots
    BY <1>3, <1>5, Swept, CallerFacts
  <2>2. slot[s].st = "up"
    BY <1>5, <2>1, CallerFacts DEF Alive, Good
  <2>3. QED
    BY <1>1, <1>3, <1>5, <2>2, GetFinds
<1>6. ASSUME spawned < MaxSpawns, spawned' = spawned + 1,
             call' = [call EXCEPT ![c].pc = "spawn", ![c].slot = spawned'],
             pool' = (kept \ found) \cup {spawned'},
             slot' = [CloseAllOf(E) EXCEPT ![spawned'] = Fresh(call[c].key, call[c].rights)]
      PROVE  PeersInv'
  BY <1>1, <1>6, GetReserves
<1>7. QED
  BY <1>2, <1>4, <1>5, <1>6

-----------------------------------------------------------------------------

LEMMA PeersStep == ASSUME PeersInv, [Next]_vars PROVE PeersInv'
<1>1. CASE UNCHANGED vars
  BY <1>1 DEF vars, PeersInv, TypeOK, SlotsGood, CallsGood, CallGood, Placed, Drops, Alive,
     HeldByCall, OneStarter
<1>2. ASSUME NEW c \in Callers, NEW a \in Agents, NEW h \in HostsOf[c], Begin(c, a, h) PROVE PeersInv'
  BY <1>2, BeginSteps
<1>3. ASSUME NEW c \in Callers, Exec(c) PROVE PeersInv'
  <2>1. CASE GraceEnds(c) \/ PeerLost(c)
    BY <2>1, GivenUp DEF GraceEnds, PeerLost
  <2>2. QED
    BY <1>3, <2>1, GetSteps, WaitSteps, StartSteps, StartFailsSteps, LockSteps, AskSteps,
       AnsweredSteps, GiveSteps, EndSteps DEF Exec
<1>4. ASSUME NEW s \in Slots, Reader(s) \/ Peer(s) PROVE PeersInv'
  BY <1>4, ReadSteps, ReadEndsSteps, PeerSteps DEF Reader
<1>5. QED
  BY <1>1, <1>2, <1>3, <1>4, CancelSteps, PoolSteps DEF Next

(* Slots, pipes and calls agree in every reachable state.                  *)
THEOREM PeersAlways == Spec => []PeersInv
<1>1. PeersInv /\ [Next]_vars => PeersInv'
  BY PeersStep
<1>2. QED
  BY <1>1, PeersInit, PTL DEF Spec

-----------------------------------------------------------------------------
(* What follows                                                            *)

(* A peer that works for a call has no right the host of that call lacks,  *)
(* also when it was started for another host (delegate.go, peerKey).       *)
THEOREM PeersWithinHost == Spec => []WithinHost
<1>1. ASSUME PeersInv PROVE WithinHost
  <2>1. SUFFICES ASSUME NEW c \in Callers, call[c].pc \in {"asking", "grace"}
                 PROVE  slot[call[c].slot].rights \subseteq call[c].host
    BY DEF WithinHost
  <2>2. call[c].pc \in Holding
    BY <2>1 DEF Holding
  <2>3. QED
    BY <1>1, <2>2, HeldFacts DEF Good
<1>2. QED
  BY <1>1, PeersAlways, PTL

(* What a call returns as its reply is the text of its own prompt, all of  *)
(* it and nothing else (client.go, Prompt and readLoop).                   *)
THEOREM PeersReplyIsOwn == Spec => []ReplyIsOwn
<1>1. ASSUME PeersInv PROVE ReplyIsOwn
  <2>1. SUFFICES ASSUME NEW c \in Callers, call[c].result = "reply"
                 PROVE  /\ Len(call[c].got) = call[c].whole
                        /\ \A i \in DOMAIN call[c].got : call[c].got[i] = c
    BY DEF ReplyIsOwn
  <2>2. call[c].got \in Seq(Callers) /\ CallGood(c)
    BY <1>1, CallerFacts DEF CallType
  <2>3. DOMAIN call[c].got = 1 .. Len(call[c].got)
    BY <2>2
  <2>4. QED
    BY <2>1, <2>2, <2>3 DEF CallGood
<1>2. QED
  BY <1>1, PeersAlways, PTL

(* Making room never takes the peer of a call that uses it (delegate.go,   *)
(* evictIdleLocked takes the mutex of what it closes).                     *)
THEOREM PeersKeepsInUse == Spec => KeepsPeerInUse
<1> DEFINE Kept ==
      \A s \in Slots :
          (/\ slot[s].holder # 0 /\ Alive(s) /\ ~slot'[s].open)
          => \/ call[slot[s].holder].pc = "ending"
             \/ pool' = {}
<1>1. ASSUME PeersInv, [Next]_vars PROVE [Kept]_vars
  <2>1. SUFFICES ASSUME NEW s \in Slots, slot[s].holder # 0, slot[s].open, ~slot'[s].open, pool' # {}
                 PROVE  call[slot[s].holder].pc = "ending"
    BY DEF Alive
  <2>2. slot \in [Slots -> SlotType]
    BY <1>1 DEF PeersInv, TypeOK
  <2>3. \A E \in Evictions : CloseAllOf(E)[s] = slot[s]
    BY <2>1 DEF Evictions, Evictable, CloseAllOf
  <2>4. CASE UNCHANGED vars
    BY <2>1, <2>4 DEF vars
  <2>5. ASSUME NEW c \in Callers, Exec(c) PROVE call[slot[s].holder].pc = "ending"
    <3>1. CASE Get(c)
      <4>1. PICK E \in Evictions : Get(c)!(E)
        BY <3>1 DEF Get
      <4>2. slot'[s] # slot[s] => spawned' = s /\ spawned' = spawned + 1
        BY <2>1, <2>2, <2>3, <4>1, CloseAllKeeps, <1>1
      <4>3. QED
        BY <1>1, <2>1, <4>2, CallerFacts DEF Good, Slots
    <3>2. CASE End(c)
      <4>1. slot[call[c].slot].holder = c /\ call[c].pc = "ending"
        BY <1>1, <3>2, HeldFacts DEF End, Holding
      <4>2. slot'[s] # slot[s] => s = call[c].slot
        BY <2>2, <3>2 DEF End
      <4>3. QED
        BY <2>1, <4>1, <4>2
    <3>3. slot'[s].open \/ ~(StartPeer(c) \/ StartFails(c) \/ Lock(c) \/ Ask(c))
      <4>1. CASE StartPeer(c)
        BY <2>1, <2>2, <4>1 DEF SlotType, StartPeer
      <4>2. CASE StartFails(c)
        BY <2>1, <2>2, <4>2 DEF SlotType, StartFails, Unreserve
      <4>3. CASE Lock(c)
        BY <2>1, <2>2, <4>3 DEF SlotType, Lock
      <4>4. CASE Ask(c)
        <5> DEFINE r == slot[call[c].slot]
                   w == IF r.proc = "run" THEN c ELSE 0
        <5>1. \/ slot' = [slot EXCEPT ![call[c].slot] =
                     [r EXCEPT !.text = <<>>, !.pending = "open", !.sent = 0, !.work = w]]
              \/ slot' = [slot EXCEPT ![call[c].slot] = [r EXCEPT !.text = <<>>]]
          BY <1>1, <2>2, <4>4, HeldFacts DEF Ask, Holding
        <5> HIDE DEF w
        <5>2. r \in SlotType /\ (s = call[c].slot => r.open)
          BY <1>1, <2>1, <4>4, HeldFacts DEF Ask, Holding
        <5>3. [r EXCEPT !.text = <<>>].open = r.open
          BY <5>2 DEF SlotType
        <5>4. [r EXCEPT !.text = <<>>, !.pending = "open", !.sent = 0, !.work = w].open = r.open
          BY <5>2 DEF SlotType
        <5> HIDE DEF r
        <5>5. QED
          BY <2>1, <2>2, <5>1, <5>2, <5>3, <5>4
      <4>5. QED
        BY <4>1, <4>2, <4>3, <4>4
    <3>6. slot'[s].open \/ ~(Answered(c) \/ GraceEnds(c) \/ PeerLost(c))
      <4>1. CASE Answered(c)
        BY <2>1, <2>2, <4>1 DEF SlotType, Answered
      <4>2. CASE GraceEnds(c)
        BY <2>1, <2>2, <4>2 DEF SlotType, GraceEnds
      <4>3. CASE PeerLost(c)
        BY <2>1, <2>2, <4>3 DEF SlotType, PeerLost
      <4>4. QED
        BY <4>1, <4>2, <4>3
    <3>4. CASE Wait(c) \/ Give(c)
      BY <2>1, <3>4 DEF Wait, Give
    <3>5. QED
      BY <2>1, <2>5, <3>1, <3>2, <3>3, <3>4, <3>6 DEF Exec
  <2>6. ASSUME NEW t \in Slots, Reader(t) \/ Peer(t) PROVE slot'[s].open
    <3>1. CASE Read(t)
      BY <2>1, <2>2, <3>1 DEF SlotType, Read, Respond
    <3>2. CASE ReadEnds(t)
      BY <2>1, <2>2, <3>2 DEF SlotType, ReadEnds
    <3>3. CASE PeerChunk(t)
      BY <2>1, <2>2, <3>3 DEF SlotType, PeerChunk
    <3>6. CASE PeerAsks(t)
      BY <2>1, <2>2, <3>6 DEF SlotType, PeerAsks
    <3>7. CASE PeerExits(t)
      BY <2>1, <2>2, <3>7 DEF SlotType, PeerExits
    <3>4. ASSUME NEW m \in {"result", "error"}, PeerReplies(t, m) PROVE slot'[s].open
      BY <2>1, <2>2, <3>4 DEF SlotType, PeerReplies
    <3>5. QED
      BY <2>6, <3>1, <3>2, <3>3, <3>4, <3>6, <3>7 DEF Reader, Peer
  <2>7. CASE DropPeers \/ CloseAll
    BY <2>1, <2>7 DEF DropPeers, CloseAll
  <2>8. CASE Reap
    BY <2>1, <2>3, <2>8 DEF Reap
  <2>9. QED
    BY <1>1, <2>1, <2>4, <2>5, <2>6, <2>7, <2>8 DEF Next, Begin, Cancel
<1>2. PeersInv /\ [Next]_vars => [Kept]_vars
  BY <1>1
<1>3. QED
  BY <1>2, PeersAlways, PTL DEF Spec, KeepsPeerInUse

(***************************************************************************)
(* mow as the agent of an editor                                           *)
(***************************************************************************)

Talks == {"prompt", "goal"}
Places == {"start", "bound", "forward", "waiting", "running", "tool", "asking", "acting", "ending",
           "ran", "cancelled", "end_turn", "begin", "bind", "queued", "apply", "done"}
InRun == {"running", "tool", "asking", "acting", "ending"}
Live == {"waiting", "ran"} \cup InRun
Answers == {"none", "refused", "full", "ok", "error", "in flight", "busy", "cancelled", "end_turn"}
Grants == {"allow_once", "allow_always", "always", "rule"}
Replies == Grants \cup {"none", "reject", "unsupported"}
Kinds == Talks \cup {"load", "always", "new", "close"}

ReqType ==
    [kind : Kinds, sid : Nat \cup Sids, pc : Places,
     cancelled : BOOLEAN, saved : Nat, streamed : BOOLEAN, calls : Nat, shown : BOOLEAN,
     alone : BOOLEAN, reply : Replies, age : Nat,
     answer : Answers]

AgentTypes ==
    /\ req \in Seq(ReqType)
    /\ queue \in Seq(Nat) /\ closes \in Nat /\ holder \in Nat
    /\ token \in [run : BOOLEAN, of : Nat]
    /\ editor.streams \in BOOLEAN
    /\ cancels = [s \in DOMAIN cancels |-> cancels[s]]

Talking(i) == req[i].kind \in Talks /\ ~A!Answered(i)

(* Where a request of each kind is.                                        *)
InPlace(i) ==
    /\ req[i].pc \in {"bound", "cancelled", "end_turn"} => req[i].kind = "prompt"
    /\ req[i].pc = "forward" => req[i].kind = "goal"
    /\ req[i].pc \in Live \cup {"forward"} => req[i].kind \in Talks
    /\ req[i].pc \in {"begin", "bind", "queued", "apply"} => req[i].kind \notin Talks
    /\ req[i].kind \in Talks => (A!Answered(i) <=> req[i].pc = "done")
    /\ req[i].pc \in InRun => holder = i
    /\ req[i].pc = "acting" => req[i].reply \in Grants
    /\ req[i].saved <= Len(req)

(* While no session was closed a running prompt has its cancel.            *)
Reached(i) ==
    closes = 0 /\ req[i].kind = "prompt" /\ req[i].pc \in Live =>
        req[i].sid \in DOMAIN cancels /\ cancels[req[i].sid] = i

(* A prompt or command that is alone has the token callback to itself.     *)
ByItself(i) ==
    /\ req[i].answer = "in flight" => ~req[i].alone
    /\ req[i].answer = "end_turn" /\ req[i].alone => req[i].shown
    /\ req[i].alone /\ Talking(i) =>
          /\ \A j \in A!Ids : j # i => ~Talking(j)
          /\ req[i].streamed => req[i].shown /\ editor.streams
          /\ req[i].pc = "waiting" => token = A!Forwarder(i)
          /\ req[i].pc \in InRun => token = A!Wrapper(i) /\ req[i].saved = i

(* What a run has taken belongs to a run that goes on.                     *)
Taken ==
    /\ holder # 0 => holder \in A!Ids /\ req[holder].pc \in InRun
    /\ token.of <= Len(req) /\ (token.run => token.of \in A!Ids)
    /\ token # A!NoToken => \E i \in A!Ids : req[i].pc \in Live
    /\ \A i \in forwarders : i \in A!Ids /\ req[i].pc \in Live
    /\ \A s \in DOMAIN cancels :
          /\ cancels[s] \in A!Ids /\ req[cancels[s]].kind = "prompt"
          /\ req[cancels[s]].pc \in Live /\ req[cancels[s]].sid = s
    /\ \A k \in 1..Len(queue) : queue[k] \in A!Ids /\ req[queue[k]].kind = "always"

AgentInv ==
    AgentTypes /\ Taken /\ \A i \in A!Ids : InPlace(i) /\ Reached(i) /\ ByItself(i)
(* The requests are numbered from 1. *)
LEMMA ReqIds == ASSUME NEW s \in Seq(ReqType) PROVE DOMAIN s = 1..Len(s) /\ Len(s) \in Nat
  OBVIOUS

(* What a step makes of its request.                                       *)
Alike(q, r) ==
    /\ q \in ReqType /\ q.kind = r.kind /\ q.sid = r.sid /\ q.alone = r.alone
    /\ q.answer = r.answer /\ q.saved = r.saved /\ q.streamed = r.streamed
    /\ q.shown = r.shown

Goes(r, pc) == [r EXCEPT !.pc = pc]

(* A request that goes to another place is else what it was.               *)
LEMMA ReqGoes ==
    ASSUME NEW r \in ReqType, NEW pc \in Places
    PROVE  Alike(Goes(r, pc), r) /\ Goes(r, pc).pc = pc /\ Goes(r, pc).reply = r.reply
  BY DEF Alike, Goes, ReqType

Asks(r, n) == [r EXCEPT !.pc = "asking", !.age = n]

(* A call that asks the editor.                                            *)
LEMMA ReqAsks ==
    ASSUME NEW r \in ReqType, NEW n \in Nat
    PROVE  Alike(Asks(r, n), r) /\ Asks(r, n).pc = "asking"
  BY DEF Alike, Asks, ReqType, Places

Allowed(r, w) == [r EXCEPT !.pc = "acting", !.reply = w]

(* A call that may act has a grant for it.                                 *)
LEMMA ReqAllowed ==
    ASSUME NEW r \in ReqType, NEW w \in Grants
    PROVE  Alike(Allowed(r, w), r) /\ Allowed(r, w).pc = "acting" /\ Allowed(r, w).reply = w
  BY DEF Alike, Allowed, ReqType, Places, Replies

Tell(r, pc) == [r EXCEPT !.pc = pc, !.reply = "none", !.age = 0]

(* A call goes on without a reply left behind.                             *)
LEMMA ReqTold ==
    ASSUME NEW r \in ReqType, NEW pc \in Places
    PROVE  Alike(Tell(r, pc), r) /\ Tell(r, pc).pc = pc
  BY DEF Alike, Tell, ReqType, Replies

Marked(r) == [r EXCEPT !.streamed = TRUE]

(* A request that has streamed.                                            *)
LEMMA ReqMarked ==
    ASSUME NEW r \in ReqType
    PROVE  LET q == Marked(r)
           IN  /\ q \in ReqType /\ q.pc = r.pc /\ q.streamed = TRUE
               /\ q.kind = r.kind /\ q.sid = r.sid /\ q.alone = r.alone /\ q.answer = r.answer
               /\ q.saved = r.saved /\ q.shown = r.shown /\ q.reply = r.reply
  BY DEF Marked, ReqType

Calls(r, n, b) == [r EXCEPT !.calls = n, !.shown = b]

(* A model call is counted, and its text has reached a callback or not.    *)
LEMMA ReqCalls ==
    ASSUME NEW r \in ReqType, NEW n \in Nat, NEW b \in BOOLEAN
    PROVE  LET q == Calls(r, n, b)
           IN  /\ q \in ReqType /\ q.pc = r.pc /\ q.shown = b /\ q.streamed = r.streamed
               /\ q.kind = r.kind /\ q.sid = r.sid /\ q.alone = r.alone /\ q.answer = r.answer
               /\ q.saved = r.saved /\ q.reply = r.reply
  BY DEF Calls, ReqType

Starts(r, pc, n) == [r EXCEPT !.pc = pc, !.saved = n, !.calls = 0]

(* A run that starts saves the callback it found.                          *)
LEMMA ReqStarts ==
    ASSUME NEW r \in ReqType, NEW n \in Nat, NEW pc \in Places
    PROVE  LET q == Starts(r, pc, n)
           IN  /\ q \in ReqType /\ q.pc = pc /\ q.saved = n
               /\ q.kind = r.kind /\ q.sid = r.sid /\ q.alone = r.alone /\ q.answer = r.answer
               /\ q.streamed = r.streamed /\ q.shown = r.shown /\ q.reply = r.reply
  BY DEF Starts, ReqType

Leaves(r, pc) == [[r EXCEPT !.saved = 0, !.calls = 0] EXCEPT !.pc = pc]

(* A run that is over has nothing saved.                                   *)
LEMMA ReqLeaves ==
    ASSUME NEW r \in ReqType, NEW pc \in Places
    PROVE  LET q == Leaves(r, pc)
           IN  /\ q \in ReqType /\ q.pc = pc /\ q.saved = 0
               /\ q.kind = r.kind /\ q.sid = r.sid /\ q.alone = r.alone /\ q.answer = r.answer
               /\ q.streamed = r.streamed /\ q.shown = r.shown
<1> DEFINE m == [r EXCEPT !.saved = 0, !.calls = 0]
<1>1. /\ m \in ReqType /\ m.saved = 0
      /\ m.kind = r.kind /\ m.sid = r.sid /\ m.alone = r.alone /\ m.answer = r.answer
      /\ m.streamed = r.streamed /\ m.shown = r.shown
  BY DEF ReqType
<1>2. Leaves(r, pc) = Goes(m, pc)
  BY DEF Leaves, Goes
<1> HIDE DEF m
<1>3. QED
  BY <1>1, <1>2, ReqGoes DEF Alike

(* A request as it is read.                                                *)
LEMMA ReqNew ==
    ASSUME NEW k \in Kinds, NEW s \in Nat \cup Sids, NEW pc \in Places
    PROVE  LET q == A!Request(k, s, pc)
           IN  /\ q \in ReqType /\ q.pc = pc /\ q.kind = k /\ q.sid = s /\ q.alone
               /\ q.answer = "none" /\ q.saved = 0 /\ ~q.streamed /\ ~q.shown /\ q.reply = "none"
  BY DEF ReqType, A!Request, Answers, Replies

Done(r, what) ==
    [A!Request(r.kind, 0, "done") EXCEPT !.answer = what, !.alone = r.alone, !.shown = r.shown]

(* An answered request keeps whether it was alone and shown.               *)
LEMMA ReqDone ==
    ASSUME NEW r \in ReqType, NEW what \in Answers
    PROVE  LET q == Done(r, what)
           IN  /\ q \in ReqType /\ q.pc = "done" /\ q.kind = r.kind /\ q.alone = r.alone
               /\ q.answer = what /\ q.saved = 0 /\ q.shown = r.shown
<1> DEFINE n == A!Request(r.kind, 0, "done")
<1>1. /\ r.kind \in Kinds /\ r.alone \in BOOLEAN /\ r.shown \in BOOLEAN
      /\ 0 \in Nat \cup Sids /\ "done" \in Places
  BY DEF ReqType, Places
<1>2. n \in ReqType /\ n.pc = "done" /\ n.kind = r.kind /\ n.saved = 0
  BY <1>1, ReqNew
<1>3. Done(r, what) = [n EXCEPT !.answer = what, !.alone = r.alone, !.shown = r.shown]
  BY DEF Done
<1> HIDE DEF n
<1>4. what \in Answers /\ n \in ReqType
  BY <1>2
<1>5. QED
  BY <1>1, <1>2, <1>3, <1>4, ZenonT(40) DEF ReqType

Shows(r, b) == [r EXCEPT !.shown = b]

(* An answer, after which the text is shown or not.                        *)
LEMMA ReqShows ==
    ASSUME NEW r \in ReqType, NEW b \in BOOLEAN
    PROVE  LET q == Shows(r, b)
           IN  /\ q \in ReqType /\ q.pc = r.pc /\ q.kind = r.kind /\ q.alone = r.alone
               /\ q.answer = r.answer /\ q.saved = r.saved /\ q.shown = b
  BY DEF Shows, ReqType

Past(q, r) ==
    /\ q.kind = r.kind /\ q.sid = r.sid /\ q.pc = r.pc /\ q.saved = r.saved
    /\ q.streamed = r.streamed /\ q.shown = r.shown /\ q.answer = r.answer
    /\ q.alone => r.alone
    /\ r.pc = "acting" => q.reply = r.reply

(* The marks of the read loop.                                             *)
Overlaps(r) == [r EXCEPT !.alone = FALSE]
Stopped(r) == [r EXCEPT !.cancelled = TRUE]
Replied(r, w) == [r EXCEPT !.reply = w]
Told(r, b) == [r EXCEPT !.alone = b]

(* A request that is overlapped or cancelled stays where it is.            *)
LEMMA ReqOverlaps ==
    ASSUME NEW r \in ReqType
    PROVE  /\ Overlaps(r) \in ReqType /\ Past(Overlaps(r), r) /\ ~Overlaps(r).alone
           /\ Stopped(r) \in ReqType /\ Past(Stopped(r), r)
           /\ Past(r, r)
<1>1. Overlaps(r) \in ReqType /\ Past(Overlaps(r), r) /\ ~Overlaps(r).alone
  BY DEF Past, Overlaps, ReqType
<1>2. Stopped(r) \in ReqType /\ Past(Stopped(r), r)
  BY DEF Past, Stopped, ReqType
<1>3. QED
  BY <1>1, <1>2 DEF Past

(* So does one the editor replies to.                                      *)
LEMMA ReqReplied ==
    ASSUME NEW r \in ReqType, r.pc # "acting", NEW w \in Replies
    PROVE  Replied(r, w) \in ReqType /\ Past(Replied(r, w), r)
  BY DEF Past, Replied, ReqType

(* A request that is read is alone or not.                                 *)
LEMMA ReqNewAlone ==
    ASSUME NEW r \in ReqType, NEW b \in BOOLEAN
    PROVE  LET q == Told(r, b)
           IN  /\ q \in ReqType /\ q.alone = b /\ q.kind = r.kind /\ q.pc = r.pc
               /\ q.saved = r.saved /\ q.answer = r.answer /\ q.streamed = r.streamed
  BY DEF Told, ReqType

(* A request that is answered as it is read.                               *)
LEMMA ReqRefused ==
    ASSUME NEW k \in Kinds, NEW what \in Answers
    PROVE  LET q == A!Refused(k, what)
           IN  /\ q \in ReqType /\ q.pc = "done" /\ q.kind = k /\ q.answer = what
               /\ q.saved = 0 /\ ~q.streamed
<1> DEFINE n == A!Request(k, 0, "done")
<1>1. 0 \in Nat \cup Sids /\ "done" \in Places
  BY DEF Places
<1>2. n \in ReqType /\ n.pc = "done" /\ n.kind = k /\ n.saved = 0 /\ ~n.streamed
  BY <1>1, ReqNew
<1>3. A!Refused(k, what) = [n EXCEPT !.answer = what]
  BY DEF A!Refused
<1> HIDE DEF n
<1>4. QED
  BY <1>2, <1>3 DEF ReqType

(* A function on the numbers of a sequence is a sequence as long.          *)
LEMMA SeqMap ==
    ASSUME NEW n \in Nat, NEW s, s = [j \in 1..n |-> s[j]], \A j \in 1..n : s[j] \in ReqType
    PROVE  s \in Seq(ReqType) /\ Len(s) = n
  OBVIOUS

(* A step of one prompt or command leaves the others as they are.          *)
Kept(j) ==
    /\ req'[j].kind = req[j].kind /\ req'[j].sid = req[j].sid /\ req'[j].pc = req[j].pc
    /\ req'[j].saved = req[j].saved /\ req'[j].shown = req[j].shown
    /\ req'[j].alone = req[j].alone /\ req'[j].reply = req[j].reply
    /\ req'[j].answer = req[j].answer

OthersKept(i) ==
    /\ req' \in Seq(ReqType) /\ Len(req') = Len(req)
    /\ \A j \in A!Ids : j # i => Kept(j)
    /\ req'[i].kind = req[i].kind /\ req'[i].alone = req[i].alone
    /\ UNCHANGED <<editor, queue, closes>>

(* What it may do to the engine: take and leave the run, the callback, the *)
(* listener.                                                               *)
EngineTurns(i) ==
    /\ holder' = holder \/ (holder \in {0, i} /\ holder' \in {0, i})
    /\ holder' = i <=> req'[i].pc \in InRun
    /\ token' \in [run : BOOLEAN, of : Nat] /\ token'.of <= Len(req)
    /\ token'.run => token'.of \in A!Ids
    /\ \/ token' = A!NoToken \/ req'[i].pc \in Live
       \/ token' = token /\ req[i].pc \notin Live
    /\ forwarders' \subseteq forwarders \cup {i}
    /\ i \in forwarders' => req'[i].pc \in Live

(* And to the cancels: only to its own.                                    *)
CancelsTurn(i) ==
    /\ cancels' = [s \in DOMAIN cancels' |-> cancels'[s]]
    /\ \A s \in DOMAIN cancels' :
          \/ s \in DOMAIN cancels /\ cancels'[s] = cancels[s] /\ cancels[s] # i
          \/ cancels'[s] = i /\ req'[i].kind = "prompt" /\ req'[i].pc \in Live /\ req'[i].sid = s
    /\ closes = 0 => \A j \in A!Ids : j # i /\ req[j].kind = "prompt" /\ req[j].pc \in Live =>
          req[j].sid \in DOMAIN cancels' /\ cancels'[req[j].sid] = j

(* Where it is afterwards.                                                 *)
Turned(i) ==
    /\ InPlace(i)' /\ Reached(i)'
    /\ req'[i].answer = "in flight" => ~req'[i].alone
    /\ req'[i].answer = "end_turn" /\ req'[i].alone => req'[i].shown
    /\ req'[i].alone /\ Talking(i)' =>
          /\ req'[i].streamed => req'[i].shown /\ editor.streams
          /\ req'[i].pc = "waiting" => token' = A!Forwarder(i)
          /\ req'[i].pc \in InRun => token' = A!Wrapper(i) /\ req'[i].saved = i

(* A prompt or a command takes a step of its own.                          *)
LEMMA TalkStep ==
    ASSUME AgentInv, NEW i \in A!Ids, Talking(i),
           OthersKept(i), EngineTurns(i), CancelsTurn(i), Turned(i)
    PROVE  AgentInv'
<1>1. /\ A!Ids = 1..Len(req) /\ Len(req) \in Nat
      /\ A!Ids' = A!Ids /\ i \in Nat /\ i # 0
  BY ReqIds DEF AgentInv, AgentTypes, OthersKept, A!Ids
<1>2. AgentTypes'
  <2>1. holder' \in Nat
    BY <1>1 DEF AgentInv, AgentTypes, EngineTurns
  <2>2. QED
    BY <2>1 DEF AgentInv, AgentTypes, OthersKept, EngineTurns, CancelsTurn
<1>3. \A j \in A!Ids : j # i => Kept(j)
  BY DEF OthersKept
<1>4. Taken'
  <2>1. holder' # 0 => holder' \in A!Ids /\ req'[holder'].pc \in InRun
    BY <1>3 DEF EngineTurns, AgentInv, Taken, Kept
  <2>2. token'.of <= Len(req) /\ (token'.run => token'.of \in A!Ids)
    BY DEF EngineTurns
  <2>3. ASSUME token' # A!NoToken PROVE \E j \in A!Ids : req'[j].pc \in Live
    <3>1. CASE req'[i].pc \in Live
      BY <3>1
    <3>2. CASE token' = token /\ req[i].pc \notin Live
      <4>1. PICK j \in A!Ids : req[j].pc \in Live
        BY <2>3, <3>2 DEF AgentInv, Taken
      <4>2. QED
        BY <3>2, <4>1, <1>3 DEF Kept
    <3>3. QED
      BY <2>3, <3>1, <3>2 DEF EngineTurns
  <2>4. \A j \in forwarders' : j \in A!Ids /\ req'[j].pc \in Live
    BY <1>3 DEF EngineTurns, AgentInv, Taken, Kept
  <2>5. ASSUME NEW s \in DOMAIN cancels'
        PROVE  /\ cancels'[s] \in A!Ids /\ req'[cancels'[s]].kind = "prompt"
               /\ req'[cancels'[s]].pc \in Live /\ req'[cancels'[s]].sid = s
    <3>1. CASE cancels'[s] = i /\ req'[i].kind = "prompt" /\ req'[i].pc \in Live /\ req'[i].sid = s
      BY <3>1
    <3>2. CASE s \in DOMAIN cancels /\ cancels'[s] = cancels[s] /\ cancels[s] # i
      BY <3>2, <1>3 DEF AgentInv, Taken, Kept
    <3>3. QED
      BY <3>1, <3>2 DEF CancelsTurn
  <2>6. \A k \in 1..Len(queue) : queue[k] \in A!Ids /\ req'[queue[k]].kind = "always"
    BY <1>3 DEF AgentInv, Taken, Kept, OthersKept
  <2>7. queue' = queue /\ Len(req') = Len(req)
    BY DEF OthersKept
  <2>8. QED
    BY <1>1, <2>1, <2>2, <2>3, <2>4, <2>5, <2>6, <2>7 DEF Taken
<1>5. ASSUME NEW j \in A!Ids, j # i PROVE InPlace(j)' /\ Reached(j)' /\ ByItself(j)'
  <2>1. Kept(j) /\ InPlace(j) /\ Reached(j) /\ ByItself(j) /\ closes' = closes /\ Len(req') = Len(req)
    BY <1>3, <1>5 DEF AgentInv, OthersKept
  <2>2. InPlace(j)'
    <3>1. holder = j => holder' = j
      BY <1>1, <1>5 DEF EngineTurns
    <3>2. QED
      BY <2>1, <3>1 DEF InPlace, Kept, A!Answered
  <2>3. Reached(j)'
    BY <1>5, <2>1 DEF Reached, Kept, CancelsTurn
  <2>4. ByItself(j)'
    <3>1. ~(req'[j].alone /\ Talking(j)')
      BY <1>5, <2>1 DEF ByItself, Kept, Talking, A!Answered
    <3>2. QED
      BY <2>1, <3>1 DEF ByItself, Kept
  <2>5. QED
    BY <2>2, <2>3, <2>4
<1>6. InPlace(i)' /\ Reached(i)' /\ ByItself(i)'
  <2>1. req'[i].alone /\ Talking(i)' => \A j \in A!Ids : j # i => ~Talking(j)'
    <3>1. req'[i].alone => \A j \in A!Ids : j # i => ~Talking(j)
      BY DEF AgentInv, ByItself, OthersKept
    <3>2. QED
      BY <3>1, <1>3 DEF Talking, Kept, A!Answered
  <2>2. editor' = editor
    BY DEF OthersKept
  <2>3. QED
    BY <1>1, <2>1, <2>2 DEF Turned, ByItself
<1>7. QED
  BY <1>1, <1>2, <1>4, <1>5, <1>6 DEF AgentInv

(* A step of the read loop, a load or a setting: the prompts and commands  *)
(* there are stay where they are, but are perhaps no longer alone.         *)
Passed(j) == Past(req'[j], req[j])

(* Another request goes on or is answered.                                 *)
Errand(j) ==
    /\ req[j].kind \notin Talks /\ req[j].pc \notin Live
    /\ req'[j].kind = req[j].kind /\ req'[j].pc \in {"bind", "apply", "done"}
    /\ req'[j].saved <= Len(req)
    /\ \/ req'[j].answer \notin {"in flight", "end_turn"}
       \/ /\ req'[j].answer = req[j].answer /\ req'[j].alone = req[j].alone
          /\ req'[j].shown = req[j].shown

(* A new one.                                                              *)
Arrived(j) ==
    /\ req'[j].pc \in {"start", "queued", "begin", "done"} /\ req'[j].saved = 0
    /\ req'[j].answer \notin {"in flight", "end_turn"} /\ ~req'[j].streamed
    /\ req'[j].kind \in Talks =>
          /\ req'[j].pc = "start" /\ req'[j].answer = "none"
          /\ req'[j].alone => \A k \in A!Ids : ~Talking(k)
          /\ \A k \in A!Ids : Talking(k) => ~req'[k].alone

Reads ==
    /\ req' \in Seq(ReqType) /\ Len(req') \in {Len(req), Len(req) + 1}
    /\ \A j \in A!Ids : Passed(j) \/ Errand(j)
    /\ Len(req') = Len(req) + 1 => Arrived(Len(req) + 1)
    /\ UNCHANGED <<editor, token, holder, forwarders>>
    /\ closes' \in Nat /\ (closes' = 0 => closes = 0 /\ cancels' = cancels)
    /\ cancels' = [s \in DOMAIN cancels' |-> cancels'[s]]
    /\ \A s \in DOMAIN cancels' : s \in DOMAIN cancels /\ cancels'[s] = cancels[s]
    /\ queue' \in Seq(Nat)
    /\ \A k \in 1..Len(queue') : queue'[k] \in A!Ids' /\ req'[queue'[k]].kind = "always"

(* A request is read or marked, or an errand goes on.                      *)
LEMMA ReadStep ==
    ASSUME AgentInv, Reads
    PROVE  AgentInv'
<1>1. /\ A!Ids = 1..Len(req) /\ Len(req) \in Nat
      /\ A!Ids' = 1..Len(req') /\ A!Ids \subseteq A!Ids'
      /\ Len(req) <= Len(req') /\ Len(req') \in Nat
      /\ \A j \in A!Ids' : j \in A!Ids \/ (j = Len(req) + 1 /\ Len(req') = Len(req) + 1)
  <2>1. /\ DOMAIN req = 1..Len(req) /\ Len(req) \in Nat
        /\ DOMAIN req' = 1..Len(req') /\ Len(req') \in Nat
    BY ReqIds DEF AgentInv, AgentTypes, Reads
  <2>2. Len(req') \in {Len(req), Len(req) + 1}
    BY DEF Reads
  <2>3. \A m, n \in Nat : (n = m \/ n = m + 1) =>
          /\ m <= n /\ 1..m \subseteq 1..n
          /\ \A j \in 1..n : j \in 1..m \/ (j = m + 1 /\ n = m + 1)
    OBVIOUS
  <2>4. Len(req') = Len(req) \/ Len(req') = Len(req) + 1
    BY <2>2
  <2>5. QED
    BY <2>1, <2>3, <2>4 DEF A!Ids
<1>2. AgentTypes'
  BY DEF AgentInv, AgentTypes, Reads
<1>3. \A j \in A!Ids : Passed(j) \/ Errand(j)
  BY DEF Reads
<1>4. ASSUME NEW j \in A!Ids, req[j].pc \in Live
      PROVE  req'[j].pc = req[j].pc /\ req'[j].kind = req[j].kind /\ req'[j].sid = req[j].sid
  BY <1>3, <1>4 DEF Passed, Past, Errand
<1>5. Taken'
  <2>1. holder # 0 => holder \in A!Ids /\ req'[holder].pc \in InRun
    BY <1>4 DEF AgentInv, Taken, Live
  <2>2. /\ token.of <= Len(req) /\ (token.run => token.of \in A!Ids)
        /\ token.of \in Nat
    BY DEF AgentInv, Taken, AgentTypes
  <2>3. token # A!NoToken => \E j \in A!Ids : req'[j].pc \in Live
    BY <1>4 DEF AgentInv, Taken
  <2>4. \A j \in forwarders : j \in A!Ids /\ req'[j].pc \in Live
    BY <1>4 DEF AgentInv, Taken
  <2>5. ASSUME NEW s \in DOMAIN cancels'
        PROVE  /\ cancels'[s] \in A!Ids /\ req'[cancels'[s]].kind = "prompt"
               /\ req'[cancels'[s]].pc \in Live /\ req'[cancels'[s]].sid = s
    <3>1. s \in DOMAIN cancels /\ cancels'[s] = cancels[s]
      BY DEF Reads
    <3>2. QED
      BY <3>1, <1>4 DEF AgentInv, Taken
  <2>6. \A k \in 1..Len(queue') : queue'[k] \in A!Ids' /\ req'[queue'[k]].kind = "always"
    BY DEF Reads
  <2>7. holder' = holder /\ token' = token /\ forwarders' = forwarders
    BY DEF Reads
  <2>8. token.of <= Len(req')
    BY <1>1, <2>2
  <2>9. QED
    BY <1>1, <2>1, <2>2, <2>3, <2>4, <2>5, <2>6, <2>7, <2>8 DEF Taken
<1>6. ASSUME NEW j \in A!Ids, Passed(j) PROVE InPlace(j)' /\ Reached(j)'
  <2>1. /\ InPlace(j) /\ Reached(j) /\ holder' = holder
        /\ closes' = 0 => closes = 0 /\ cancels' = cancels
    BY DEF AgentInv, Reads
  <2>2. req[j].saved \in Nat
    <3>1. req[j] \in ReqType
      BY <1>1, ElementOfSeq DEF AgentInv, AgentTypes
    <3>2. QED
      BY <3>1 DEF ReqType
  <2>3. req'[j].saved <= Len(req')
    BY <1>1, <1>6, <2>1, <2>2 DEF InPlace, Passed, Past
  <2>4. InPlace(j)'
    BY <1>6, <2>1, <2>3 DEF InPlace, Passed, Past, A!Answered
  <2>5. Reached(j)'
    BY <1>6, <2>1 DEF Reached, Passed, Past
  <2>6. QED
    BY <2>4, <2>5
<1>7. ASSUME NEW j \in A!Ids, Errand(j) PROVE InPlace(j)' /\ Reached(j)' /\ ByItself(j)'
  <2>1. req'[j].saved \in Nat
    <3>1. req'[j] \in ReqType
      BY <1>1, ElementOfSeq DEF Reads
    <3>2. QED
      BY <3>1 DEF ReqType
  <2>2. req'[j].saved <= Len(req')
    <3>1. req'[j].saved <= Len(req)
      BY <1>7 DEF Errand
    <3>2. QED
      BY <3>1, <1>1, <2>1
  <2>3. req'[j].pc \notin Live /\ req'[j].kind \notin Talks /\ req'[j].kind # "prompt"
    BY <1>7 DEF Errand, Live, InRun, Talks
  <2>4. InPlace(j)'
    BY <1>7, <2>2, <2>3 DEF InPlace, Errand, InRun, Live
  <2>5. Reached(j)'
    BY <2>3 DEF Reached
  <2>6. ByItself(j)'
    <3>1. ByItself(j)
      BY DEF AgentInv
    <3>2. QED
      BY <1>7, <2>3, <3>1 DEF ByItself, Errand, Talking
  <2>7. QED
    BY <2>4, <2>5, <2>6
<1>8. ASSUME NEW j \in A!Ids', j \notin A!Ids
      PROVE  InPlace(j)' /\ Reached(j)' /\ ByItself(j)'
  <2>1. Arrived(j) /\ Len(req') = Len(req) + 1 /\ j = Len(req) + 1
    BY <1>1, <1>8 DEF Reads
  <2>2. /\ req'[j].pc \notin Live \cup {"forward", "bound", "cancelled", "end_turn", "acting"}
        /\ req'[j].saved <= Len(req')
    <3>1. 0 <= Len(req')
      BY <1>1
    <3>2. QED
      BY <3>1, <2>1 DEF Arrived, Live, InRun
  <2>3. InPlace(j)'
    BY <2>1, <2>2 DEF InPlace, Arrived, Live, A!Answered, Talks
  <2>4. Reached(j)'
    BY <2>2 DEF Reached
  <2>5. ByItself(j)'
    <3>1. ASSUME req'[j].alone, Talking(j)', NEW k \in A!Ids', k # j PROVE ~Talking(k)'
      <4>1. k \in A!Ids
        BY <1>1, <2>1, <3>1
      <4>2. ~Talking(k)
        BY <2>1, <3>1, <4>1 DEF Arrived, Talking
      <4>3. QED
        BY <4>1, <4>2, <1>3 DEF Talking, Passed, Past, Errand, A!Answered
    <3>2. /\ req'[j].answer \notin {"in flight", "end_turn"} /\ ~req'[j].streamed
          /\ req'[j].pc # "waiting" /\ req'[j].pc \notin InRun
      BY <2>1, <2>2 DEF Arrived, Live
    <3>3. QED
      BY <3>1, <3>2 DEF ByItself
  <2>6. QED
    BY <2>3, <2>4, <2>5
<1>9. ASSUME NEW j \in A!Ids, Passed(j) PROVE ByItself(j)'
  <2>1. ByItself(j) /\ token' = token /\ editor' = editor
    BY DEF AgentInv, Reads
  <2>2. ASSUME req'[j].alone, Talking(j)', NEW k \in A!Ids', k # j PROVE ~Talking(k)'
    <3>1. req[j].alone /\ Talking(j)
      BY <1>9, <2>2 DEF Passed, Past, Talking, A!Answered
    <3>2. CASE k \in A!Ids
      <4>1. ~Talking(k)
        BY <2>1, <2>2, <3>1, <3>2 DEF ByItself
      <4>2. QED
        BY <3>2, <4>1, <1>3 DEF Talking, Passed, Past, Errand, A!Answered
    <3>3. CASE k \notin A!Ids
      <4>1. Arrived(k)
        BY <1>1, <3>3 DEF Reads
      <4>2. QED
        BY <2>2, <3>1, <4>1 DEF Arrived, Talking
    <3>4. QED
      BY <3>2, <3>3
  <2>3. QED
    BY <1>9, <2>1, <2>2 DEF ByItself, Passed, Past, Talking, A!Answered
<1>10. QED
  BY <1>2, <1>3, <1>5, <1>6, <1>7, <1>8, <1>9 DEF AgentInv

(* One request of the sequence is replaced.                                *)
LEMMA ReqPut ==
    ASSUME NEW s \in Seq(ReqType), NEW i \in DOMAIN s, NEW q \in ReqType
    PROVE  LET t == [s EXCEPT ![i] = q]
           IN  /\ t \in Seq(ReqType) /\ Len(t) = Len(s) /\ DOMAIN t = DOMAIN s /\ t[i] = q
               /\ \A j \in DOMAIN s : j # i => t[j] = s[j]
<1>1. DOMAIN s = 1..Len(s)
  BY ReqIds
<1>2. QED
  BY <1>1, ExceptSeq

(* The other requests are kept then.                                       *)
LEMMA Moves ==
    ASSUME AgentInv, NEW i \in A!Ids, NEW q \in ReqType, req' = [req EXCEPT ![i] = q],
           q.kind = req[i].kind, q.alone = req[i].alone, UNCHANGED <<editor, queue, closes>>
    PROVE  OthersKept(i) /\ req'[i] = q
<1>1. /\ req' \in Seq(ReqType) /\ Len(req') = Len(req) /\ req'[i] = q
      /\ \A j \in DOMAIN req : j # i => req'[j] = req[j]
  BY ReqPut DEF AgentInv, AgentTypes, A!Ids
<1>2. QED
  BY <1>1 DEF OthersKept, Kept, A!Ids

(* What the invariant says of one request.                                 *)
LEMMA Of ==
    ASSUME AgentInv, NEW i \in A!Ids
    PROVE  /\ req[i] \in ReqType /\ InPlace(i) /\ Reached(i) /\ ByItself(i)
           /\ i \in Nat /\ i # 0 /\ i <= Len(req) /\ Len(req) \in Nat /\ 0 <= Len(req)
           /\ i \in DOMAIN req
<1>1. A!Ids = 1..Len(req) /\ Len(req) \in Nat /\ A!Ids = DOMAIN req
  BY ReqIds DEF AgentInv, AgentTypes, A!Ids
<1>2. req[i] \in ReqType
  BY <1>1, ElementOfSeq DEF AgentInv, AgentTypes
<1>3. QED
  BY <1>1, <1>2 DEF AgentInv

(* Who is at a place of prompts and commands is one, unanswered.           *)
LEMMA TalksThere ==
    ASSUME AgentInv, NEW i \in A!Ids,
           \/ req[i].pc \in Live \cup {"forward", "bound", "cancelled", "end_turn"}
           \/ req[i].pc = "start" /\ req[i].kind \in Talks
    PROVE  Talking(i)
<1>1. InPlace(i)
  BY Of
<1>2. QED
  BY <1>1 DEF InPlace, Talking, Talks, Live, InRun

(* A step that leaves the engine and the cancels alone.                    *)
LEMMA Calm ==
    ASSUME AgentInv, NEW i \in A!Ids, UNCHANGED <<token, holder, forwarders, cancels, closes>>,
           req[i].pc \in Live <=> req'[i].pc \in Live,
           req[i].pc \in InRun <=> req'[i].pc \in InRun,
           req[i].pc \in Live => req'[i].sid = req[i].sid,
           req'[i].kind = req[i].kind
    PROVE  EngineTurns(i) /\ CancelsTurn(i) /\ Reached(i)'
<1>1. InPlace(i) /\ Reached(i)
  BY Of
<1>2. EngineTurns(i)
  BY <1>1 DEF EngineTurns, AgentInv, AgentTypes, Taken, InPlace, A!Ids
<1>3. CancelsTurn(i)
  BY DEF CancelsTurn, AgentInv, AgentTypes, Taken, Reached
<1>4. Reached(i)'
  BY <1>1 DEF Reached
<1>5. QED
  BY <1>2, <1>3, <1>4

(* A step inside a run.                                                    *)
LEMMA RunGoes ==
    ASSUME AgentInv, NEW i \in A!Ids, req[i].pc \in InRun, NEW q, Alike(q, req[i]),
           req' = [req EXCEPT ![i] = q], q.pc \in InRun, q.pc = "acting" => q.reply \in Grants,
           UNCHANGED <<editor, queue, closes, token, holder, forwarders, cancels>>
    PROVE  AgentInv'
<1>1. OthersKept(i) /\ req'[i] = q
  BY Moves DEF Alike
<1>2. Talking(i)
  BY TalksThere DEF Live
<1>3. EngineTurns(i) /\ CancelsTurn(i) /\ Reached(i)'
  BY <1>1, Calm DEF Live, Alike
<1>4. InPlace(i) /\ ByItself(i)
  BY Of
<1>5. InPlace(i)'
  BY <1>1, <1>4 DEF InPlace, InRun, Live, OthersKept, A!Answered, Alike
<1>6. Turned(i)
  BY <1>1, <1>2, <1>3, <1>4, <1>5 DEF Turned, ByItself, Talking, A!Answered, InRun, Alike
<1>7. QED
  BY <1>1, <1>2, <1>3, <1>6, TalkStep

(* A power tool has a grant or asks.                                       *)
LEMMA PreToolStep ==
    ASSUME AgentInv, NEW i \in A!Ids, A!PreTool(i) PROVE AgentInv'
<1>1. /\ req[i].pc = "tool" /\ req[i].pc \in InRun /\ req[i] \in ReqType /\ closes \in Nat
      /\ i \in DOMAIN req
  BY Of DEF A!PreTool, A!At, InRun, AgentInv, AgentTypes
<1>2. UNCHANGED <<editor, queue, closes, token, holder, forwarders, cancels>>
  BY DEF A!PreTool, A!serveVars, A!agentVars, A!engineVars
<1>3. \/ req' = [req EXCEPT ![i] = Allowed(req[i], "always")]
      \/ req' = [req EXCEPT ![i] = Allowed(req[i], "rule")]
      \/ req' = [req EXCEPT ![i] = Asks(req[i], closes)]
  BY <1>1 DEF A!PreTool, Allowed, Asks
<1>4. "always" \in Grants /\ "rule" \in Grants /\ "acting" \in InRun /\ "asking" \in InRun
  BY DEF Grants, InRun
<1>5. CASE req' = [req EXCEPT ![i] = Allowed(req[i], "always")]
  <2>1. /\ Alike(Allowed(req[i], "always"), req[i]) /\ Allowed(req[i], "always").pc = "acting"
        /\ Allowed(req[i], "always").reply = "always"
    BY <1>1, <1>4, ReqAllowed
  <2>2. QED
    BY <1>1, <1>2, <1>4, <1>5, <2>1, RunGoes
<1>6. CASE req' = [req EXCEPT ![i] = Allowed(req[i], "rule")]
  <2>1. /\ Alike(Allowed(req[i], "rule"), req[i]) /\ Allowed(req[i], "rule").pc = "acting"
        /\ Allowed(req[i], "rule").reply = "rule"
    BY <1>1, <1>4, ReqAllowed
  <2>2. QED
    BY <1>1, <1>2, <1>4, <1>6, <2>1, RunGoes
<1>7. CASE req' = [req EXCEPT ![i] = Asks(req[i], closes)]
  BY <1>1, <1>2, <1>4, <1>7, ReqAsks, RunGoes
<1>8. QED
  BY <1>3, <1>5, <1>6, <1>7

(* A run goes on without a grant.                                          *)
LEMMA RunTold ==
    ASSUME AgentInv, NEW i \in A!Ids, req[i].pc \in InRun, NEW pc \in InRun, pc # "acting",
           req' = [req EXCEPT ![i] = Tell(req[i], pc)] \/ req' = [req EXCEPT ![i] = Goes(req[i], pc)],
           UNCHANGED <<editor, queue, closes, token, holder, forwarders, cancels>>
    PROVE  AgentInv'
<1>1. req[i] \in ReqType /\ pc \in Places
  BY Of DEF InRun, Places
<1>2. CASE req' = [req EXCEPT ![i] = Tell(req[i], pc)]
  <2>1. /\ Alike(Tell(req[i], pc), req[i]) /\ Tell(req[i], pc).pc = pc
    BY <1>1, ReqTold
  <2>2. QED
    BY <1>1, <1>2, <2>1, RunGoes
<1>3. CASE req' = [req EXCEPT ![i] = Goes(req[i], pc)]
  <2>1. /\ Alike(Goes(req[i], pc), req[i]) /\ Goes(req[i], pc).pc = pc
    BY <1>1, ReqGoes
  <2>2. QED
    BY <1>1, <1>3, <2>1, RunGoes
<1>4. QED
  BY <1>2, <1>3

(* The editor has replied.                                                 *)
LEMMA DecideStep ==
    ASSUME AgentInv, NEW i \in A!Ids, A!Decide(i) PROVE AgentInv'
<1>1. req[i].pc = "asking" /\ req[i].pc \in InRun /\ req[i] \in ReqType /\ i \in DOMAIN req
  BY Of DEF A!Decide, A!At, InRun
<1>2. UNCHANGED <<editor, queue, closes, token, holder, forwarders, cancels>>
  BY DEF A!Decide, A!serveVars, A!engineVars
<1>3. CASE A!Allows(req[i].reply)
  <2>1. req[i].reply \in Grants /\ "acting" \in InRun /\ "acting" \in Places
    BY <1>3 DEF A!Allows, Grants, InRun, Places
  <2>2. req' = [req EXCEPT ![i] = Goes(req[i], "acting")]
    BY <1>1, <1>3 DEF A!Decide, A!Goto, Goes
  <2>3. /\ Alike(Goes(req[i], "acting"), req[i]) /\ Goes(req[i], "acting").pc = "acting"
        /\ Goes(req[i], "acting").reply = req[i].reply
    BY <1>1, <2>1, ReqGoes
  <2>4. QED
    BY <1>1, <1>2, <2>1, <2>2, <2>3, RunGoes
<1>4. CASE ~A!Allows(req[i].reply)
  <2>1. req' = [req EXCEPT ![i] = Tell(req[i], "running")] /\ "running" \in InRun
    BY <1>1, <1>4 DEF A!Decide, A!Told, Tell, InRun
  <2>2. QED
    BY <1>1, <1>2, <2>1, RunTold
<1>5. QED
  BY <1>3, <1>4

(* The run is cancelled, or its tool has acted.                            *)
LEMMA InRunSteps ==
    ASSUME AgentInv, NEW i \in A!Ids, A!AskCancelled(i) \/ A!Act(i) \/ A!RunCancelled(i)
    PROVE  AgentInv'
<1>1. /\ req[i].pc \in InRun /\ i \in DOMAIN req
      /\ "running" \in InRun /\ "ending" \in InRun
  BY Of DEF A!AskCancelled, A!Act, A!RunCancelled, A!At, InRun
<1>2. UNCHANGED <<editor, queue, closes, token, holder, forwarders, cancels>>
  BY DEF A!AskCancelled, A!Act, A!RunCancelled, A!serveVars, A!agentVars, A!engineVars
<1>3. \/ req' = [req EXCEPT ![i] = Tell(req[i], "ending")]
      \/ req' = [req EXCEPT ![i] = Tell(req[i], "running")]
      \/ req' = [req EXCEPT ![i] = Goes(req[i], "ending")]
  BY <1>1 DEF A!AskCancelled, A!Act, A!RunCancelled, A!Told, A!Goto, Tell, Goes
<1>4. QED
  BY <1>1, <1>2, <1>3, RunTold

(* A prompt or command outside its run: it goes on or is answered.         *)
LEMMA OffGoes ==
    ASSUME AgentInv, NEW i \in A!Ids, Talking(i), req[i].pc \notin Live, NEW q,
           req' = [req EXCEPT ![i] = q],
           Alike(q, req[i]), q.pc \in {"bound", "forward"}, q.pc = "bound" => q.kind = "prompt",
           q.pc = "forward" => q.kind = "goal",
           UNCHANGED <<editor, queue, closes, token, holder, forwarders, cancels>>
    PROVE  AgentInv'
<1>1. OthersKept(i) /\ req'[i] = q
  BY Moves DEF Alike
<1>2. q.pc \notin Live /\ q.pc \notin InRun /\ req[i].pc \notin InRun
  BY DEF Live, InRun
<1>3. EngineTurns(i) /\ CancelsTurn(i) /\ Reached(i)'
  BY <1>1, <1>2, Calm DEF Alike
<1>4. InPlace(i) /\ ByItself(i) /\ Len(req') = Len(req)
  BY <1>1, Of DEF OthersKept
<1>5. req[i].kind \in Talks /\ ~A!Answered(i)
  BY DEF Talking
<1>6. InPlace(i)'
  BY <1>1, <1>2, <1>4, <1>5 DEF InPlace, A!Answered, Alike
<1>7. Turned(i)
  BY <1>1, <1>2, <1>3, <1>4, <1>5, <1>6 DEF Turned, ByItself, Talking, A!Answered, Alike
<1>8. QED
  BY <1>1, <1>3, <1>7, TalkStep

(* Outside its run one is answered.                                        *)
LEMMA OffEnds ==
    ASSUME AgentInv, NEW i \in A!Ids, Talking(i), req[i].pc \notin Live, NEW q \in ReqType,
           req' = [req EXCEPT ![i] = q], q.kind = req[i].kind, q.alone = req[i].alone,
           q.pc = "done", q.saved = 0, q.answer # "none",
           q.answer = "in flight" => ~q.alone, q.answer = "end_turn" /\ q.alone => q.shown,
           UNCHANGED <<editor, queue, closes, token, holder, forwarders, cancels>>
    PROVE  AgentInv'
<1>1. OthersKept(i) /\ req'[i] = q
  BY Moves
<1>2. q.pc \notin Live /\ q.pc \notin InRun /\ req[i].pc \notin InRun
  BY DEF Live, InRun
<1>3. EngineTurns(i) /\ CancelsTurn(i) /\ Reached(i)'
  BY <1>1, <1>2, Calm
<1>4. 0 <= Len(req) /\ Len(req') = Len(req)
  BY <1>1, Of DEF OthersKept
<1>5. InPlace(i)'
  BY <1>1, <1>2, <1>4 DEF InPlace, A!Answered
<1>6. Turned(i)
  BY <1>1, <1>2, <1>3, <1>5 DEF Turned, Talking, A!Answered
<1>7. QED
  BY <1>1, <1>3, <1>6, TalkStep

(* A prompt finds its session bound, a command no run, or is refused.      *)
LEMMA CheckSteps ==
    ASSUME AgentInv, NEW i \in A!Ids, A!PromptCheck(i) \/ A!GoalCheck(i)
    PROVE  AgentInv'
<1>1. /\ req[i].pc = "start" /\ req[i].kind \in Talks /\ i \in DOMAIN req /\ req[i] \in ReqType
      /\ req[i].pc \notin Live
  BY Of DEF A!PromptCheck, A!GoalCheck, A!At, Talks, Live, InRun
<1>2. Talking(i)
  BY <1>1, TalksThere
<1>3. UNCHANGED <<editor, queue, closes, token, holder, forwarders, cancels>>
  BY DEF A!PromptCheck, A!GoalCheck, A!serveVars, A!agentVars, A!engineVars
<1>4. \/ req' = [req EXCEPT ![i] = Goes(req[i], "bound")] /\ req[i].kind = "prompt"
      \/ req' = [req EXCEPT ![i] = Goes(req[i], "forward")] /\ req[i].kind = "goal"
      \/ req' = [req EXCEPT ![i] = Done(req[i], "refused")]
      \/ req' = [req EXCEPT ![i] = Done(req[i], "busy")]
  BY <1>1 DEF A!PromptCheck, A!GoalCheck, A!Goto, A!Reply, Goes, Done
<1>5. ASSUME NEW pc \in {"bound", "forward"}, req' = [req EXCEPT ![i] = Goes(req[i], pc)],
             pc = "bound" => req[i].kind = "prompt", pc = "forward" => req[i].kind = "goal"
      PROVE  AgentInv'
  <2>1. Alike(Goes(req[i], pc), req[i]) /\ Goes(req[i], pc).pc = pc
    BY <1>1, <1>5, ReqGoes DEF Places
  <2>2. QED
    BY <1>1, <1>2, <1>3, <1>5, <2>1, OffGoes DEF Alike
<1>6. ASSUME NEW what \in {"refused", "busy"}, req' = [req EXCEPT ![i] = Done(req[i], what)]
      PROVE  AgentInv'
  <2>1. what \in Answers /\ what \notin {"none", "in flight", "end_turn"}
    BY <1>6 DEF Answers
  <2>2. LET q == Done(req[i], what)
        IN  /\ q \in ReqType /\ q.pc = "done" /\ q.kind = req[i].kind /\ q.alone = req[i].alone
            /\ q.answer = what /\ q.saved = 0
    BY <1>1, <2>1, ReqDone
  <2>3. QED
    BY <1>1, <1>2, <1>3, <1>6, <2>1, <2>2, OffEnds
<1>7. QED
  BY <1>4, <1>5, <1>6

(* The final answer of a prompt.                                           *)
LEMMA RespondStep ==
    ASSUME AgentInv, NEW i \in A!Ids, A!Respond(i) PROVE AgentInv'
<1> DEFINE what == req[i].pc
           d == Done(req[i], what)
           b == what = "end_turn" /\ A!Shown(i)
<1>1. /\ what \in {"cancelled", "end_turn"} /\ i \in DOMAIN req /\ req[i] \in ReqType
      /\ req[i].pc \notin Live /\ ByItself(i) /\ req \in Seq(ReqType)
  BY Of DEF A!Respond, Live, InRun, AgentInv, AgentTypes
<1>2. Talking(i)
  BY <1>1, TalksThere
<1>3. UNCHANGED <<editor, queue, closes, token, holder, forwarders, cancels>>
  BY DEF A!Respond, A!serveVars, A!agentVars, A!engineVars
<1>4. what \in Answers /\ what \notin {"none", "in flight"}
  BY <1>1 DEF Answers
<1>5. /\ d \in ReqType /\ d.pc = "done" /\ d.kind = req[i].kind /\ d.alone = req[i].alone
      /\ d.answer = what /\ d.saved = 0
  BY <1>1, <1>4, ReqDone
<1>6. A!Reply(i, what) = [req EXCEPT ![i] = d]
  BY DEF A!Reply, Done
<1>7. req' = [[req EXCEPT ![i] = d] EXCEPT ![i].shown = b]
  BY <1>6 DEF A!Respond, A!Answer
<1> HIDE DEF d, b
<1>8. req' = [req EXCEPT ![i] = Shows(d, b)]
  BY <1>1, <1>7 DEF Shows
<1>9. b \in BOOLEAN
  BY DEF b
<1>10. LET q == Shows(d, b)
       IN  /\ q \in ReqType /\ q.pc = "done" /\ q.kind = req[i].kind /\ q.alone = req[i].alone
           /\ q.answer = what /\ q.saved = 0 /\ q.shown = b
  BY <1>5, <1>9, ReqShows
<1>11. what = "end_turn" /\ req[i].alone => b
  <2>1. req[i].shown \in BOOLEAN /\ req[i].streamed \in BOOLEAN
    BY <1>1 DEF ReqType
  <2>2. QED
    BY <1>1, <1>2, <2>1 DEF ByItself, A!Shown, b
<1> HIDE DEF what
<1>12. QED
  BY <1>1, <1>2, <1>3, <1>4, <1>8, <1>10, <1>11, OffEnds

(* The callback and the listener are taken, outside a run.                 *)
LEMMA ForwardStarts ==
    ASSUME AgentInv, NEW i \in A!Ids, Talking(i), req[i].pc \notin Live,
           A!StartForward(i), CancelsTurn(i),
           closes = 0 /\ req[i].kind = "prompt" =>
               req[i].sid \in DOMAIN cancels' /\ cancels'[req[i].sid] = i,
           UNCHANGED <<editor, queue, closes, holder>>
    PROVE  AgentInv'
<1> DEFINE q == Goes(req[i], "waiting")
<1>1. /\ InPlace(i) /\ ByItself(i) /\ req[i] \in ReqType /\ i \in DOMAIN req
      /\ Len(req) \in Nat /\ i <= Len(req) /\ i \in Nat
  BY Of
<1>2. Alike(q, req[i]) /\ q.pc = "waiting"
  BY <1>1, ReqGoes DEF Places
<1>3. req' = [req EXCEPT ![i] = q] /\ token' = A!Forwarder(i) /\ forwarders' = forwarders \cup {i}
  BY <1>1 DEF A!StartForward, A!Goto, Goes
<1> HIDE DEF q
<1>4. OthersKept(i) /\ req'[i] = q
  BY <1>2, <1>3, Moves DEF Alike
<1>5. "waiting" \in Live /\ "waiting" \notin InRun /\ req[i].pc \notin InRun
  BY DEF Live, InRun
<1>6. holder # i
  BY <1>1, <1>5 DEF AgentInv, Taken
<1>7. EngineTurns(i)
  BY <1>1, <1>2, <1>3, <1>4, <1>5, <1>6 DEF EngineTurns, A!Forwarder
<1>8. req[i].kind \in Talks /\ ~A!Answered(i)
  BY DEF Talking
<1>9. InPlace(i)'
  <2>1. Len(req') = Len(req)
    BY <1>4 DEF OthersKept
  <2>2. QED
    BY <1>1, <1>2, <1>4, <1>5, <1>8, <2>1 DEF InPlace, A!Answered, Alike
<1>10. Reached(i)'
  BY <1>2, <1>4 DEF Reached, Alike
<1>11. Turned(i)
  BY <1>1, <1>2, <1>3, <1>4, <1>5, <1>8, <1>9, <1>10
  DEF Turned, ByItself, Talking, A!Answered, Alike
<1>12. QED
  BY <1>4, <1>7, <1>11, TalkStep

(* A command takes the callback and a listener.                            *)
LEMMA GoalForwardStep ==
    ASSUME AgentInv, NEW i \in A!Ids, A!GoalForward(i) PROVE AgentInv'
<1>1. req[i].pc = "forward" /\ req[i].pc \notin Live /\ req[i].pc \notin InRun
  BY DEF A!GoalForward, A!At, Live, InRun
<1>2. A!StartForward(i) /\ UNCHANGED <<editor, queue, closes, holder, cancels>>
  BY DEF A!GoalForward, A!serveVars, A!agentVars
<1>3. Talking(i)
  BY <1>1, TalksThere
<1>4. req[i].kind = "goal"
  BY <1>1, Of DEF InPlace
<1>5. CancelsTurn(i)
  BY <1>2, <1>4 DEF CancelsTurn, AgentInv, AgentTypes, Taken, Reached
<1>6. QED
  BY <1>1, <1>2, <1>3, <1>4, <1>5, ForwardStarts

(* Who leaves the cancels alone is still within their reach.               *)
LEMMA CancelsStay ==
    ASSUME AgentInv, NEW i \in A!Ids, UNCHANGED <<cancels, closes>>,
           req[i].pc \in Live => req'[i].pc \in Live /\ req'[i].sid = req[i].sid,
           req'[i].kind = req[i].kind,
           req[i].kind = "prompt" /\ req'[i].pc \in Live => req[i].pc \in Live
    PROVE  CancelsTurn(i) /\ Reached(i)'
<1>1. InPlace(i) /\ Reached(i)
  BY Of
<1>2. CancelsTurn(i)
  BY DEF CancelsTurn, AgentInv, AgentTypes, Taken, Reached
<1>3. Reached(i)'
  BY <1>1 DEF Reached
<1>4. QED
  BY <1>2, <1>3

(* A prompt registers its cancel, or finds its session busy.               *)
LEMMA RegisterStep ==
    ASSUME AgentInv, NEW i \in A!Ids, A!Register(i) PROVE AgentInv'
<1>1. /\ req[i].pc = "bound" /\ req[i].pc \notin Live /\ i \in DOMAIN req /\ req[i] \in ReqType
      /\ InPlace(i) /\ ByItself(i)
  BY Of DEF A!Register, A!At, Live, InRun
<1>2. Talking(i) /\ req[i].kind = "prompt"
  BY <1>1, TalksThere DEF InPlace
<1>3. UNCHANGED <<editor, queue, closes, holder>>
  BY DEF A!Register, A!serveVars
<1>4. CASE req[i].sid \in DOMAIN cancels
  <2>1. req' = [req EXCEPT ![i] = Done(req[i], "in flight")] /\ UNCHANGED <<cancels, token, forwarders>>
    BY <1>1, <1>4 DEF A!Register, A!Reply, Done
  <2>2. ~req[i].alone
    <3>1. /\ cancels[req[i].sid] \in A!Ids /\ cancels[req[i].sid] # i
          /\ req[cancels[req[i].sid]].pc \in Live
      BY <1>1, <1>4 DEF AgentInv, Taken
    <3>2. Talking(cancels[req[i].sid])
      BY <3>1, TalksThere
    <3>3. QED
      BY <1>1, <1>2, <3>1, <3>2 DEF ByItself
  <2>3. LET q == Done(req[i], "in flight")
        IN  /\ q \in ReqType /\ q.pc = "done" /\ q.kind = req[i].kind /\ q.alone = req[i].alone
            /\ q.answer = "in flight" /\ q.saved = 0
    BY <1>1, ReqDone DEF Answers
  <2>4. QED
    BY <1>1, <1>2, <1>3, <2>1, <2>2, <2>3, OffEnds
<1>5. CASE req[i].sid \notin DOMAIN cancels
  <2>1. A!StartForward(i) /\ cancels' = A!With(cancels, req[i].sid, i)
    BY <1>5 DEF A!Register
  <2>2. Alike(Goes(req[i], "waiting"), req[i]) /\ Goes(req[i], "waiting").pc = "waiting"
    BY <1>1, ReqGoes DEF Places
  <2>3. req' = [req EXCEPT ![i] = Goes(req[i], "waiting")]
    BY <1>1, <2>1 DEF A!StartForward, A!Goto, Goes
  <2>4. req'[i].kind = "prompt" /\ req'[i].pc \in Live /\ req'[i].sid = req[i].sid
    BY <1>1, <1>2, <2>2, <2>3 DEF Alike, Live
  <2>5. CancelsTurn(i) /\ req[i].sid \in DOMAIN cancels' /\ cancels'[req[i].sid] = i
    BY <1>1, <1>5, <2>1, <2>4 DEF CancelsTurn, A!With, AgentInv, AgentTypes, Taken, Reached
  <2>6. QED
    BY <1>1, <1>2, <1>3, <2>1, <2>5, ForwardStarts
<1>6. QED
  BY <1>4, <1>5

(* A wait for the engine is given up.                                      *)
LEMMA WaitEnds ==
    ASSUME AgentInv, NEW i \in A!Ids, req[i].pc = "waiting",
           req' = [req EXCEPT ![i] = Goes(req[i], "ran")],
           UNCHANGED <<editor, queue, closes, token, holder, forwarders, cancels>>
    PROVE  AgentInv'
<1>1. Alike(Goes(req[i], "ran"), req[i]) /\ Goes(req[i], "ran").pc = "ran"
  BY Of, ReqGoes DEF Places
<1>2. /\ OthersKept(i) /\ req'[i] = Goes(req[i], "ran")
  BY <1>1, Moves DEF Alike
<1>3. /\ "waiting" \in Live /\ "ran" \in Live /\ "waiting" \notin InRun /\ "ran" \notin InRun
  BY DEF Live, InRun
<1>4. Talking(i)
  BY <1>3, TalksThere
<1>5. EngineTurns(i) /\ CancelsTurn(i) /\ Reached(i)'
  BY <1>1, <1>2, <1>3, Calm DEF Alike
<1>6. InPlace(i) /\ ByItself(i) /\ Len(req') = Len(req)
  BY <1>2, Of DEF OthersKept
<1>7. InPlace(i)'
  BY <1>1, <1>2, <1>3, <1>6 DEF InPlace, A!Answered, Alike
<1>8. Turned(i)
  BY <1>1, <1>2, <1>3, <1>4, <1>5, <1>6, <1>7
  DEF Turned, ByItself, Talking, A!Answered, Alike
<1>9. QED
  BY <1>2, <1>4, <1>5, <1>8, TalkStep

(* A command that does not get as far as its run.                          *)
LEMMA GoalEndsEarlyStep ==
    ASSUME AgentInv, NEW i \in A!Ids, A!GoalEndsEarly(i) PROVE AgentInv'
<1>1. req[i].pc = "waiting" /\ req' = [req EXCEPT ![i] = Goes(req[i], "ran")]
  BY Of DEF A!GoalEndsEarly, A!At, A!Goto, Goes
<1>2. UNCHANGED <<editor, queue, closes, token, holder, forwarders, cancels>>
  BY DEF A!GoalEndsEarly, A!serveVars, A!agentVars, A!engineVars
<1>3. QED
  BY <1>1, <1>2, WaitEnds

(* A run takes the engine and the callback.                                *)
LEMMA RunStartStep ==
    ASSUME AgentInv, NEW i \in A!Ids, A!RunStart(i) PROVE AgentInv'
<1>1. /\ req[i].pc = "waiting" /\ i \in DOMAIN req /\ req[i] \in ReqType
      /\ InPlace(i) /\ ByItself(i) /\ i \in Nat /\ i # 0 /\ i <= Len(req)
  BY Of DEF A!RunStart, A!At
<1>2. UNCHANGED <<editor, queue, closes, forwarders, cancels>>
  BY DEF A!RunStart, A!serveVars, A!agentVars
<1>3. CASE A!Cancelled(i)
  <2>1. req' = [req EXCEPT ![i] = Goes(req[i], "ran")] /\ UNCHANGED <<token, holder>>
    BY <1>1, <1>3 DEF A!RunStart, A!Goto, Goes
  <2>2. QED
    BY <1>1, <1>2, <2>1, WaitEnds
<1>4. CASE ~A!Cancelled(i)
  <2> DEFINE q == Starts(req[i], "running", token.of)
  <2>1. /\ holder = 0 /\ holder' = i /\ token' = A!Wrapper(i)
        /\ req' = [req EXCEPT ![i].pc = "running", ![i].saved = token.of, ![i].calls = 0]
    BY <1>4 DEF A!RunStart
  <2>2. req' = [req EXCEPT ![i] = q]
    BY <1>1, <2>1 DEF Starts
  <2>3. token.of \in Nat /\ token.of <= Len(req)
    BY DEF AgentInv, AgentTypes, Taken
  <2>4. /\ q \in ReqType /\ q.pc = "running" /\ q.saved = token.of
        /\ q.kind = req[i].kind /\ q.sid = req[i].sid /\ q.alone = req[i].alone
        /\ q.answer = req[i].answer /\ q.streamed = req[i].streamed /\ q.shown = req[i].shown
    <3>1. "running" \in Places
      BY DEF Places
    <3>2. QED
      BY <1>1, <2>3, <3>1, ReqStarts
  <2> HIDE DEF q
  <2>5. OthersKept(i) /\ req'[i] = q
    BY <1>2, <2>2, <2>4, Moves
  <2>6. /\ "waiting" \in Live /\ "running" \in Live /\ "waiting" \notin InRun /\ "running" \in InRun
    BY DEF Live, InRun
  <2>7. Talking(i) /\ req[i].kind \in Talks
    BY <1>1, <2>6, TalksThere DEF Talking
  <2>8. CancelsTurn(i) /\ Reached(i)'
    BY <1>1, <1>2, <2>4, <2>5, <2>6, CancelsStay
  <2>9. EngineTurns(i)
    <3>1. token' \in [run : BOOLEAN, of : Nat] /\ token'.of = i
      BY <1>1, <2>1 DEF A!Wrapper
    <3>2. QED
      BY <1>1, <1>2, <2>1, <2>4, <2>5, <2>6, <3>1 DEF EngineTurns, AgentInv, Taken
  <2>10. InPlace(i)'
    <3>1. Len(req') = Len(req)
      BY <2>5 DEF OthersKept
    <3>2. QED
      BY <1>1, <2>1, <2>3, <2>4, <2>5, <2>6, <2>7, <3>1 DEF InPlace, A!Answered
  <2>11. Turned(i)
    <3>1. req[i].alone => token = A!Forwarder(i)
      BY <1>1, <2>7 DEF ByItself
    <3>2. req[i].alone => token.of = i
      BY <3>1 DEF A!Forwarder
    <3>3. QED
      BY <1>1, <2>1, <2>4, <2>5, <2>7, <2>8, <2>10, <3>2 DEF Turned, ByItself, Talking, A!Answered
  <2>12. QED
    BY <2>5, <2>7, <2>8, <2>9, <2>11, TalkStep
<1>5. QED
  BY <1>3, <1>4

(* A run puts back the callback it found.                                  *)
LEMMA RunEndStep ==
    ASSUME AgentInv, NEW i \in A!Ids, A!RunEnd(i) PROVE AgentInv'
<1>1. /\ req[i].pc = "ending" /\ i \in DOMAIN req /\ req[i] \in ReqType /\ req \in Seq(ReqType)
      /\ InPlace(i) /\ ByItself(i) /\ i \in Nat /\ i # 0 /\ i <= Len(req) /\ 0 <= Len(req)
  BY Of DEF A!RunEnd, A!At, AgentInv, AgentTypes
<1>2. UNCHANGED <<editor, queue, closes, forwarders, cancels>>
  BY DEF A!RunEnd, A!serveVars, A!agentVars
<1>3. holder' = 0 /\ token' = A!Forwarder(req[i].saved)
  BY DEF A!RunEnd
<1>4. /\ "ending" \in Live /\ "ending" \in InRun /\ "ran" \in Live /\ "waiting" \in Live
      /\ "waiting" \notin InRun /\ "ran" \notin InRun
  BY DEF Live, InRun
<1>5. holder = i /\ req[i].saved \in Nat /\ req[i].saved <= Len(req)
  BY <1>1, <1>4 DEF InPlace, ReqType
<1>6. Talking(i) /\ req[i].kind \in Talks
  BY <1>1, <1>4, TalksThere DEF Talking
<1>7. ASSUME NEW pc \in {"ran", "waiting"},
             req' = [[req EXCEPT ![i].saved = 0, ![i].calls = 0] EXCEPT ![i].pc = pc]
      PROVE  AgentInv'
  <2> DEFINE q == Leaves(req[i], pc)
  <2>1. req' = [req EXCEPT ![i] = q]
    BY <1>1, <1>7 DEF Leaves
  <2>2. /\ q \in ReqType /\ q.pc = pc /\ q.saved = 0
        /\ q.kind = req[i].kind /\ q.sid = req[i].sid /\ q.alone = req[i].alone
        /\ q.answer = req[i].answer /\ q.streamed = req[i].streamed /\ q.shown = req[i].shown
    BY <1>1, ReqLeaves DEF Places
  <2> HIDE DEF q
  <2>3. OthersKept(i) /\ req'[i] = q
    BY <1>2, <2>1, <2>2, Moves
  <2>4. pc \in Live /\ pc \notin InRun
    BY <1>4
  <2>5. CancelsTurn(i) /\ Reached(i)'
    BY <1>1, <1>2, <1>4, <2>2, <2>3, <2>4, CancelsStay
  <2>6. EngineTurns(i)
    <3>1. /\ token' \in [run : BOOLEAN, of : Nat] /\ token'.of = req[i].saved /\ ~token'.run
      BY <1>3, <1>5 DEF A!Forwarder
    <3>2. QED
      BY <1>1, <1>2, <1>3, <1>5, <2>2, <2>3, <2>4, <3>1 DEF EngineTurns, AgentInv, Taken
  <2>7. InPlace(i)'
    <3>1. Len(req') = Len(req)
      BY <2>3 DEF OthersKept
    <3>2. QED
      BY <1>1, <1>6, <2>2, <2>3, <2>4, <3>1 DEF InPlace, A!Answered
  <2>8. Turned(i)
    <3>1. req[i].alone => req[i].saved = i
      BY <1>1, <1>4, <1>6 DEF ByItself
    <3>2. QED
      BY <1>1, <1>2, <1>3, <1>6, <2>2, <2>3, <2>4, <2>5, <2>7, <3>1
      DEF Turned, ByItself, Talking, A!Answered
  <2>9. QED
    BY <1>6, <2>3, <2>5, <2>6, <2>8, TalkStep
<1>8. QED
  BY <1>7 DEF A!RunEnd

(* The deferred calls of a prompt free its cancel and the callback.        *)
LEMMA CleanupStep ==
    ASSUME AgentInv, NEW i \in A!Ids, A!Cleanup(i) PROVE AgentInv'
<1> DEFINE pc == A!Final(i)
           q == Goes(req[i], pc)
<1>1. /\ req[i].pc = "ran" /\ req[i].kind = "prompt" /\ i \in DOMAIN req /\ req[i] \in ReqType
      /\ InPlace(i) /\ ByItself(i) /\ Reached(i) /\ 0 <= Len(req)
  BY Of DEF A!Cleanup, A!At
<1>2. UNCHANGED <<editor, queue, closes, holder>>
  BY DEF A!Cleanup, A!serveVars
<1>3. /\ token' = A!NoToken /\ forwarders' = forwarders \ {i}
      /\ cancels' = A!Without(cancels, req[i].sid)
  BY DEF A!Cleanup, A!StopForward, A!FreeSlot
<1>4. req' = [req EXCEPT ![i] = q]
  BY <1>1 DEF A!Cleanup, A!Goto, Goes
<1>5. pc \in {"cancelled", "end_turn"}
  BY DEF A!Final
<1>6. Alike(q, req[i]) /\ q.pc = pc
  <2>1. pc \in Places
    BY <1>5 DEF Places
  <2>2. QED
    BY <1>1, <2>1, ReqGoes
<1> HIDE DEF q, pc
<1>7. OthersKept(i) /\ req'[i] = q
  BY <1>2, <1>4, <1>6, Moves DEF Alike
<1>8. "ran" \in Live /\ "ran" \notin InRun /\ pc \notin Live /\ pc \notin InRun /\ pc # "waiting"
  BY <1>5 DEF Live, InRun
<1>9. Talking(i)
  BY <1>1, <1>8, TalksThere
<1>10. holder # i
  BY <1>1, <1>8 DEF AgentInv, Taken
<1>11. EngineTurns(i)
  <2>1. A!NoToken \in [run : BOOLEAN, of : Nat] /\ A!NoToken.of = 0 /\ ~A!NoToken.run
    BY DEF A!NoToken
  <2>2. QED
    BY <1>1, <1>2, <1>3, <1>6, <1>7, <1>8, <1>10, <2>1 DEF EngineTurns
<1>12. CancelsTurn(i)
  <2>1. /\ DOMAIN cancels' = DOMAIN cancels \ {req[i].sid}
        /\ cancels' = [s \in DOMAIN cancels' |-> cancels'[s]]
        /\ \A s \in DOMAIN cancels' : cancels'[s] = cancels[s]
    BY <1>3 DEF A!Without
  <2>2. \A s \in DOMAIN cancels' : s \in DOMAIN cancels /\ cancels[s] # i
    BY <2>1 DEF AgentInv, Taken
  <2>3. ASSUME closes = 0, NEW j \in A!Ids, j # i, req[j].kind = "prompt", req[j].pc \in Live
        PROVE  req[j].sid \in DOMAIN cancels' /\ cancels'[req[j].sid] = j
    <3>1. req[j].sid \in DOMAIN cancels /\ cancels[req[j].sid] = j
      BY <2>3 DEF AgentInv, Reached
    <3>2. cancels[req[i].sid] = i
      BY <1>1, <1>8, <2>3 DEF Reached
    <3>3. QED
      BY <2>1, <2>3, <3>1, <3>2
  <2>4. QED
    BY <2>1, <2>2, <2>3 DEF CancelsTurn
<1>13. Reached(i)'
  BY <1>6, <1>7, <1>8 DEF Reached
<1>14. InPlace(i)'
  <2>1. Len(req') = Len(req)
    BY <1>7 DEF OthersKept
  <2>2. QED
    BY <1>1, <1>5, <1>6, <1>7, <1>8, <1>9, <2>1 DEF InPlace, A!Answered, Alike, Talking
<1>15. Turned(i)
  BY <1>1, <1>2, <1>6, <1>7, <1>8, <1>9, <1>13, <1>14
  DEF Turned, ByItself, Talking, A!Answered, Alike
<1>16. QED
  BY <1>7, <1>9, <1>11, <1>12, <1>15, TalkStep

(* The deferred calls of a command free the callback.                      *)
LEMMA GoalReturnsStep ==
    ASSUME AgentInv, NEW i \in A!Ids, A!GoalReturns(i) PROVE AgentInv'
<1> DEFINE q == Done(req[i], "ok")
<1>1. /\ req[i].pc = "ran" /\ req[i].kind = "goal" /\ i \in DOMAIN req /\ req[i] \in ReqType
      /\ InPlace(i) /\ ByItself(i) /\ 0 <= Len(req)
  BY Of DEF A!GoalReturns, A!At
<1>2. UNCHANGED <<editor, queue, closes, holder, cancels>>
  BY DEF A!GoalReturns, A!serveVars, A!agentVars
<1>3. token' = A!NoToken /\ forwarders' = forwarders \ {i}
  BY DEF A!GoalReturns, A!StopForward
<1>4. req' = [req EXCEPT ![i] = q]
  BY <1>1 DEF A!GoalReturns, A!Reply, Done
<1>5. /\ q \in ReqType /\ q.pc = "done" /\ q.kind = req[i].kind /\ q.alone = req[i].alone
      /\ q.answer = "ok" /\ q.saved = 0
  <2>1. req[i] \in ReqType /\ "ok" \in Answers
    BY <1>1 DEF Answers
  <2>2. QED
    BY <2>1, ReqDone
<1> HIDE DEF q
<1>6. OthersKept(i) /\ req'[i] = q
  BY <1>2, <1>4, <1>5, Moves
<1>7. "ran" \in Live /\ "ran" \notin InRun /\ "done" \notin Live /\ "done" \notin InRun
  BY DEF Live, InRun
<1>8. Talking(i)
  BY <1>1, <1>7, TalksThere
<1>9. holder # i
  BY <1>1, <1>7 DEF AgentInv, Taken
<1>10. EngineTurns(i)
  <2>1. A!NoToken \in [run : BOOLEAN, of : Nat] /\ A!NoToken.of = 0 /\ ~A!NoToken.run
    BY DEF A!NoToken
  <2>2. QED
    BY <1>1, <1>2, <1>3, <1>5, <1>6, <1>7, <1>9, <2>1 DEF EngineTurns
<1>11. CancelsTurn(i)
  BY <1>1, <1>2 DEF CancelsTurn, AgentInv, AgentTypes, Taken, Reached
<1>12. Reached(i)'
  BY <1>5, <1>6, <1>7 DEF Reached
<1>13. InPlace(i)'
  <2>1. Len(req') = Len(req)
    BY <1>6 DEF OthersKept
  <2>2. QED
    BY <1>1, <1>5, <1>6, <1>7, <2>1 DEF InPlace, A!Answered
<1>14. Turned(i)
  BY <1>5, <1>6, <1>7, <1>12, <1>13 DEF Turned, Talking, A!Answered
<1>15. QED
  BY <1>6, <1>8, <1>10, <1>11, <1>14, TalkStep

(* The callback of a call: nobody's, or of a request that is there.        *)
Callback ==
    IF ~editor.streams THEN 0 ELSE IF token.run THEN req[token.of].saved ELSE token.of

(* The text of a model call goes to the callback that is installed.        *)
LEMMA ModelCallStep ==
    ASSUME AgentInv, NEW i \in A!Ids, A!Call(i) PROVE AgentInv'
<1> DEFINE f == Callback
           n == req[i].calls + 1
           b == f # 0
           q == [req EXCEPT ![i].calls = @ + 1, ![i].shown = (f # 0)]
           r == IF f = 0 \/ A!Answered(f) THEN q ELSE [q EXCEPT ![f].streamed = TRUE]
<1>1. /\ req[i].pc = "running" /\ i \in DOMAIN req /\ req[i] \in ReqType /\ req \in Seq(ReqType)
      /\ InPlace(i) /\ ByItself(i) /\ i # 0 /\ req[i].calls \in Nat
  BY Of DEF A!Call, A!At, AgentInv, AgentTypes, ReqType
<1>2. UNCHANGED <<editor, queue, closes, token, holder, forwarders, cancels>>
  BY DEF A!Call, A!serveVars, A!agentVars, A!engineVars
<1>3. \/ req' = [r EXCEPT ![i].pc = "ending"]
      \/ req' = [r EXCEPT ![i].pc = "tool"]
  BY DEF A!Call, Callback
<1>4. f \in A!Ids \cup {0}
  <2>1. token.of \in Nat /\ token.of <= Len(req) /\ (token.run => token.of \in A!Ids)
    BY DEF AgentInv, AgentTypes, Taken
  <2>2. \A k \in A!Ids : req[k].saved \in Nat /\ req[k].saved <= Len(req)
    BY Of DEF InPlace, ReqType
  <2>3. f \in Nat /\ (f <= Len(req) \/ f = 0)
    BY <2>1, <2>2 DEF Callback
  <2>4. A!Ids = 1..Len(req) /\ Len(req) \in Nat
    BY <1>1, ReqIds DEF A!Ids
  <2>5. QED
    BY <2>3, <2>4
<1>5. "running" \in Live /\ "running" \in InRun /\ "ending" \in InRun /\ "tool" \in InRun
  BY DEF Live, InRun
<1>6. Talking(i) /\ req[i].kind \in Talks
  BY <1>1, <1>5, TalksThere DEF Talking
<1>7. req[i].alone => f = (IF editor.streams THEN i ELSE 0)
  <2>1. req[i].alone => token = A!Wrapper(i) /\ req[i].saved = i
    BY <1>1, <1>5, <1>6 DEF ByItself
  <2>2. QED
    BY <2>1 DEF Callback, A!Wrapper
<1> HIDE DEF f
<1>8. /\ q \in Seq(ReqType) /\ DOMAIN q = DOMAIN req /\ Len(q) = Len(req)
      /\ \A j \in DOMAIN req : j # i => q[j] = req[j]
      /\ q[i] = Calls(req[i], n, b)
  <2>1. q = [req EXCEPT ![i] = Calls(req[i], n, b)]
    BY <1>1 DEF Calls
  <2>2. Calls(req[i], n, b) \in ReqType
    <3>1. n \in Nat /\ b \in BOOLEAN
      BY <1>1
    <3> HIDE DEF n, b
    <3>2. QED
      BY <1>1, <3>1, ReqCalls
  <2> HIDE DEF q, n, b
  <2>3. QED
    BY <1>1, <2>1, <2>2, ReqPut
<1>9. /\ q[i].pc = "running" /\ q[i].shown = b /\ q[i].streamed = req[i].streamed
      /\ q[i].kind = req[i].kind /\ q[i].sid = req[i].sid /\ q[i].alone = req[i].alone
      /\ q[i].answer = req[i].answer /\ q[i].saved = req[i].saved
  <2>1. n \in Nat /\ b \in BOOLEAN
    BY <1>1
  <2> HIDE DEF q, n, b
  <2> DEFINE c == Calls(req[i], n, b)
  <2>2. /\ c.pc = req[i].pc /\ c.shown = b /\ c.streamed = req[i].streamed
        /\ c.kind = req[i].kind /\ c.sid = req[i].sid /\ c.alone = req[i].alone
        /\ c.answer = req[i].answer /\ c.saved = req[i].saved
    <3>1. req[i] \in ReqType
      BY <1>1
    <3>2. QED
      BY <2>1, <3>1, ReqCalls
  <2>3. q[i] = c
    BY <1>8
  <2> HIDE DEF c
  <2>4. QED
    BY <1>1, <2>2, <2>3
<1> HIDE DEF q, n
<1>10. /\ r \in Seq(ReqType) /\ DOMAIN r = DOMAIN req /\ Len(r) = Len(req)
       /\ \A j \in DOMAIN req : j # f => r[j] = q[j]
       /\ \A j \in DOMAIN req : r[j] = q[j] \/ (j = f /\ r[j] = Marked(q[j]))
  <2>1. CASE f = 0 \/ A!Answered(f)
    BY <1>8, <2>1
  <2>2. CASE ~(f = 0 \/ A!Answered(f))
    <3>1. r = [q EXCEPT ![f] = Marked(q[f])] /\ f \in DOMAIN q
      BY <1>4, <1>8, <2>2 DEF Marked, A!Ids
    <3>2. Marked(q[f]) \in ReqType
      <4>1. q[f] \in ReqType
        BY <1>8, <3>1
      <4>2. QED
        BY <4>1, ReqMarked
    <3> HIDE DEF r
    <3>3. QED
      BY <1>8, <3>1, <3>2, ReqPut
  <2>3. QED
    BY <2>1, <2>2
<1> HIDE DEF r
<1>11. /\ \A j \in DOMAIN req : q[j] \in ReqType /\ r[j] \in ReqType
       /\ \A j \in DOMAIN req :
             /\ r[j].pc = q[j].pc /\ r[j].kind = q[j].kind /\ r[j].sid = q[j].sid
             /\ r[j].alone = q[j].alone /\ r[j].answer = q[j].answer /\ r[j].saved = q[j].saved
             /\ r[j].shown = q[j].shown /\ r[j].reply = q[j].reply
             /\ j # f => r[j].streamed = q[j].streamed
  <2>1. \A j \in DOMAIN req : q[j] \in ReqType /\ r[j] \in ReqType
    BY <1>8, <1>10
  <2>2. ASSUME NEW j \in DOMAIN req
        PROVE  /\ r[j].pc = q[j].pc /\ r[j].kind = q[j].kind /\ r[j].sid = q[j].sid
               /\ r[j].alone = q[j].alone /\ r[j].answer = q[j].answer /\ r[j].saved = q[j].saved
               /\ r[j].shown = q[j].shown /\ r[j].reply = q[j].reply
               /\ j # f => r[j].streamed = q[j].streamed
    <3>1. CASE r[j] = q[j]
      BY <3>1
    <3>2. CASE j = f /\ r[j] = Marked(q[j])
      <4> DEFINE m == Marked(q[j])
      <4>1. /\ m.pc = q[j].pc /\ m.kind = q[j].kind /\ m.sid = q[j].sid
            /\ m.alone = q[j].alone /\ m.answer = q[j].answer /\ m.saved = q[j].saved
            /\ m.shown = q[j].shown /\ m.reply = q[j].reply
        BY <2>1, ReqMarked
      <4> HIDE DEF m
      <4>2. r[j] = m
        BY <3>2 DEF m
      <4>3. QED
        BY <3>2, <4>1, <4>2
    <3>3. QED
      BY <1>10, <3>1, <3>2
  <2>3. QED
    BY <2>1, <2>2
<1>12. ASSUME NEW pc \in {"ending", "tool"}, req' = [r EXCEPT ![i].pc = pc]
       PROVE  AgentInv'
  <2> DEFINE g == Goes(r[i], pc)
  <2>1. req' = [r EXCEPT ![i] = g]
    BY <1>1, <1>10, <1>12 DEF Goes
  <2>2. Alike(g, r[i]) /\ g.pc = pc
    <3>1. pc \in Places
      BY DEF Places
    <3>2. QED
      BY <1>1, <1>11, <3>1, ReqGoes
  <2> HIDE DEF g
  <2>3. /\ req' \in Seq(ReqType) /\ Len(req') = Len(req) /\ req'[i] = g
        /\ \A j \in DOMAIN req : j # i => req'[j] = r[j]
    BY <1>1, <1>10, <2>1, <2>2, ReqPut DEF Alike
  <2>4. /\ g.kind = req[i].kind /\ g.sid = req[i].sid /\ g.alone = req[i].alone
        /\ g.answer = req[i].answer /\ g.saved = req[i].saved /\ g.shown = b
        /\ i # f => g.streamed = req[i].streamed
    BY <1>1, <1>9, <1>11, <2>2 DEF Alike
  <2>5. OthersKept(i)
    <3>1. \A j \in A!Ids : j # i => Kept(j)
      BY <1>8, <1>11, <2>3 DEF Kept, A!Ids
    <3>2. QED
      BY <1>2, <2>3, <2>4, <3>1 DEF OthersKept
  <2>6. pc \in InRun /\ pc \in Live /\ pc # "acting" /\ req[i].pc \in Live /\ req[i].pc \in InRun
    BY <1>1, <1>5 DEF Live
  <2>7. EngineTurns(i) /\ CancelsTurn(i) /\ Reached(i)'
    BY <1>2, <2>2, <2>3, <2>4, <2>6, Calm
  <2>8. InPlace(i)'
    BY <1>1, <1>2, <1>6, <2>2, <2>3, <2>4, <2>6 DEF InPlace, A!Answered, Talking, InRun, Live
  <2>9. req[i].alone => (g.streamed => b /\ editor.streams)
    BY <1>1, <1>6, <1>7, <2>4 DEF ByItself, b
  <2>10. Turned(i)
    BY <1>1, <1>2, <1>5, <1>6, <2>2, <2>3, <2>4, <2>6, <2>7, <2>8, <2>9
    DEF Turned, ByItself, Talking, A!Answered
  <2>11. QED
    BY <1>6, <2>5, <2>7, <2>10, TalkStep
<1>13. QED
  BY <1>3, <1>12

(* What the invariant says of the counters.                                *)
LEMMA Books ==
    ASSUME AgentInv
    PROVE  /\ closes \in Nat /\ cancels = [s \in DOMAIN cancels |-> cancels[s]]
           /\ Len(req) # Len(req) + 1 /\ Len(req) \in Nat
           /\ DOMAIN req = 1..Len(req) /\ A!Ids = DOMAIN req
<1>1. Len(req) \in Nat /\ DOMAIN req = 1..Len(req)
  BY ReqIds DEF AgentInv, AgentTypes
<1>2. \A n \in Nat : n # n + 1
  OBVIOUS
<1>3. closes \in Nat /\ cancels = [s \in DOMAIN cancels |-> cancels[s]]
  BY DEF AgentInv, AgentTypes
<1>4. QED
  BY <1>1, <1>2, <1>3 DEF A!Ids

(* The queue is kept, or loses its head.                                   *)
LEMMA QueueStays ==
    ASSUME AgentInv, \A j \in A!Ids : j \in A!Ids' /\ req'[j].kind = req[j].kind,
           queue' = queue \/ (queue # <<>> /\ queue' = Tail(queue))
    PROVE  /\ queue' \in Seq(Nat)
           /\ \A k \in 1..Len(queue') : queue'[k] \in A!Ids' /\ req'[queue'[k]].kind = "always"
<1>1. /\ queue \in Seq(Nat)
      /\ \A k \in 1..Len(queue) : queue[k] \in A!Ids /\ req[queue[k]].kind = "always"
  BY DEF AgentInv, AgentTypes, Taken
<1>2. CASE queue' = queue
  BY <1>1, <1>2
<1>3. CASE queue # <<>> /\ queue' = Tail(queue)
  <2>1. /\ queue' \in Seq(Nat) /\ Len(queue') = Len(queue) - 1 /\ Len(queue) \in Nat
        /\ \A k \in 1..Len(queue') : queue'[k] = queue[k + 1]
    BY <1>1, <1>3, HeadTailProperties
  <2>2. \A k \in 1..Len(queue') : k + 1 \in 1..Len(queue)
    BY <2>1
  <2>3. QED
    BY <1>1, <2>1, <2>2
<1>4. QED
  BY <1>2, <1>3

(* A request that is no prompt and no command goes on or is answered.      *)
LEMMA Errands ==
    ASSUME AgentInv, NEW i \in A!Ids, NEW q \in ReqType, req' = [req EXCEPT ![i] = q],
           req[i].kind \notin Talks, req[i].pc \notin Live, q.kind = req[i].kind,
           q.pc \in {"bind", "apply", "done"}, q.saved <= Len(req),
           q.answer \notin {"in flight", "end_turn"} \/ Alike(q, req[i]),
           UNCHANGED <<editor, token, holder, forwarders, closes, cancels>>,
           queue' = queue \/ (queue # <<>> /\ queue' = Tail(queue))
    PROVE  AgentInv'
<1>1. /\ req' \in Seq(ReqType) /\ Len(req') = Len(req) /\ DOMAIN req' = DOMAIN req /\ req'[i] = q
      /\ \A j \in DOMAIN req : j # i => req'[j] = req[j]
  BY ReqPut DEF AgentInv, AgentTypes, A!Ids
<1>2. \A j \in A!Ids : j # i => Passed(j)
  BY <1>1 DEF Passed, Past, A!Ids
<1>3. Errand(i)
  BY <1>1 DEF Errand, Alike
<1>4. /\ queue' \in Seq(Nat)
      /\ \A k \in 1..Len(queue') : queue'[k] \in A!Ids' /\ req'[queue'[k]].kind = "always"
  <2>1. \A j \in A!Ids : j \in A!Ids' /\ req'[j].kind = req[j].kind
    BY <1>1 DEF A!Ids
  <2>2. QED
    BY <2>1, QueueStays
<1>5. /\ closes \in Nat /\ cancels = [s \in DOMAIN cancels |-> cancels[s]] /\ Len(req) # Len(req) + 1
  BY Books
<1>6. /\ Len(req') \in {Len(req), Len(req) + 1} /\ Len(req') # Len(req) + 1
      /\ closes' = closes /\ cancels' = cancels
      /\ UNCHANGED <<editor, token, holder, forwarders>>
  BY <1>1, <1>5
<1>7. Reads
  <2>1. \A j \in A!Ids : Passed(j) \/ Errand(j)
    BY <1>2, <1>3
  <2>2. /\ req' \in Seq(ReqType) /\ closes' \in Nat /\ cancels' = [s \in DOMAIN cancels' |-> cancels'[s]]
        /\ \A s \in DOMAIN cancels' : s \in DOMAIN cancels /\ cancels'[s] = cancels[s]
    BY <1>1, <1>5, <1>6
  <2>3. QED
    BY <1>4, <1>6, <2>1, <2>2, ZenonT(40) DEF Reads
<1>8. QED
  BY <1>7, ReadStep

(* One request is marked, nothing else.                                    *)
LEMMA Nudges ==
    ASSUME AgentInv, NEW i \in A!Ids, NEW q \in ReqType, req' = [req EXCEPT ![i] = q],
           Past(q, req[i]), UNCHANGED <<editor, token, holder, forwarders, closes, cancels, queue>>
    PROVE  AgentInv'
<1>1. /\ req' \in Seq(ReqType) /\ Len(req') = Len(req) /\ DOMAIN req' = DOMAIN req /\ req'[i] = q
      /\ \A j \in DOMAIN req : j # i => req'[j] = req[j]
  BY ReqPut DEF AgentInv, AgentTypes, A!Ids
<1>2. \A j \in A!Ids : Passed(j)
  <2>1. \A j \in A!Ids : j # i => Passed(j)
    BY <1>1 DEF Passed, Past, A!Ids
  <2>2. Passed(i)
    BY <1>1 DEF Passed
  <2>3. QED
    BY <2>1, <2>2
<1>4. /\ queue' \in Seq(Nat)
      /\ \A k \in 1..Len(queue') : queue'[k] \in A!Ids' /\ req'[queue'[k]].kind = "always"
  <2>1. \A j \in A!Ids : j \in A!Ids' /\ req'[j].kind = req[j].kind
    BY <1>1, <1>2 DEF A!Ids, Passed, Past
  <2>2. QED
    BY <2>1, QueueStays
<1>5. /\ closes \in Nat /\ cancels = [s \in DOMAIN cancels |-> cancels[s]] /\ Len(req) # Len(req) + 1
  BY Books
<1>6. /\ Len(req') \in {Len(req), Len(req) + 1} /\ Len(req') # Len(req) + 1
      /\ closes' = closes /\ cancels' = cancels
      /\ UNCHANGED <<editor, token, holder, forwarders>>
  BY <1>1, <1>5
<1>7. Reads
  BY <1>1, <1>2, <1>4, <1>5, <1>6, ZenonT(40) DEF Reads
<1>8. QED
  BY <1>7, ReadStep

More(s, e) == Append(s, e)

(* A sequence of requests with one more.                                   *)
LEMMA AddedReq ==
    ASSUME NEW s \in Seq(ReqType), NEW e \in ReqType
    PROVE  /\ More(s, e) \in Seq(ReqType) /\ Len(More(s, e)) = Len(s) + 1
           /\ More(s, e)[Len(s) + 1] = e
           /\ \A j \in 1..Len(s) : More(s, e)[j] = s[j] /\ j \in 1..(Len(s) + 1)
           /\ Len(s) + 1 \in Nat /\ Len(s) + 1 \notin 1..Len(s)
           /\ Len(s) + 1 \in 1..(Len(s) + 1)
  BY DEF More

(* The queue with one more.                                                *)
LEMMA AddedNat ==
    ASSUME NEW s \in Seq(Nat), NEW e \in Nat
    PROVE  /\ More(s, e) \in Seq(Nat) /\ More(s, e)[Len(s) + 1] = e
           /\ \A j \in 1..Len(s) : More(s, e)[j] = s[j]
           /\ \A j \in 1..Len(More(s, e)) : j \in 1..Len(s) \/ j = Len(s) + 1
  BY DEF More

(* A request is read.                                                      *)
LEMMA Arrives ==
    ASSUME AgentInv, NEW S \in Seq(ReqType), Len(S) = Len(req),
           \A j \in A!Ids : Past(S[j], req[j]),
           NEW q \in ReqType, req' = More(S, q),
           q.pc \in {"start", "queued", "begin", "done"}, q.saved = 0,
           q.answer \notin {"in flight", "end_turn"}, ~q.streamed,
           q.kind \in Talks =>
               /\ q.pc = "start" /\ q.answer = "none"
               /\ q.alone => \A k \in A!Ids : ~Talking(k)
               /\ \A k \in A!Ids : Talking(k) => ~S[k].alone,
           UNCHANGED <<editor, token, holder, forwarders>>,
           closes' \in Nat, closes' = 0 => closes = 0 /\ cancels' = cancels,
           cancels' = [s \in DOMAIN cancels' |-> cancels'[s]],
           \A s \in DOMAIN cancels' : s \in DOMAIN cancels /\ cancels'[s] = cancels[s],
           queue' = queue \/ (queue' = More(queue, Len(req) + 1) /\ q.kind = "always")
    PROVE  AgentInv'
<1> DEFINE m == Len(req) + 1
<1>1. /\ Len(req) \in Nat /\ A!Ids = 1..Len(req) /\ A!Ids = DOMAIN req
  BY Books
<1>2. /\ req' \in Seq(ReqType) /\ Len(req') = m /\ req'[m] = q
      /\ \A j \in 1..Len(req) : req'[j] = S[j] /\ j \in 1..m
      /\ m \in Nat /\ m \notin 1..Len(req) /\ m \in 1..m
  <2> DEFINE t == More(S, q)
             l == Len(S) + 1
  <2>1. /\ t \in Seq(ReqType) /\ Len(t) = l /\ t[l] = q
        /\ \A j \in 1..Len(S) : t[j] = S[j] /\ j \in 1..l
        /\ l \in Nat /\ l \notin 1..Len(S) /\ l \in 1..l
    BY AddedReq
  <2>2. m = l /\ req' = t
    OBVIOUS
  <2> HIDE DEF t, l, m
  <2>3. QED
    BY <2>1, <2>2
<1>3. A!Ids' = 1..m
  BY <1>2, ReqIds DEF A!Ids
<1> HIDE DEF m
<1>4. \A j \in A!Ids : Passed(j)
  BY <1>1, <1>2 DEF Passed
<1>5. Arrived(m)
  BY <1>1, <1>2 DEF Arrived
<1>6. /\ queue' \in Seq(Nat)
      /\ \A k \in 1..Len(queue') : queue'[k] \in A!Ids' /\ req'[queue'[k]].kind = "always"
  <2>1. \A j \in A!Ids : j \in A!Ids' /\ req'[j].kind = req[j].kind
    <3>1. \A j \in A!Ids : j \in A!Ids'
      BY <1>1, <1>2, <1>3
    <3>2. QED
      BY <1>4, <3>1 DEF Passed, Past
  <2>2. CASE queue' = queue
    BY <2>1, <2>2, QueueStays
  <2>3. CASE queue' = More(queue, m) /\ q.kind = "always"
    <3>1. /\ queue \in Seq(Nat)
          /\ \A k \in 1..Len(queue) : queue[k] \in A!Ids /\ req[queue[k]].kind = "always"
      BY DEF AgentInv, AgentTypes, Taken
    <3>2. m \in Nat /\ req'[m].kind = "always" /\ m \in A!Ids'
      BY <1>2, <1>3, <2>3
    <3>3. /\ queue' \in Seq(Nat)
          /\ \A k \in 1..Len(queue) : queue'[k] = queue[k]
          /\ queue'[Len(queue) + 1] = m
          /\ \A k \in 1..Len(queue') : k \in 1..Len(queue) \/ k = Len(queue) + 1
      <4>1. queue' = More(queue, m)
        BY <2>3
      <4>2. /\ More(queue, m) \in Seq(Nat)
            /\ \A k \in 1..Len(queue) : More(queue, m)[k] = queue[k]
            /\ More(queue, m)[Len(queue) + 1] = m
            /\ \A k \in 1..Len(More(queue, m)) : k \in 1..Len(queue) \/ k = Len(queue) + 1
        <5>1. queue \in Seq(Nat) /\ m \in Nat
          BY <3>1, <3>2
        <5>2. QED
          BY <5>1, AddedNat, ZenonT(40)
      <4>3. QED
        BY <4>1, <4>2
    <3>4. ASSUME NEW k \in 1..Len(queue')
          PROVE  queue'[k] \in A!Ids' /\ req'[queue'[k]].kind = "always"
      <4>1. CASE k \in 1..Len(queue)
        <5>1. queue[k] \in A!Ids /\ req[queue[k]].kind = "always" /\ queue'[k] = queue[k]
          BY <3>1, <3>3, <4>1
        <5>2. QED
          BY <2>1, <5>1
      <4>2. CASE k = Len(queue) + 1
        BY <3>2, <3>3, <4>2
      <4>3. QED
        BY <3>3, <4>1, <4>2
    <3>5. QED
      BY <3>3, <3>4
  <2>4. QED
    BY <2>2, <2>3 DEF m
<1>7. Reads
  <2>1. /\ Len(req') \in {Len(req), Len(req) + 1}
        /\ Len(req') = Len(req) + 1 => Arrived(Len(req) + 1)
    BY <1>2, <1>5 DEF m
  <2>2. QED
    BY <1>2, <1>4, <1>6, <2>1 DEF Reads
<1>8. QED
  BY <1>7, ReadStep

(* One that is no prompt and no command comes without marks.               *)
LEMMA ArrivesOther ==
    ASSUME AgentInv, NEW q \in ReqType, req' = More(req, q), q.kind \notin Talks,
           q.pc \in {"start", "queued", "begin", "done"}, q.saved = 0,
           q.answer \notin {"in flight", "end_turn"}, ~q.streamed,
           UNCHANGED <<editor, token, holder, forwarders, closes, cancels>>,
           queue' = queue \/ (queue' = More(queue, Len(req) + 1) /\ q.kind = "always")
    PROVE  AgentInv'
<1>1. req \in Seq(ReqType) /\ \A j \in A!Ids : Past(req[j], req[j])
  BY Of, ReqOverlaps DEF AgentInv, AgentTypes
<1>2. closes' \in Nat /\ cancels' = [s \in DOMAIN cancels' |-> cancels'[s]]
  BY Books
<1>3. QED
  BY <1>1, <1>2, Arrives

(* A prompt or a command makes those it overlaps known.                    *)
LEMMA Admits ==
    ASSUME AgentInv, NEW k \in Talks, NEW s \in Nat \cup Sids,
           req' = A!Admit(A!Request(k, s, "start")),
           UNCHANGED <<editor, token, holder, forwarders, closes, cancels, queue>>
    PROVE  AgentInv'
<1> DEFINE r == A!Request(k, s, "start")
           o == A!Overlapping
           S == [i \in A!Ids |-> IF i \in o THEN Overlaps(req[i]) ELSE req[i]]
           q == Told(r, o = {})
<1>1. /\ r \in ReqType /\ r.pc = "start" /\ r.kind = k /\ r.answer = "none" /\ r.saved = 0
      /\ ~r.streamed
  BY ReqNew DEF Kinds, Places
<1>2. r.kind \in {"prompt", "goal"}
  BY <1>1 DEF Talks
<1> HIDE DEF r
<1>3. req' = More(S, q)
  BY <1>2 DEF A!Admit, Overlaps, Told, More, r
<1>4. \A i \in A!Ids : i \in o <=> Talking(i)
  BY DEF A!Overlapping, Talking, Talks
<1>5. o \subseteq A!Ids
  BY DEF A!Overlapping
<1> HIDE DEF o
<1>6. \A i \in A!Ids : S[i] \in ReqType /\ Past(S[i], req[i]) /\ (i \in o => ~S[i].alone)
  BY Of, ReqOverlaps
<1>7. S \in Seq(ReqType) /\ Len(S) = Len(req)
  <2>1. A!Ids = 1..Len(req) /\ Len(req) \in Nat
    BY Books
  <2>2. S = [i \in 1..Len(req) |-> S[i]]
    BY <2>1
  <2> HIDE DEF S
  <2>3. QED
    BY <1>6, <2>1, <2>2, SeqMap
<1>8. /\ q \in ReqType /\ q.alone = (o = {}) /\ q.kind = k /\ q.pc = "start" /\ q.saved = 0
      /\ q.answer = "none" /\ ~q.streamed
  BY <1>1, ReqNewAlone
<1> HIDE DEF q, S
<1>9. /\ q.alone => \A i \in A!Ids : ~Talking(i)
      /\ \A i \in A!Ids : Talking(i) => ~S[i].alone
  BY <1>4, <1>6, <1>8
<1>10. closes' \in Nat /\ cancels' = [t \in DOMAIN cancels' |-> cancels'[t]]
  BY Books
<1>11. QED
  BY <1>3, <1>6, <1>7, <1>8, <1>9, <1>10, Arrives

(* A prompt or a command is read.                                          *)
LEMMA ReadTalkSteps ==
    ASSUME AgentInv, A!ReadPrompt \/ A!ReadGoal PROVE AgentInv'
<1>1. UNCHANGED <<editor, token, holder, forwarders, closes, cancels, queue>>
  BY DEF A!ReadPrompt, A!ReadGoal, A!serveVars, A!agentVars, A!engineVars
<1>2. CASE A!ReadPrompt
  <2>1. PICK s \in Sids : req' = A!Admit(A!Request("prompt", s, "start"))
    BY <1>2 DEF A!ReadPrompt
  <2>2. "prompt" \in Talks /\ s \in Nat \cup Sids
    BY DEF Talks
  <2>3. QED
    BY <1>1, <2>1, <2>2, Admits
<1>3. CASE A!ReadGoal
  <2>1. "goal" \in Talks /\ 0 \in Nat \cup Sids
    BY DEF Talks
  <2>2. req' = A!Admit(A!Request("goal", 0, "start"))
    BY <1>3 DEF A!ReadGoal
  <2>3. QED
    BY <1>1, <2>1, <2>2, Admits
<1>4. QED
  BY <1>2, <1>3

(* A load is read.                                                         *)
LEMMA ReadLoadStep ==
    ASSUME AgentInv, A!ReadLoad PROVE AgentInv'
<1>1. UNCHANGED <<editor, token, holder, forwarders, closes, cancels, queue>>
  BY DEF A!ReadLoad, A!serveVars, A!agentVars, A!engineVars
<1>2. PICK s \in Sids : req' = A!Admit(A!Request("load", s, "start"))
  BY DEF A!ReadLoad
<1> DEFINE r == A!Request("load", s, "start")
           q == Told(r, TRUE)
<1>3. /\ r \in ReqType /\ r.pc = "start" /\ r.kind = "load" /\ r.answer = "none" /\ r.saved = 0
      /\ ~r.streamed
  <2>1. "load" \in Kinds /\ "start" \in Places /\ s \in Nat \cup Sids
    BY DEF Kinds, Places
  <2>2. QED
    BY <2>1, ReqNew
<1> HIDE DEF r
<1>4. req' = More(req, q)
  <2>1. req' = Append([i \in A!Ids |-> req[i]], q)
    BY <1>2, <1>3 DEF A!Admit, Told, r
  <2>2. [i \in A!Ids |-> req[i]] = req
    BY DEF A!Ids, AgentInv, AgentTypes
  <2>3. QED
    BY <2>1, <2>2 DEF More
<1>5. /\ q \in ReqType /\ q.pc = "start" /\ q.kind = "load" /\ q.answer = "none" /\ q.saved = 0
      /\ ~q.streamed
  BY <1>3, ReqNewAlone
<1> HIDE DEF q
<1>6. QED
  BY <1>1, <1>4, <1>5, ArrivesOther DEF Talks

(* A setting is read, and queued unless the queue is full.                 *)
LEMMA ReadSettingStep ==
    ASSUME AgentInv, A!ReadSetting PROVE AgentInv'
<1>1. UNCHANGED <<editor, token, holder, forwarders, closes, cancels>>
  BY DEF A!ReadSetting, A!agentVars, A!engineVars
<1>2. PICK s \in Sids :
        \/ queue' = Append(queue, Len(req) + 1) /\ req' = Append(req, A!Request("always", s, "queued"))
        \/ queue' = queue /\ req' = Append(req, A!Refused("always", "full"))
  BY DEF A!ReadSetting
<1>3. "always" \in Kinds /\ "always" \notin Talks /\ "queued" \in Places /\ "full" \in Answers
  BY DEF Kinds, Talks, Places, Answers
<1>4. CASE /\ queue' = Append(queue, Len(req) + 1)
           /\ req' = Append(req, A!Request("always", s, "queued"))
  <2> DEFINE q == A!Request("always", s, "queued")
  <2>1. /\ q \in ReqType /\ q.pc = "queued" /\ q.kind = "always" /\ q.answer = "none" /\ q.saved = 0
        /\ ~q.streamed
    <3>1. s \in Nat \cup Sids
      OBVIOUS
    <3>2. QED
      BY <1>3, <3>1, ReqNew
  <2>2. queue' = More(queue, Len(req) + 1) /\ req' = More(req, q)
    BY <1>4 DEF More
  <2> HIDE DEF q
  <2>3. QED
    BY <1>1, <1>3, <2>1, <2>2, ArrivesOther
<1>5. CASE queue' = queue /\ req' = Append(req, A!Refused("always", "full"))
  <2> DEFINE q == A!Refused("always", "full")
  <2>1. /\ q \in ReqType /\ q.pc = "done" /\ q.kind = "always" /\ q.answer = "full" /\ q.saved = 0
        /\ ~q.streamed
    BY <1>3, ReqRefused
  <2>2. queue' = queue /\ req' = More(req, q)
    BY <1>5 DEF More
  <2> HIDE DEF q
  <2>3. QED
    BY <1>1, <1>3, <2>1, <2>2, ArrivesOther
<1>6. QED
  BY <1>2, <1>4, <1>5

(* A session/new is read.                                                  *)
LEMMA ReadNewStep ==
    ASSUME AgentInv, A!ReadNew PROVE AgentInv'
<1>1. UNCHANGED <<editor, token, holder, forwarders, closes, cancels, queue>>
  BY DEF A!ReadNew, A!engineVars
<1>2. \/ req' = Append(req, A!Refused("new", "refused"))
      \/ req' = Append(req, A!Request("new", 0, "begin"))
      \/ req' = Append(req, A!Refused("new", "ok"))
  BY DEF A!ReadNew
<1>3. /\ "new" \in Kinds /\ "new" \notin Talks /\ "begin" \in Places
      /\ "refused" \in Answers /\ "ok" \in Answers /\ 0 \in Nat \cup Sids
  BY DEF Kinds, Talks, Places, Answers
<1>4. ASSUME NEW q \in ReqType, req' = Append(req, q), q.kind = "new", q.pc \in {"begin", "done"},
             q.answer \in {"none", "refused", "ok"}, q.saved = 0, ~q.streamed
      PROVE  AgentInv'
  <2>1. req' = More(req, q)
    BY <1>4 DEF More
  <2>2. QED
    BY <1>1, <1>3, <1>4, <2>1, ArrivesOther
<1>5. \A what \in {"refused", "ok"} : LET q == A!Refused("new", what)
         IN  /\ q \in ReqType /\ q.pc = "done" /\ q.kind = "new" /\ q.answer = what
             /\ q.saved = 0 /\ ~q.streamed
  BY <1>3, ReqRefused
<1>6. LET q == A!Request("new", 0, "begin")
      IN  /\ q \in ReqType /\ q.pc = "begin" /\ q.kind = "new" /\ q.answer = "none"
          /\ q.saved = 0 /\ ~q.streamed
  BY <1>3, ReqNew
<1>7. QED
  BY <1>2, <1>4, <1>5, <1>6

(* An errand is answered.                                                  *)
LEMMA ErrandEnds ==
    ASSUME AgentInv, NEW i \in A!Ids, req[i].kind \notin Talks,
           NEW what \in {"refused", "ok", "error"}, req' = A!Reply(i, what),
           UNCHANGED <<editor, token, holder, forwarders, closes, cancels>>,
           queue' = queue \/ (queue # <<>> /\ queue' = Tail(queue))
    PROVE  AgentInv'
<1> DEFINE q == Done(req[i], what)
<1>1. req[i] \in ReqType /\ InPlace(i) /\ 0 <= Len(req) /\ i \in DOMAIN req
  BY Of
<1>2. /\ q \in ReqType /\ q.pc = "done" /\ q.kind = req[i].kind /\ q.answer = what /\ q.saved = 0
  <2>1. what \in Answers
    BY DEF Answers
  <2>2. QED
    BY <1>1, <2>1, ReqDone
<1>3. req' = [req EXCEPT ![i] = q]
  BY <1>1 DEF A!Reply, Done
<1>4. req[i].pc \notin Live
  BY <1>1 DEF InPlace
<1> HIDE DEF q
<1>5. QED
  BY <1>1, <1>2, <1>3, <1>4, Errands

(* An errand goes on.                                                      *)
LEMMA ErrandGoes ==
    ASSUME AgentInv, NEW i \in A!Ids, req[i].kind \notin Talks,
           NEW pc \in {"bind", "apply"}, req' = A!Goto(i, pc),
           UNCHANGED <<editor, token, holder, forwarders, closes, cancels>>,
           queue' = queue \/ (queue # <<>> /\ queue' = Tail(queue))
    PROVE  AgentInv'
<1> DEFINE q == Goes(req[i], pc)
<1>1. req[i] \in ReqType /\ InPlace(i) /\ i \in DOMAIN req
  BY Of
<1>2. Alike(q, req[i]) /\ q.pc = pc
  <2>1. pc \in Places
    BY DEF Places
  <2>2. QED
    BY <1>1, <2>1, ReqGoes
<1>3. req' = [req EXCEPT ![i] = q]
  BY <1>1 DEF A!Goto, Goes
<1>4. req[i].pc \notin Live /\ req[i].saved <= Len(req)
  BY <1>1 DEF InPlace
<1> HIDE DEF q
<1>5. q \in ReqType /\ q.kind = req[i].kind /\ q.saved = req[i].saved
  BY <1>2 DEF Alike
<1>6. QED
  BY <1>1, <1>2, <1>3, <1>4, <1>5, Errands

(* The errands' own steps.                                                 *)
LEMMA LoadSteps ==
    ASSUME AgentInv, NEW i \in A!Ids,
           A!BeginSession(i) \/ A!LoadCheck(i) \/ A!LoadBind(i) \/ A!ApplySetting(i)
    PROVE  AgentInv'
<1>1. UNCHANGED <<editor, token, holder, forwarders, closes, cancels, queue>>
  BY DEF A!BeginSession, A!LoadCheck, A!LoadBind, A!ApplySetting, A!serveVars, A!agentVars,
         A!engineVars
<1>2. req[i].kind \notin Talks
  <2>1. InPlace(i)
    BY Of
  <2>2. CASE A!LoadCheck(i)
    BY <2>2 DEF A!LoadCheck, Talks
  <2>3. CASE A!BeginSession(i) \/ A!LoadBind(i) \/ A!ApplySetting(i)
    BY <2>1, <2>3 DEF A!BeginSession, A!LoadBind, A!ApplySetting, A!At, InPlace
  <2>4. QED
    BY <2>2, <2>3
<1>3. \/ req' = A!Reply(i, "ok") \/ req' = A!Reply(i, "error") \/ req' = A!Reply(i, "refused")
      \/ req' = A!Goto(i, "bind")
  BY DEF A!BeginSession, A!LoadCheck, A!LoadBind, A!ApplySetting
<1>4. QED
  BY <1>1, <1>2, <1>3, ErrandEnds, ErrandGoes

(* The worker takes a setting from the queue.                              *)
LEMMA TakeSettingStep ==
    ASSUME AgentInv, A!TakeSetting PROVE AgentInv'
<1> DEFINE i == Head(queue)
<1>1. UNCHANGED <<editor, token, holder, forwarders, closes, cancels>>
  BY DEF A!TakeSetting, A!agentVars, A!engineVars
<1>2. queue # <<>> /\ queue' = Tail(queue)
  BY DEF A!TakeSetting
<1>3. i \in A!Ids /\ req[i].kind = "always"
  <2>1. queue \in Seq(Nat) /\ \A k \in 1..Len(queue) : queue[k] \in A!Ids /\ req[queue[k]].kind = "always"
    BY DEF AgentInv, AgentTypes, Taken
  <2>2. 1 \in 1..Len(queue) /\ Head(queue) = queue[1]
    BY <1>2, <2>1
  <2>3. QED
    BY <2>1, <2>2
<1>4. req' = A!Reply(i, "refused") \/ req' = A!Goto(i, "apply")
  BY DEF A!TakeSetting
<1> HIDE DEF i
<1>5. req[i].kind \notin Talks
  BY <1>3 DEF Talks
<1>6. QED
  BY <1>1, <1>2, <1>3, <1>4, <1>5, ErrandEnds, ErrandGoes

Halted(p) == [i \in A!Ids |-> IF i = p THEN Stopped(req[i]) ELSE req[i]]

(* A close cancels the session's prompt and drops its cancel.              *)
LEMMA ReadCloseStep ==
    ASSUME AgentInv, A!ReadClose PROVE AgentInv'
<1>1. UNCHANGED <<editor, queue, token, holder, forwarders>>
  BY DEF A!ReadClose, A!serveVars, A!engineVars
<1>2. /\ "close" \in Kinds /\ "close" \notin Talks /\ "refused" \in Answers /\ "ok" \in Answers
  BY DEF Kinds, Talks, Answers
<1>3. \A what \in {"refused", "ok"} : LET q == A!Refused("close", what)
         IN  /\ q \in ReqType /\ q.pc = "done" /\ q.kind = "close" /\ q.answer = what
             /\ q.saved = 0 /\ ~q.streamed
  BY <1>2, ReqRefused
<1>4. CASE req' = Append(req, A!Refused("close", "refused")) /\ UNCHANGED <<cancels, closes>>
  <2> DEFINE q == A!Refused("close", "refused")
  <2>1. /\ q \in ReqType /\ q.pc = "done" /\ q.kind = "close" /\ q.answer = "refused"
        /\ q.saved = 0 /\ ~q.streamed
    BY <1>3
  <2>2. req' = More(req, q)
    BY <1>4 DEF More
  <2> HIDE DEF q
  <2>3. QED
    BY <1>1, <1>2, <1>4, <2>1, <2>2, ArrivesOther
<1>5. ASSUME NEW which, NEW p, req' = More(Halted(p), A!Refused("close", "ok")),
             cancels' = A!Without(cancels, which), closes' = closes + 1
      PROVE  AgentInv'
  <2> DEFINE S == Halted(p)
             q == A!Refused("close", "ok")
  <2>1. /\ q \in ReqType /\ q.pc = "done" /\ q.kind = "close" /\ q.answer = "ok"
        /\ q.saved = 0 /\ ~q.streamed
    BY <1>3
  <2>2. req' = More(S, q)
    BY <1>5
  <2> HIDE DEF q
  <2>3. \A i \in A!Ids : S[i] \in ReqType /\ Past(S[i], req[i])
    BY Of, ReqOverlaps DEF Halted
  <2>4. S \in Seq(ReqType) /\ Len(S) = Len(req)
    <3>1. A!Ids = 1..Len(req) /\ Len(req) \in Nat
      BY Books
    <3>2. S = [i \in 1..Len(req) |-> S[i]]
      BY <3>1 DEF Halted
    <3> HIDE DEF S
    <3>3. QED
      BY <2>3, <3>1, <3>2, SeqMap
  <2> HIDE DEF S
  <2>5. closes' \in Nat /\ closes' # 0
    <3>1. closes \in Nat
      BY Books
    <3>2. QED
      BY <1>5, <3>1
  <2>6. /\ cancels' = [s \in DOMAIN cancels' |-> cancels'[s]]
        /\ \A s \in DOMAIN cancels' : s \in DOMAIN cancels /\ cancels'[s] = cancels[s]
    BY <1>5 DEF A!Without
  <2>7. QED
    BY <1>1, <1>2, <2>1, <2>2, <2>3, <2>4, <2>5, <2>6, Arrives
<1>6. ASSUME NEW s \in Sids,
             LET which == IF s = 0 THEN bound ELSE s
                 p     == IF which \in DOMAIN cancels THEN cancels[which] ELSE 0
             IN  IF bound # 0 /\ which # bound
                 THEN /\ req' = Append(req, A!Refused("close", "refused"))
                      /\ UNCHANGED A!agentVars
                 ELSE /\ req' = Append([i \in A!Ids |-> IF i = p THEN [req[i] EXCEPT !.cancelled = TRUE]
                                                         ELSE req[i]],
                                       A!Refused("close", "ok"))
                      /\ cancels' = A!Without(cancels, which)
                      /\ sessions' = A!Without(sessions, which)
                      /\ allow' = {}
                      /\ bound' = IF bound = which THEN 0 ELSE bound
                      /\ fresh' = (fresh \/ bound = which)
                      /\ closes' = closes + 1
                      /\ active' = active
      PROVE  AgentInv'
  <2> DEFINE which == IF s = 0 THEN bound ELSE s
             p     == IF which \in DOMAIN cancels THEN cancels[which] ELSE 0
  <2>1. CASE bound # 0 /\ which # bound
    BY <1>4, <1>6, <2>1 DEF A!agentVars
  <2>2. CASE ~(bound # 0 /\ which # bound)
    <3>1. /\ req' = Append([i \in A!Ids |-> IF i = p THEN [req[i] EXCEPT !.cancelled = TRUE]
                                            ELSE req[i]],
                          A!Refused("close", "ok"))
          /\ cancels' = A!Without(cancels, which)
          /\ closes' = closes + 1
      BY <1>6, <2>2
    <3> HIDE DEF which, p
    <3>2. req' = More(Halted(p), A!Refused("close", "ok"))
      BY <3>1 DEF More, Halted, Stopped
    <3>3. QED
      BY <1>5, <3>1, <3>2
  <2>3. QED
    BY <2>1, <2>2
<1>7. QED
  BY <1>6 DEF A!ReadClose

(* A cancel or a reply of the editor is read.                              *)
LEMMA ReadMarkSteps ==
    ASSUME AgentInv,
           \/ \E s \in Sids : A!ReadCancel(s)
           \/ \E i \in A!Ids : A!ReadReply(i)
    PROVE  AgentInv'
<1>1. ASSUME NEW s \in Sids, A!ReadCancel(s) PROVE AgentInv'
  <2> DEFINE i == cancels[s]
  <2>1. UNCHANGED <<editor, token, holder, forwarders, closes, cancels, queue>>
    BY <1>1 DEF A!ReadCancel, A!serveVars, A!agentVars, A!engineVars
  <2>2. i \in A!Ids
    BY <1>1 DEF A!ReadCancel, AgentInv, Taken
  <2>3. req' = [req EXCEPT ![i].cancelled = TRUE]
    BY <1>1 DEF A!ReadCancel
  <2> HIDE DEF i
  <2>4. req[i] \in ReqType /\ i \in DOMAIN req
    BY <2>2, Of
  <2>5. req' = [req EXCEPT ![i] = Stopped(req[i])]
    BY <2>3, <2>4 DEF Stopped
  <2>6. Stopped(req[i]) \in ReqType /\ Past(Stopped(req[i]), req[i])
    BY <2>4, ReqOverlaps
  <2>7. QED
    BY <2>1, <2>2, <2>5, <2>6, Nudges
<1>2. ASSUME NEW i \in A!Ids, A!ReadReply(i) PROVE AgentInv'
  <2>1. UNCHANGED <<editor, token, holder, forwarders, closes, cancels, queue>>
    BY <1>2 DEF A!ReadReply, A!serveVars, A!agentVars, A!engineVars
  <2>2. PICK w \in {"allow_once", "allow_always", "reject", "unsupported"} :
          req[i].pc = "asking" /\ req' = A!Deliver(i, w)
    BY <1>2 DEF A!ReadReply, A!At
  <2>3. req[i] \in ReqType /\ i \in DOMAIN req /\ w \in Replies
    BY Of DEF Replies, Grants
  <2>4. req' = [req EXCEPT ![i] = Replied(req[i], w)]
    BY <2>2, <2>3 DEF A!Deliver, Replied
  <2>5. Replied(req[i], w) \in ReqType /\ Past(Replied(req[i], w), req[i])
    BY <2>2, <2>3, ReqReplied
  <2>6. QED
    BY <2>1, <2>4, <2>5, Nudges
<1>3. QED
  BY <1>1, <1>2

(* What the invariant is about stays.                                      *)
LEMMA AgentStays ==
    ASSUME AgentInv, UNCHANGED <<editor, req, queue, token, holder, forwarders, cancels, closes>>
    PROVE  AgentInv'
<1>1. A!Ids' = A!Ids /\ \A i \in A!Ids : Talking(i)' = Talking(i)
  BY DEF A!Ids, Talking, A!Answered
<1>2. AgentTypes' /\ Taken'
  BY <1>1 DEF AgentInv, AgentTypes, Taken
<1>3. ASSUME NEW i \in A!Ids PROVE InPlace(i)' /\ Reached(i)' /\ ByItself(i)'
  <2>1. InPlace(i) /\ Reached(i) /\ ByItself(i)
    BY DEF AgentInv
  <2>2. InPlace(i)' /\ Reached(i)'
    BY <2>1 DEF InPlace, Reached, A!Answered
  <2>3. ByItself(i)'
    BY <1>1, <2>1 DEF ByItself
  <2>4. QED
    BY <2>2, <2>3
<1>4. QED
  BY <1>1, <1>2, <1>3 DEF AgentInv

(* Every step keeps the invariant.                                         *)
LEMMA AgentStep ==
    ASSUME AgentInv, A!Next PROVE AgentInv'
<1>1. ASSUME A!Editor PROVE AgentInv'
  BY <1>1, ReadTalkSteps, ReadLoadStep, ReadSettingStep, ReadNewStep, ReadCloseStep, ReadMarkSteps
  DEF A!Editor
<1>2. ASSUME A!ReadEnd PROVE AgentInv'
  BY <1>2, AgentStays DEF A!ReadEnd, A!agentVars, A!engineVars
<1>3. ASSUME NEW i \in A!Ids, A!Work(i) PROVE AgentInv'
  BY <1>3, LoadSteps, CheckSteps, RegisterStep, GoalForwardStep, GoalEndsEarlyStep, RunStartStep,
     ModelCallStep, PreToolStep, DecideStep, InRunSteps, RunEndStep, CleanupStep, GoalReturnsStep,
     RespondStep
  DEF A!Work
<1>4. QED
  BY <1>1, <1>2, <1>3, TakeSettingStep DEF A!Next

(* The agent starts with it.                                               *)
LEMMA AgentStarts ==
    ASSUME A!Init PROVE AgentInv
<1>1. /\ req = <<>> /\ DOMAIN req = {} /\ Len(req) = 0 /\ req \in Seq(ReqType)
      /\ queue = <<>> /\ queue \in Seq(Nat) /\ Len(queue) = 0
      /\ cancels = <<>> /\ DOMAIN cancels = {}
  BY DEF A!Init
<1>2. token = A!NoToken /\ holder = 0 /\ forwarders = {} /\ closes = 0 /\ editor \in Editors
  BY DEF A!Init
<1>3. A!NoToken \in [run : BOOLEAN, of : Nat] /\ A!NoToken.of = 0 /\ ~A!NoToken.run
  BY DEF A!NoToken
<1>4. cancels = [s \in DOMAIN cancels |-> cancels[s]]
  BY <1>1
<1>5. AgentTypes
  BY <1>1, <1>2, <1>3, <1>4, EditorsAssumption DEF AgentTypes
<1>6. Taken
  BY <1>1, <1>2, <1>3 DEF Taken
<1>7. QED
  BY <1>1, <1>5, <1>6 DEF AgentInv, A!Ids

(* It has the properties.                                                  *)
LEMMA AgentKept ==
    ASSUME AgentInv
    PROVE  A!Gated /\ A!SlotIsFree /\ A!CancelReaches /\ A!ShownAlone /\ A!NothingLeft
<1>1. \A i \in A!Ids : InPlace(i) /\ Reached(i) /\ ByItself(i)
  BY DEF AgentInv
<1>2. A!Gated
  BY <1>1 DEF A!Gated, A!At, InPlace, Grants
<1>3. A!SlotIsFree /\ A!ShownAlone
  BY <1>1 DEF A!SlotIsFree, A!ShownAlone, ByItself
<1>4. A!CancelReaches
  BY <1>1 DEF A!CancelReaches, Reached, Live, InRun
<1>5. A!NothingLeft
  <2>1. ASSUME \A i \in A!Ids : A!Answered(i), NEW j \in A!Ids PROVE req[j].pc \notin Live
    BY <2>1, <1>1 DEF InPlace, Live, InRun
  <2>2. ASSUME \A i \in A!Ids : A!Answered(i) PROVE DOMAIN cancels = {}
    BY <2>1, <2>2 DEF AgentInv, Taken
  <2>3. ASSUME DOMAIN cancels = {} PROVE cancels = <<>>
    <3>1. cancels = [s \in DOMAIN cancels |-> cancels[s]]
      BY Books
    <3>2. QED
      BY <2>3, <3>1
  <2>4. ASSUME \A i \in A!Ids : A!Answered(i)
        PROVE  token = A!NoToken /\ forwarders = {} /\ holder = 0
    BY <2>1, <2>4 DEF AgentInv, Taken, Live
  <2>5. QED
    BY <2>2, <2>3, <2>4 DEF A!NothingLeft
<1>6. QED
  BY <1>2, <1>3, <1>4, <1>5

(* A power tool runs only on the editor's word, a prompt finds its slot    *)
(* free and its cancel within reach, its answer is shown, and nothing of a *)
(* run is left when all is answered (ext/acp, agent.go, agent_perm.go,     *)
(* agent_slash.go).                                                        *)
THEOREM PromptsStayKept == MCSpec => []PromptsKept
<1> DEFINE I == part = "agent" => AgentInv
<1>1. MCInit => I
  BY AgentStarts DEF MCInit
<1>2. I /\ [MCNext]_all => I'
  <2> SUFFICES ASSUME I, [MCNext]_all, part' = "agent" PROVE AgentInv'
    OBVIOUS
  <2>1. CASE UNCHANGED all
    BY <2>1, AgentStays DEF all, agentVars
  <2>2. CASE MCNext
    BY <2>2, AgentStep DEF MCNext
  <2>3. QED
    BY <2>1, <2>2
<1>3. I => PromptsKept
  BY AgentKept DEF PromptsKept
<1>4. QED
  BY <1>1, <1>2, <1>3, PTL DEF MCSpec
=============================================================================
