------------------------------- MODULE Peers -------------------------------
(***************************************************************************)
(* The delegate tool of ext/acp (delegate.go, client.go, mow_agents.go,    *)
(* host_policy.go, client_requests.go): calls of the tool share a pool of  *)
(* peer processes, one conversation each, keyed by the agent and by the    *)
(* command line that carries the rights the host grants it.                *)
(*                                                                         *)
(* A slot is one peer process from its reservation to its end: the reader  *)
(* of its stdout, the reply its one call waits for, the text gathered so   *)
(* far, and the mutex (holder) that gives the conversation to one call at  *)
(* a time.  The peer itself is external: it answers, asks for permission,  *)
(* stays silent, ignores a cancel or exits as it likes.                    *)
(*                                                                         *)
(* The text of a prompt is the sequence of the calls its chunks belong to. *)
(* Working directories, models and progress lines are left out.            *)
(*                                                                         *)
(* An operator whose comment starts with "Fault:" is a wrong version of    *)
(* the definition below it, used to see that a property notices.           *)
(***************************************************************************)
EXTENDS Integers, Sequences, FiniteSets

CONSTANTS
    Callers,     \* goroutines that execute the delegate tool
    Agents,      \* extensions.acp.peers: records [native, write, shell, readOnly, permission]
    HostsOf,     \* for each caller the policies of the engines it calls for: [write, shell]
    MaxSpawns,   \* bound: processes started
    MaxCalls,    \* bound: calls of the tool
    MaxChunks    \* bound: chunks of one prompt

ASSUME BoundsAreNat == MaxSpawns \in Nat /\ MaxCalls \in Nat /\ MaxChunks \in Nat

\* 0 is nobody; an engine allows writing and commands or does not.
ASSUME CallersAssumption ==
    /\ 0 \notin Callers
    /\ \A c \in Callers : HostsOf[c] \subseteq [write : BOOLEAN, shell : BOOLEAN]

VARIABLES
    pool,     \* peers: the slots a later call may find, one per key
    slot,     \* every slot that was ever reserved
    spawned,  \* how many of them
    call,     \* one record per caller
    calls,    \* calls made so far
    closed    \* closeAll ran: the reaper is stopped

vars == <<pool, slot, spawned, call, calls, closed>>

Slots == 1..MaxSpawns

(***************************************************************************)
(* What a peer may do.  Unset fields of a spec are "inherit".              *)
(***************************************************************************)

\* effectiveAllowWrite, effectiveAllowShell: the spec's wish, capped by the host.
Capped(wish, hosts) == IF wish = "inherit" THEN hosts ELSE wish = "yes" /\ hosts

\* effectiveReadOnly
ReadOnlyPeer(a, h) ==
    IF a.readOnly = "inherit" THEN ~h.write /\ ~h.shell ELSE a.readOnly = "yes"

\* The flags buildMowAgentCommand gives a native peer; an external peer's
\* command is its own.
Rights(a, h) ==
    IF ~a.native THEN {"own"}
    ELSE IF ReadOnlyPeer(a, h) THEN {}
    ELSE {r \in {"write", "shell"} :
             IF r = "write" THEN Capped(a.write, h.write) ELSE Capped(a.shell, h.shell)}

\* effectivePermissionMode: how the parent answers the peer's requests.
Permission(a) ==
    IF a.permission # "inherit" THEN a.permission
    ELSE IF a.native THEN "allow" ELSE "reject"

\* Fault: the key is the agent's name, as if its command never changed.
KeyByName(a, h) == [agent |-> a, rights |-> {}, permission |-> Permission(a)]

\* peerKey: the agent, the command with its rights, the permission mode.
Key(a, h) == [agent |-> a, rights |-> Rights(a, h), permission |-> Permission(a)]

(***************************************************************************)
(* Slots and clients.                                                      *)
(***************************************************************************)

Fresh(k, r) ==
    [key |-> k, rights |-> r, st |-> "starting", holder |-> 0,
     proc |-> "none", open |-> FALSE, failed |-> FALSE, pipe |-> <<>>,
     work |-> 0, sent |-> 0, waits |-> FALSE, text |-> <<>>, pending |-> "none"]

NoSlot == [Fresh([agent |-> {}, rights |-> {}, permission |-> "reject"], {})
              EXCEPT !.st = "unused"]

NoCall == [pc |-> "idle", key |-> NoSlot.key, rights |-> {}, slot |-> 0, host |-> {},
           ctx |-> "live", result |-> "none", got |-> <<>>, whole |-> 0]

Init ==
    /\ pool = {}
    /\ slot = [s \in Slots |-> NoSlot]
    /\ spawned = 0
    /\ call = [c \in Callers |-> NoCall]
    /\ calls = 0
    /\ closed = FALSE

\* Client.Alive: the reader runs, Close was not called, the process was not reaped.
Alive(s) == slot[s].open /\ ~slot[s].failed /\ slot[s].proc = "run"

\* Client.Close: the process tree is killed, stdin and stdout are closed, so that
\* the reader ends and fails the call that waits.
Close(r) == [r EXCEPT !.open = FALSE, !.proc = "exited", !.failed = TRUE,
                      !.pipe = <<>>, !.work = 0, !.waits = FALSE, !.text = <<>>, !.sent = 0,
                      !.pending = IF @ = "open" THEN "error" ELSE @]

CloseAllOf(S) == [s \in Slots |-> IF s \in S /\ slot[s].st = "up" THEN Close(slot[s]) ELSE slot[s]]

\* Fault: a peer in use is evicted like any other.
EvictableInUse(s) == slot[s].st = "up"

\* Fault: a slot whose peer does not live is skipped, as one that still starts is.
EvictableIfAlive(s) == slot[s].st = "up" /\ slot[s].holder = 0 /\ Alive(s)

\* evictIdleLocked looks at a published slot whose mutex it can take.
Evictable(s) == slot[s].st = "up" /\ slot[s].holder = 0

\* peer_idle_sec may have passed since lastUsed, unless a call just took the slot.
MayBeIdle(s) == \A c \in Callers : call[c].slot = s => call[c].pc # "lock"

\* A dead peer goes, whenever it was used.
MustGo(s) == Evictable(s) /\ ~Alive(s)

\* What one pass of evictIdleLocked may close.
Evictions ==
    {E \in SUBSET {s \in pool : Evictable(s)} :
        \A s \in pool : (MustGo(s) => s \in E) /\ (s \in E => MustGo(s) \/ MayBeIdle(s))}

(***************************************************************************)
(* Exec, up to the peer.                                                   *)
(***************************************************************************)

\* Exec: the agent's command and key under the host of this call.
Begin(c, a, h) ==
    /\ call[c].pc = "idle"
    /\ calls < MaxCalls
    /\ call' = [call EXCEPT ![c] =
           [NoCall EXCEPT !.pc = "get", !.key = Key(a, h), !.rights = Rights(a, h),
                          !.host = {r \in {"write", "shell"} : h[r]} \cup {"own"}]]
    /\ calls' = calls + 1
    /\ UNCHANGED <<pool, slot, spawned, closed>>

\* The host turn is aborted.  In the steps left out the call does not look at
\* its context before the next of these, or ends at once (Give).
Cancel(c) ==
    /\ call[c].pc \in {"waiting", "spawn", "lock"}
    /\ call[c].ctx = "live"
    /\ call' = [call EXCEPT ![c].ctx = "over"]
    /\ UNCHANGED <<pool, slot, spawned, calls, closed>>

Returns(c) == call' = [call EXCEPT ![c] = NoCall]

\* getOrStart under peersMu: evict, then wait for a peer that is starting, take
\* one that lives, or reserve the key.  A dead peer that is in use is left to its user.
Get(c) == \E E \in Evictions :
    LET kept  == pool \ E
        found == {s \in kept : slot[s].key = call[c].key}
        swept == CloseAllOf(E)
    IN
    /\ call[c].pc = "get"
    /\ UNCHANGED <<calls, closed>>
    /\ \/ \E s \in found :
            /\ slot[s].st = "starting"
            /\ call' = [call EXCEPT ![c].pc = "waiting", ![c].slot = s]
            /\ pool' = kept
            /\ slot' = swept
            /\ UNCHANGED spawned
       \/ \E s \in found :
            /\ Alive(s)
            /\ call' = [call EXCEPT ![c].pc = "lock", ![c].slot = s]
            /\ pool' = kept
            /\ slot' = swept
            /\ UNCHANGED spawned
       \/ /\ \A s \in found : slot[s].st # "starting" /\ ~Alive(s)
          /\ spawned < MaxSpawns
          /\ spawned' = spawned + 1
          /\ call' = [call EXCEPT ![c].pc = "spawn", ![c].slot = spawned']
          /\ pool' = (kept \ found) \cup {spawned'}
          /\ slot' = [swept EXCEPT ![spawned'] = Fresh(call[c].key, call[c].rights)]

\* The wait for another caller's spawn ends with the spawn or with the context.
Wait(c) ==
    /\ call[c].pc = "waiting"
    /\ \/ /\ slot[call[c].slot].st # "starting"
          /\ call' = [call EXCEPT ![c].pc = "get", ![c].slot = 0]
       \/ /\ call[c].ctx = "over"
          /\ Returns(c)
    /\ UNCHANGED <<pool, slot, spawned, calls, closed>>

\* Client.Start succeeded (process, initialize, session/new): the slot is
\* published, whether or not the pool still holds the reservation.
StartPeer(c) ==
    LET s == call[c].slot IN
    /\ call[c].pc = "spawn"
    /\ slot' = [slot EXCEPT ![s].st = "up", ![s].proc = "run", ![s].open = TRUE]
    /\ call' = [call EXCEPT ![c].pc = "lock"]
    /\ UNCHANGED <<pool, spawned, calls, closed>>

\* Fault: a failed start leaves the reservation behind.
UnreserveNothing(s) == slot' = slot /\ pool' = pool

\* The reservation is taken back and its waiters are woken.
Unreserve(s) ==
    /\ slot' = [slot EXCEPT ![s].st = "gone"]
    /\ pool' = pool \ {s}

\* Client.Start failed: no such program, an error, no answer within the
\* handshake's limit or a cancelled context.  Start closes its own process.
StartFails(c) ==
    /\ call[c].pc = "spawn"
    /\ Unreserve(call[c].slot)
    /\ Returns(c)
    /\ UNCHANGED <<spawned, calls, closed>>

\* lockSlot waits on the call's own context, not on the prompt's timeout.
Lock(c) ==
    LET s == call[c].slot IN
    /\ call[c].pc = "lock"
    /\ \/ /\ slot[s].holder = 0
          /\ slot' = [slot EXCEPT ![s].holder = c]
          /\ call' = [call EXCEPT ![c].pc = "held"]
       \/ /\ call[c].ctx = "over"
          /\ Returns(c)
          /\ UNCHANGED slot
    /\ UNCHANGED <<pool, spawned, calls, closed>>

(***************************************************************************)
(* Client.Prompt and Client.call.                                          *)
(***************************************************************************)

Ends(c, result) == call' = [call EXCEPT ![c].pc = "ending", ![c].result = result]

\* The prompt is sent, unless the context ended, the reader stopped or Close
\* took stdin away.  A write to a peer that just exited may fail or not.
Ask(c) ==
    LET s == call[c].slot IN
    /\ call[c].pc = "held"
    /\ \/ /\ call[c].ctx = "live" /\ ~slot[s].failed /\ slot[s].open
          /\ slot' = [slot EXCEPT ![s].text = <<>>, ![s].pending = "open", ![s].sent = 0,
                                  ![s].work = IF slot[s].proc = "run" THEN c ELSE 0]
          /\ call' = [call EXCEPT ![c].pc = "asking"]
       \/ /\ call[c].ctx # "live" \/ slot[s].failed \/ slot[s].proc # "run"
          /\ slot' = [slot EXCEPT ![s].text = <<>>]
          /\ Ends(c, "error")
    /\ UNCHANGED <<pool, spawned, calls, closed>>

\* A reply arrived: a result with the text gathered so far, or the peer's error.
Answered(c) ==
    LET s == call[c].slot IN
    /\ call[c].pc = "asking"
    /\ slot[s].pending \in {"result", "error"}
    /\ slot' = [slot EXCEPT ![s].pending = "none"]
    /\ IF slot[s].pending = "result"
       THEN call' = [call EXCEPT ![c].pc = "ending", ![c].result = "reply",
                                 ![c].got = slot[s].text, ![c].whole = slot[s].sent]
       ELSE Ends(c, "error")
    /\ UNCHANGED <<pool, spawned, calls, closed>>

\* timeout_sec has passed or the host turn was aborted: session/cancel is sent,
\* and the peer has cancelGrace to answer.
Give(c) ==
    /\ call[c].pc = "asking"
    /\ call' = [call EXCEPT ![c].pc = "grace", ![c].ctx = "over"]
    /\ UNCHANGED <<pool, slot, spawned, calls, closed>>

\* Whatever happens in that time, the call ends with the context's error.
GraceEnds(c) ==
    /\ call[c].pc = "grace"
    /\ slot' = [slot EXCEPT ![call[c].slot].pending = "none"]
    /\ Ends(c, "error")
    /\ UNCHANGED <<pool, spawned, calls, closed>>

\* The process was reaped and no reply came out of the pipe in time.
PeerLost(c) ==
    LET s == call[c].slot IN
    /\ call[c].pc = "asking"
    /\ slot[s].proc = "exited"
    /\ slot[s].pending = "open"
    /\ slot' = [slot EXCEPT ![s].pending = "none"]
    /\ Ends(c, "error")
    /\ UNCHANGED <<pool, spawned, calls, closed>>

(***************************************************************************)
(* Exec, after the prompt.                                                 *)
(***************************************************************************)

\* Fault: a peer that still lives is kept after a cancel or a timeout.
DropsIfDead(c) == call[c].result = "error" /\ ~Alive(call[c].slot)

\* After an error the peer is dropped if it is dead or the context ended.
Drops(c) ==
    call[c].result = "error" /\ (~Alive(call[c].slot) \/ call[c].ctx # "live")

\* lastUsed, then dropPeer for exactly this slot, then the deferred calls: the
\* callbacks are cleared and the mutex is released.
End(c) ==
    LET s == call[c].slot
        r == [slot[s] EXCEPT !.holder = 0, !.pending = "none",
                             !.text = <<>>, !.sent = 0]
    IN
    /\ call[c].pc = "ending"
    /\ slot' = [slot EXCEPT ![s] = IF Drops(c) THEN Close(r) ELSE r]
    /\ pool' = IF Drops(c) THEN pool \ {s} ELSE pool
    /\ Returns(c)
    /\ UNCHANGED <<spawned, calls, closed>>

(***************************************************************************)
(* The pool as a whole.                                                    *)
(***************************************************************************)

\* dropPeers: a prompt ended (StopSource "acp") or an editor closed its session.
\* It does not wait for the mutex, and a slot still starting has no client to close.
DropPeers ==
    /\ pool # {}
    /\ slot' = CloseAllOf(pool)
    /\ pool' = {}
    /\ UNCHANGED <<spawned, call, calls, closed>>

\* closeAll: the reaper stops for good, the pool is dropped.
CloseAll ==
    /\ ~closed
    /\ closed' = TRUE
    /\ slot' = CloseAllOf(pool)
    /\ pool' = {}
    /\ UNCHANGED <<spawned, call, calls>>

\* ensureReaper's tick.
Reap ==
    /\ ~closed
    /\ \E E \in Evictions \ {{}} : slot' = CloseAllOf(E) /\ pool' = pool \ E
    /\ UNCHANGED <<spawned, call, calls, closed>>

(***************************************************************************)
(* The peer process and the reader of its stdout.                          *)
(***************************************************************************)

Writes(s, m) == slot' = [slot EXCEPT ![s].pipe = Append(@, m)]

\* The peer streams a chunk of the prompt it works on.
PeerChunk(s) ==
    /\ slot[s].work # 0 /\ ~slot[s].waits
    /\ slot[s].sent < MaxChunks
    /\ slot' = [slot EXCEPT ![s].pipe = Append(@, <<"chunk", slot[s].work>>),
                            ![s].sent = @ + 1]
    /\ UNCHANGED <<pool, spawned, call, calls, closed>>

\* The peer asks for a permission and waits for the answer.
PeerAsks(s) ==
    /\ slot[s].work # 0 /\ ~slot[s].waits
    /\ slot[s].sent = 0 /\ slot[s].pipe = <<>>
    /\ slot' = [slot EXCEPT ![s].pipe = Append(@, <<"ask", slot[s].work>>), ![s].waits = TRUE]
    /\ UNCHANGED <<pool, spawned, call, calls, closed>>

\* The peer answers its prompt, also one that was cancelled.
PeerReplies(s, m) ==
    /\ slot[s].work # 0 /\ ~slot[s].waits
    /\ slot' = [slot EXCEPT ![s].pipe = Append(@, <<m, slot[s].work>>), ![s].work = 0]
    /\ UNCHANGED <<pool, spawned, call, calls, closed>>

\* The peer exits; what it wrote stays in the pipe.
PeerExits(s) ==
    /\ slot[s].proc = "run"
    /\ slot' = [slot EXCEPT ![s].proc = "exited", ![s].work = 0, ![s].waits = FALSE]
    /\ UNCHANGED <<pool, spawned, call, calls, closed>>

\* handleAgentRequest: every request of the peer gets a response, a permission one
\* by Permission, whatever else with a refusal; the peer goes on either way.
Respond(r) == [r EXCEPT !.waits = FALSE]

\* readLoop, line by line: a chunk is added to the text, a request is answered,
\* a reply goes to the call that waits for it.  The reply
\* of a call that was given up finds no waiter: ids are never reused.
Read(s) ==
    LET m == Head(slot[s].pipe)
        r == [slot[s] EXCEPT !.pipe = Tail(@)]
        wanted == r.pending = "open" /\ r.holder = m[2]
    IN
    /\ slot[s].open /\ slot[s].pipe # <<>>
    /\ slot' = [slot EXCEPT ![s] =
           IF m[1] = "chunk" THEN [r EXCEPT !.text = Append(@, m[2])]
           ELSE IF m[1] = "ask" THEN Respond(r)
           ELSE IF wanted THEN [r EXCEPT !.pending = m[1]] ELSE r]
    /\ UNCHANGED <<pool, spawned, call, calls, closed>>

\* readLoop's end fails whatever still waits, and the client for good.
ReadEnds(s) ==
    /\ slot[s].st = "up" /\ ~slot[s].failed
    /\ slot[s].proc = "exited" /\ slot[s].pipe = <<>>
    /\ slot' = [slot EXCEPT ![s].failed = TRUE,
                            ![s].pending = IF @ = "open" THEN "error" ELSE @]
    /\ UNCHANGED <<pool, spawned, call, calls, closed>>

----------------------------------------------------------------------------

Exec(c) ==
    \/ Get(c) \/ Wait(c) \/ StartPeer(c) \/ StartFails(c) \/ Lock(c) \/ Ask(c)
    \/ Answered(c) \/ Give(c) \/ GraceEnds(c) \/ PeerLost(c) \/ End(c)

Reader(s) == Read(s) \/ ReadEnds(s)

Peer(s) ==
    \/ PeerChunk(s) \/ PeerAsks(s) \/ PeerExits(s)
    \/ \E m \in {"result", "error"} : PeerReplies(s, m)

Next ==
    \/ \E c \in Callers : (\E a \in Agents, h \in HostsOf[c] : Begin(c, a, h)) \/ Cancel(c) \/ Exec(c)
    \/ \E s \in Slots : Reader(s) \/ Peer(s)
    \/ DropPeers \/ CloseAll \/ Reap

\* Goroutines run, timers fire (handshake, timeout_sec, cancelGrace) and the reaper
\* ticks; neither the peer nor its user has to do anything.
Fairness == WF_vars(Reap \/ \E c \in Callers : Exec(c))

Spec == Init /\ [][Next]_vars /\ Fairness

----------------------------------------------------------------------------
\* A reply is the text of the prompt it answers, all of it and nothing else:
\* nothing of a prompt that was given up on the same peer before it.
ReplyIsOwn ==
    \A c \in Callers :
        call[c].result = "reply" =>
            /\ Len(call[c].got) = call[c].whole
            /\ \A i \in DOMAIN call[c].got : call[c].got[i] = c

\* A peer that works for a call has no right the host of that call lacks, also
\* when the process was started for another host (peerKey: "never reuses a stale process").
WithinHost ==
    \A c \in Callers :
        call[c].pc \in {"asking", "grace"} => slot[call[c].slot].rights \subseteq call[c].host

\* Making room never takes the peer of a call that uses it: only the call, the
\* peer itself or a drop of the whole pool ends it.
KeepsPeerInUse ==
    [][\A s \in Slots :
          (/\ slot[s].holder # 0 /\ Alive(s) /\ ~slot'[s].open)
          => \/ call[slot[s].holder].pc = "ending"
             \/ pool' = {}]_vars

\* Every call ends: a silent peer by its timeout, a wait for another's spawn by
\* that spawn, however it ends.  (There are MaxCalls of them.)
CallsEnd == []<>(\A c \in Callers : call[c].pc = "idle")

\* A peer that died in the pool does not stay there, also when no call comes.
DeadLeave == []<>(closed \/ \A s \in pool : slot[s].st = "up" => Alive(s))

\* "dropPeers kills every pooled peer", "closeAll drops every pooled peer": a
\* process nobody uses is one the pool still knows.
NoOrphan ==
    \A s \in Slots :
        Alive(s) => s \in pool \/ \E c \in Callers : call[c].slot = s /\ call[c].pc # "idle"
=============================================================================
