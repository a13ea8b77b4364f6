------------------------------ MODULE MCPStdio ------------------------------
(***************************************************************************)
(* A stdio MCP server and the calls of its tools (ext/mcp/mcp.go):         *)
(* reconnectingClient.callTool starts the process when there is none, and  *)
(* after a broken pipe once more; client.call exchanges one request and    *)
(* one response at a time on the process's pipes.                          *)
(*                                                                         *)
(* The server is external: it runs a request, answers it, asks the client  *)
(* something first, sends notifications or an answer twice, or dies.  The  *)
(* id of a request is its call: a call is sent to a process once.          *)
(*                                                                         *)
(* An operator whose comment starts with "Fault:" is a wrong version of    *)
(* the definition below it, used to see that a property notices.           *)
(***************************************************************************)
EXTENDS Integers, Sequences, FiniteSets

CONSTANTS
    Calls,       \* calls of the server's tools, by one or several engines
    MaxStarts,   \* bound: processes
    MaxCancels,  \* bound: turns that are cancelled
    MaxDeaths,   \* bound: processes that exit by themselves
    MaxNoise     \* bound: frames nobody asked for

VARIABLES
    timed,    \* the server's timeout_sec is not negative
    closing,  \* reconnectingClient.Close: "no", "flagged" or "done"
    cur,      \* reconnectingClient.c: the process in use, 0 for none
    started,  \* processes started so far
    proc,     \* the processes
    call,     \* the calls
    ran,      \* how often a server ran each call
    left      \* what is left of the bounds

vars == <<timed, closing, cur, started, proc, call, ran, left>>

NoCall == 0
Procs == 1..MaxStarts

\* A process: the one-slot semaphore, the requests it has, those it has run,
\* whether it waits for an answer, and what it wrote to stdout.
Process == [alive |-> TRUE, sem |-> NoCall, got |-> {}, run |-> {}, asks |-> FALSE, out |-> <<>>]

Init ==
    /\ timed \in BOOLEAN
    /\ closing = "no" /\ cur = 0 /\ started = 0
    /\ proc = [p \in Procs |-> [Process EXCEPT !.alive = FALSE]]
    /\ call = [c \in Calls |-> [pc |-> "idle", p |-> 0, try |-> 1, why |-> "none", res |-> "none"]]
    /\ ran = [c \in Calls |-> 0]
    /\ left = [cancels |-> MaxCancels, deaths |-> MaxDeaths, noise |-> MaxNoise]

Goto(c, pc) == call' = [call EXCEPT ![c].pc = pc]
Finish(c, r) == call' = [call EXCEPT ![c].pc = "done", ![c].res = r]

Killed(P) == [p \in Procs |-> [proc[p] EXCEPT !.alive = @ /\ p \notin P]]

Call(c) ==
    /\ call[c].pc = "idle" /\ Goto(c, "ensure")
    /\ UNCHANGED <<timed, closing, cur, started, proc, ran, left>>

(***************************************************************************)
(* reconnectingClient                                                      *)
(***************************************************************************)

\* ensure: a transport that was closed stays closed.
\* Fault: a call starts a process whenever there is none.
MayAlways == TRUE
MayStart == closing = "no"

\* startServer, with its handshake, under the mutex of the client.
Ensure(c) ==
    /\ call[c].pc = "ensure"
    /\ \/ /\ ~MayStart /\ Finish(c, "error") /\ UNCHANGED <<cur, started, proc>>
       \/ /\ MayStart /\ cur # 0 /\ Goto(c, "pick") /\ UNCHANGED <<cur, started, proc>>
       \/ /\ MayStart /\ cur = 0 /\ started < MaxStarts
          /\ started' = started + 1 /\ cur' = started + 1
          /\ proc' = [proc EXCEPT ![started + 1] = Process]
          /\ Goto(c, "pick")
       \/ /\ MayStart /\ cur = 0 /\ Finish(c, "error") /\ UNCHANGED <<cur, started, proc>>
    /\ UNCHANGED <<timed, closing, ran, left>>

\* The client is read under the mutex again: another call may have reset it.
Pick(c) ==
    /\ call[c].pc = "pick"
    /\ IF cur = 0 THEN Finish(c, "error")
       ELSE call' = [call EXCEPT ![c].pc = "queue", ![c].p = cur]
    /\ UNCHANGED <<timed, closing, cur, started, proc, ran, left>>

\* reset: the current process is closed, whichever the call has used.
\* Fault: it is forgotten and goes on running.
Forget(c) == {}
Reset(c) == {cur}

\* callTool after a failed exchange: a cancelled call gives up, a broken pipe
\* is tried once more.
Recover(c) ==
    /\ call[c].pc = "reset"
    /\ cur' = 0 /\ proc' = Killed(Reset(c))
    /\ call' = IF call[c].why = "ctx" THEN [call EXCEPT ![c].pc = "done", ![c].res = "error"]
               ELSE [call EXCEPT ![c].pc = "ensure", ![c].try = 2]
    /\ UNCHANGED <<timed, closing, started, ran, left>>

\* reconnectingClient.Close, in its two critical sections.
Close ==
    /\ closing # "done"
    /\ IF closing = "no" THEN closing' = "flagged" /\ UNCHANGED <<cur, proc>>
       ELSE closing' = "done" /\ cur' = 0 /\ proc' = Killed({cur})
    /\ UNCHANGED <<timed, started, call, ran, left>>

(***************************************************************************)
(* client.call                                                             *)
(***************************************************************************)

\* What callTool does with an error of the exchange: the first try goes on to
\* reset, the second returns it.
Failed(c, why) ==
    call' = IF call[c].try = 1 THEN [call EXCEPT ![c].pc = "reset", ![c].why = why]
            ELSE [call EXCEPT ![c].pc = "done", ![c].res = "error"]

\* The semaphore of the process has one slot.
\* Fault: a call does not wait for it.
NoWait(p) == TRUE
Free(p) == proc[p].sem = NoCall

Acquire(c) ==
    LET p == call[c].p
    IN  /\ call[c].pc = "queue" /\ Free(p)
        /\ proc' = [proc EXCEPT ![p].sem = c]
        /\ Goto(c, "write")
        /\ UNCHANGED <<timed, closing, cur, started, ran, left>>

\* The turn is cancelled while the call waits for the semaphore.
CancelQueued(c) ==
    /\ call[c].pc = "queue" /\ left.cancels > 0
    /\ left' = [left EXCEPT !.cancels = @ - 1]
    /\ Failed(c, "ctx")
    /\ UNCHANGED <<timed, closing, cur, started, proc, ran>>

Write(c) ==
    LET p == call[c].p
    IN  /\ call[c].pc = "write"
        /\ IF proc[p].alive
           THEN /\ proc' = [proc EXCEPT ![p].got = @ \cup {c}]
                /\ Goto(c, "read")
           ELSE /\ proc' = [proc EXCEPT ![p].sem = NoCall]
                /\ Failed(c, "pipe")
        /\ UNCHANGED <<timed, closing, cur, started, ran, left>>

\* isRequest: a request of the server is answered, or both sides would wait.
\* Fault: it is skipped like a notification.
SkipRequest(f) == FALSE
Answers(f) == f.kind = "request"

\* isReplyTo
\* Fault: the first response is taken for the answer.
AnyReply(f, c) == f.kind = "reply"
IsReplyTo(f, c) == f.kind = "reply" /\ f.id = c

\* One frame of stdout.
Read(c) ==
    LET p == call[c].p
        f == Head(proc[p].out)
    IN  /\ call[c].pc = "read" /\ proc[p].out # <<>>
        /\ IF IsReplyTo(f, c)
           THEN /\ proc' = [proc EXCEPT ![p].out = Tail(@), ![p].sem = NoCall]
                /\ call' = [call EXCEPT ![c].pc = "done",
                                        ![c].res = IF f.id = c THEN "own" ELSE "foreign"]
           ELSE /\ proc' = [proc EXCEPT ![p].out = Tail(@), ![p].asks = @ /\ ~Answers(f)]
                /\ call' = call
        /\ UNCHANGED <<timed, closing, cur, started, ran, left>>

\* End of file.
ReadFails(c) ==
    LET p == call[c].p
    IN  /\ call[c].pc = "read" /\ proc[p].out = <<>> /\ ~proc[p].alive
        /\ proc' = [proc EXCEPT ![p].sem = NoCall]
        /\ Failed(c, "pipe")
        /\ UNCHANGED <<timed, closing, cur, started, ran, left>>

\* readLine on ctx.Done, the timeout of the exchange or a cancelled turn: the
\* server is killed, because its answer would otherwise come to a later call.
Interrupt(c, cancelled) ==
    LET p == call[c].p
    IN  /\ call[c].pc = "read"
        /\ IF cancelled
           THEN left.cancels > 0 /\ left' = [left EXCEPT !.cancels = @ - 1]
           ELSE timed /\ left' = left
        /\ proc' = [Killed({p}) EXCEPT ![p].sem = NoCall]
        /\ Failed(c, "ctx")
        /\ UNCHANGED <<timed, closing, cur, started, ran>>

(***************************************************************************)
(* The server                                                              *)
(***************************************************************************)

ServerRuns(p, c) ==
    /\ proc[p].alive /\ c \in proc[p].got \ proc[p].run /\ ~proc[p].asks
    /\ proc' = [proc EXCEPT ![p].run = @ \cup {c}]
    /\ ran' = [ran EXCEPT ![c] = @ + 1]
    /\ UNCHANGED <<timed, closing, cur, started, call, left>>

ServerAnswers(p, c) ==
    /\ proc[p].alive /\ c \in proc[p].got \cap proc[p].run /\ ~proc[p].asks
    /\ proc' = [proc EXCEPT ![p].got = @ \ {c},
                            ![p].out = Append(@, [kind |-> "reply", id |-> c])]
    /\ UNCHANGED <<timed, closing, cur, started, call, ran, left>>

\* A request of its own, a notification, or an answer for the second time.
ServerNoise(p) ==
    /\ proc[p].alive /\ ~proc[p].asks /\ left.noise > 0
    /\ left' = [left EXCEPT !.noise = @ - 1]
    /\ \/ /\ proc[p].got # {}
          /\ proc' = [proc EXCEPT ![p].asks = TRUE,
                                  ![p].out = Append(@, [kind |-> "request", id |-> 0])]
       \/ proc' = [proc EXCEPT ![p].out = Append(@, [kind |-> "note", id |-> 0])]
       \/ \E c \in proc[p].run \ proc[p].got :
             proc' = [proc EXCEPT ![p].out = Append(@, [kind |-> "reply", id |-> c])]
    /\ UNCHANGED <<timed, closing, cur, started, call, ran>>

ServerDies(p) ==
    /\ proc[p].alive /\ left.deaths > 0
    /\ left' = [left EXCEPT !.deaths = @ - 1]
    /\ proc' = Killed({p})
    /\ UNCHANGED <<timed, closing, cur, started, call, ran>>

Steps(c) ==
    \/ Ensure(c) \/ Pick(c) \/ Recover(c) \/ Acquire(c) \/ Write(c) \/ Read(c) \/ ReadFails(c)
    \/ Interrupt(c, FALSE)

Serves(p) == \E c \in Calls : ServerRuns(p, c) \/ ServerAnswers(p, c)

Next ==
    \/ \E c \in Calls : Call(c) \/ Steps(c) \/ CancelQueued(c) \/ Interrupt(c, TRUE)
    \/ \E p \in Procs : Serves(p) \/ ServerNoise(p) \/ ServerDies(p)
    \/ Close

\* A goroutine runs on; a server that lives and waits for nothing serves.
Spec ==
    /\ Init /\ [][Next]_vars
    /\ WF_vars((\E c \in Calls : Steps(c)) \/ \E p \in Procs : Serves(p))

(***************************************************************************)
(* Properties                                                              *)
(***************************************************************************)

TypeOK ==
    /\ timed \in BOOLEAN /\ closing \in {"no", "flagged", "done"}
    /\ cur \in 0..started /\ started \in 0..MaxStarts
    /\ \A p \in Procs : proc[p].sem \in Calls \cup {NoCall} /\ proc[p].got \subseteq Calls
    /\ \A c \in Calls :
          /\ call[c].pc \in {"idle", "ensure", "pick", "queue", "write", "read", "reset", "done"}
          /\ call[c].p \in 0..MaxStarts /\ call[c].try \in {1, 2}

\* A call that returned an answer returned its own, whatever came before it on
\* the pipe.
OwnAnswer == \A c \in Calls : call[c].res # "foreign"

\* Only the process in use runs: restarts leave none behind, and once the
\* transport is closed nothing starts one again, whatever calls are under way.
OneProcess ==
    /\ \A p \in Procs : proc[p].alive => p = cur
    /\ closing = "done" => cur = 0

\* Calls of one batch never read each other's exchange: a process has one call
\* between its request and its answer.
OneExchange ==
    \A p \in Procs : Cardinality({c \in Calls : call[c].p = p /\ call[c].pc \in {"write", "read"}}) <= 1

\* Every call ends: with a timeout whatever the server does, and without one
\* when the server only waits for an answer to its own request.
CallsEnd == \A c \in Calls : call[c].pc = "ensure" ~> call[c].pc = "done"

\* What a caller sees of the calls.
Phases == [c \in Calls |-> IF call[c].pc \in {"idle", "done"} THEN call[c].pc ELSE "running"]
Results == [c \in Calls |-> call[c].res]

\* The stdio transport keeps the promise of every transport.
T == INSTANCE ToolTransport WITH phase <- Phases, result <- Results
TransportSpec == T!Spec
=============================================================================
