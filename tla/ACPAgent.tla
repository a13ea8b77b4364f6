------------------------------ MODULE ACPAgent ------------------------------
(***************************************************************************)
(* The ACP agent of src/ext/acp: one editor on stdin and stdout, one       *)
(* Engine, one bound session at a time.                                    *)
(*                                                                         *)
(* The read loop (serve) answers most methods itself; a prompt, a load and *)
(* an exclusive slash command (/goal) each run in a goroutine; settings go *)
(* through a queue with one worker.  All of them meet in the agent's maps  *)
(* (cancels, pending, sessions, the remembered rules), in the engine's     *)
(* promptMu, which a run holds from its first step to its last, and in the *)
(* engine's one token callback, which every forwarder overwrites.          *)
(*                                                                         *)
(* A request is a record of req.  Its run makes at most MaxCalls model     *)
(* calls; a call that wants a power tool asks the editor first.            *)
(*                                                                         *)
(* An operator whose comment starts with "Fault:" is a wrong version of    *)
(* the definition below it, used to see that a property notices.           *)
(***************************************************************************)
EXTENDS Naturals, Sequences, FiniteSets, SequencesExt

CONSTANTS
    Editors,    \* bound: how many requests of each kind an editor makes, and
                \* whether the engine's provider streams
    Sids,       \* the session ids it names; 0 when it names none
    MaxCalls,   \* bound: model calls of one run
    QueueCap    \* capacity of configRequests (8 in the code)

VARIABLES
    editor,     \* the editor this agent serves
    loop,       \* the read loop: "reading", "kept" by session/new, or "ended"
    req,        \* the requests read, with the state of their handlers
    bound,      \* boundSID, 0 for none
    fresh,      \* freshAfterClose
    sid,        \* the session the engine holds
    sessions,   \* session id -> approvals ("prompt" or "always")
    cancels,    \* session id -> the prompt whose cancel is registered
    active,     \* activeSID
    allow,      \* remembered "allow always": the sessions' ages that gave it
    queue,      \* configRequests
    token,      \* the engine's OnToken: 0, a forwarder, or a run's wrapper
    holder,     \* the request whose run holds promptMu
    forwarders, \* the requests whose event listener is installed
    closes      \* closes handled, the age of the present session

agentVars == <<bound, fresh, sessions, cancels, active, allow, closes>>
engineVars == <<sid, token, holder, forwarders>>
serveVars == <<editor, loop, queue>>
vars == <<serveVars, req, agentVars, engineVars>>

Ids == DOMAIN req
NoToken == [run |-> FALSE, of |-> 0]
Forwarder(i) == [run |-> FALSE, of |-> i]
Wrapper(i) == [run |-> TRUE, of |-> i]

(* The editor has opened its session. *)
Init ==
    /\ editor \in Editors
    /\ loop = "reading"
    /\ req = <<>>
    /\ bound = 1 /\ fresh = FALSE /\ sid = 1
    /\ sessions = <<"prompt">> /\ cancels = <<>> /\ active = 0 /\ allow = {}
    /\ queue = <<>>
    /\ token = NoToken /\ holder = 0 /\ forwarders = {}
    /\ closes = 0

-----------------------------------------------------------------------------
(* Requests *)

Request(kind, s, pc) ==
    [kind |-> kind, sid |-> s, pc |-> pc, cancelled |-> FALSE,
     saved |-> 0, streamed |-> FALSE, calls |-> 0, shown |-> FALSE, alone |-> TRUE,
     reply |-> "none", age |-> 0, answer |-> "none"]

(* Every handler runs under the context that ends with stdin. *)
Cancelled(i) == loop = "ended" \/ req[i].cancelled
Answered(i) == req[i].answer # "none"
Overlapping == {i \in Ids : req[i].kind \in {"prompt", "goal"} /\ ~Answered(i)}

Refused(kind, what) == [Request(kind, 0, "done") EXCEPT !.answer = what]
Reply(i, what) ==
    [req EXCEPT ![i] = [Request(@.kind, 0, "done") EXCEPT
        !.answer = what, !.alone = req[i].alone, !.shown = req[i].shown]]
At(i, pc) == i \in Ids /\ req[i].pc = pc
Goto(i, pc) == [req EXCEPT ![i].pc = pc]

Without(f, s) == [x \in DOMAIN f \ {s} |-> f[x]]
With(f, s, v) == [x \in DOMAIN f \cup {s} |-> IF x = s THEN v ELSE f[x]]

(* requireBound *)
RequireBound(s) == bound # 0 /\ (s = 0 \/ s = bound)

(* bind *)
Bind(s) ==
    /\ sessions' = IF s \in DOMAIN sessions THEN sessions ELSE With(sessions, s, "prompt")
    /\ bound' = s
    /\ fresh' = FALSE

(* sessionApprovals *)
Approvals ==
    LET s == IF active # 0 THEN active ELSE bound
    IN  IF s \in DOMAIN sessions THEN sessions[s] ELSE "prompt"

-----------------------------------------------------------------------------
(* The read loop *)

(* A new request: prompts and exclusive slash commands in flight together *)
(* are not alone any more.                                                *)
Admit(r) ==
    LET others == IF r.kind \in {"prompt", "goal"} THEN Overlapping ELSE {}
    IN  Append([i \in Ids |-> IF i \in others THEN [req[i] EXCEPT !.alone = FALSE] ELSE req[i]],
               [r EXCEPT !.alone = (others = {})])

CanRead(kind) ==
    /\ loop = "reading"
    /\ Cardinality({i \in Ids : req[i].kind = kind}) < editor.most[kind]

(* session/prompt, session/load and slash run off the read loop. *)
ReadPrompt ==
    \E s \in Sids :
        /\ CanRead("prompt")
        /\ req' = Admit(Request("prompt", s, "start"))
        /\ UNCHANGED <<serveVars, agentVars, engineVars>>

ReadGoal ==
    /\ CanRead("goal")
    /\ req' = Admit(Request("goal", 0, "start"))
    /\ UNCHANGED <<serveVars, agentVars, engineVars>>

ReadLoad ==
    \E s \in Sids \ {0} :
        /\ CanRead("load")
        /\ req' = Admit(Request("load", s, "start"))
        /\ UNCHANGED <<serveVars, agentVars, engineVars>>

(* A setting is queued, or refused when the queue is full. *)
ReadSetting ==
    \E s \in Sids \ {0} :
        /\ CanRead("always")
        /\ IF Len(queue) < QueueCap
           THEN /\ queue' = Append(queue, Len(req) + 1)
                /\ req' = Append(req, Request("always", s, "queued"))
           ELSE /\ queue' = queue
                /\ req' = Append(req, Refused("always", "full"))
        /\ UNCHANGED <<editor, loop, agentVars, engineVars>>

(* session/new: refused while a session is bound; after a close the read *)
(* loop itself waits in BeginSession for promptMu.                       *)
ReadNew ==
    /\ CanRead("new")
    /\ \/ /\ bound # 0
          /\ req' = Append(req, Refused("new", "refused"))
          /\ UNCHANGED <<loop, bound, fresh, sessions>>
       \/ /\ bound = 0 /\ fresh
          /\ req' = Append(req, Request("new", 0, "begin"))
          /\ loop' = "kept"
          /\ UNCHANGED <<bound, fresh, sessions>>
       \/ /\ bound = 0 /\ ~fresh
          /\ req' = Append(req, Refused("new", "ok"))
          /\ Bind(sid)
          /\ loop' = loop
    /\ UNCHANGED <<editor, queue, cancels, active, allow, closes, engineVars>>

(* BeginSession: a fresh session, or an error from the disk. *)
BeginSession(i) ==
    /\ At(i, "begin") /\ holder = 0
    /\ loop' = "reading"
    /\ \/ /\ sid' = sid + 1
          /\ Bind(sid + 1)
          /\ req' = Reply(i, "ok")
       \/ /\ req' = Reply(i, "error")
          /\ UNCHANGED <<sid, bound, fresh, sessions>>
    /\ UNCHANGED <<editor, queue, cancels, active, allow, closes, token, holder, forwarders>>

(* session/close cancels the session's prompt, forgets its mode, its rules *)
(* and its cancel, and answers without waiting for the prompt.             *)
ReadClose ==
    \E s \in Sids :
        /\ CanRead("close")
        /\ LET which == IF s = 0 THEN bound ELSE s
               p     == IF which \in DOMAIN cancels THEN cancels[which] ELSE 0
           IN  IF bound # 0 /\ which # bound
               THEN /\ req' = Append(req, Refused("close", "refused"))
                    /\ UNCHANGED agentVars
               ELSE /\ req' = Append([i \in Ids |-> IF i = p THEN [req[i] EXCEPT !.cancelled = TRUE]
                                                     ELSE req[i]],
                                     Refused("close", "ok"))
                    /\ cancels' = Without(cancels, which)
                    /\ sessions' = Without(sessions, which)
                    /\ allow' = {}
                    /\ bound' = IF bound = which THEN 0 ELSE bound
                    /\ fresh' = (fresh \/ bound = which)
                    /\ closes' = closes + 1
                    /\ active' = active
        /\ UNCHANGED <<serveVars, engineVars>>

(* session/cancel *)
ReadCancel(s) ==
    /\ loop = "reading" /\ s \in DOMAIN cancels
    /\ req' = [req EXCEPT ![cancels[s]].cancelled = TRUE]
    /\ UNCHANGED <<serveVars, agentVars, engineVars>>

(* deliverClientResponse: to the request with this id, once. *)
Deliver(i, what) == [req EXCEPT ![i].reply = what]

ReadReply(i) ==
    \E what \in {"allow_once", "allow_always", "reject", "unsupported"} :
        /\ loop = "reading" /\ At(i, "asking") /\ req[i].reply = "none"
        /\ req' = Deliver(i, what)
        /\ UNCHANGED <<serveVars, agentVars, engineVars>>

(* stdin ends, or the loop sees that a write failed. *)
ReadEnd ==
    /\ loop = "reading"
    /\ loop' = "ended"
    /\ UNCHANGED <<editor, queue, req, agentVars, engineVars>>

-----------------------------------------------------------------------------
(* session/load and settings.  Their answers (writeSessionOpen) also wait  *)
(* for the gateway's catalog, in a goroutine that changes nothing else.   *)

(* The engine's transcript is this session's, or the load is refused. *)
LoadCheck(i) ==
    /\ At(i, "start") /\ req[i].kind = "load"
    /\ req' = IF \/ bound \notin {0, req[i].sid}
                 \/ bound = 0 /\ sid # req[i].sid
              THEN Reply(i, "refused") ELSE Goto(i, "bind")
    /\ UNCHANGED <<serveVars, agentVars, engineVars>>

LoadBind(i) ==
    /\ At(i, "bind")
    /\ Bind(req[i].sid)
    /\ req' = Reply(i, "ok")
    /\ UNCHANGED <<serveVars, cancels, active, allow, closes, engineVars>>

(* The worker takes a setting and asks whether its session is bound ... *)
TakeSetting ==
    /\ queue # <<>> /\ loop # "ended"
    /\ ~\E i \in Ids : At(i, "apply")
    /\ queue' = Tail(queue)
    /\ LET i == Head(queue)
       IN  req' = IF RequireBound(req[i].sid) THEN Goto(i, "apply") ELSE Reply(i, "refused")
    /\ UNCHANGED <<editor, loop, agentVars, engineVars>>

(* ... then changes it: applyApprovalsConfig makes the entry it misses. *)
ApplySetting(i) ==
    /\ At(i, "apply")
    /\ sessions' = With(sessions, req[i].sid, "always")
    /\ req' = Reply(i, "ok")
    /\ UNCHANGED <<serveVars, bound, fresh, cancels, active, allow, closes, engineVars>>

-----------------------------------------------------------------------------
(* session/prompt *)

PromptCheck(i) ==
    /\ At(i, "start") /\ req[i].kind = "prompt"
    /\ req' = IF RequireBound(req[i].sid) THEN Goto(i, "bound") ELSE Reply(i, "refused")
    /\ UNCHANGED <<serveVars, agentVars, engineVars>>

(* startLiveForward: the token callback is replaced, a listener added. *)
StartForward(i) ==
    /\ token' = Forwarder(i)
    /\ forwarders' = forwarders \cup {i}
    /\ req' = Goto(i, "waiting")

(* Fault: a second prompt takes the slot over. *)
RegisterAnyway(i) ==
    /\ At(i, "bound")
    /\ StartForward(i)
    /\ cancels' = With(cancels, req[i].sid, i)
    /\ active' = req[i].sid
    /\ UNCHANGED <<serveVars, bound, fresh, sessions, allow, closes, sid, holder>>

(* One prompt per session: its cancel is the slot. *)
Register(i) ==
    /\ At(i, "bound")
    /\ LET s == req[i].sid
       IN  IF s \in DOMAIN cancels
           THEN /\ req' = Reply(i, "in flight")
                /\ UNCHANGED <<cancels, active, token, forwarders>>
           ELSE /\ StartForward(i)
                /\ cancels' = With(cancels, s, i)
                /\ active' = s
    /\ UNCHANGED <<serveVars, bound, fresh, sessions, allow, closes, sid, holder>>

(* slash: an exclusive command asks first whether a run is in flight; it *)
(* has no cancel of its own.                                             *)
GoalCheck(i) ==
    /\ At(i, "start") /\ req[i].kind = "goal"
    /\ req' = IF holder # 0 THEN Reply(i, "busy") ELSE Goto(i, "forward")
    /\ UNCHANGED <<serveVars, agentVars, engineVars>>

GoalForward(i) ==
    /\ At(i, "forward")
    /\ StartForward(i)
    /\ UNCHANGED <<serveVars, agentVars, sid, holder>>

(* The command may end without a run: an unknown goal, a bad plan. *)
GoalEndsEarly(i) ==
    /\ At(i, "waiting") /\ req[i].kind = "goal"
    /\ req' = Goto(i, "ran")
    /\ UNCHANGED <<serveVars, agentVars, engineVars>>

-----------------------------------------------------------------------------
(* A run of the engine, as far as the agent sees it *)

(* PromptWith takes promptMu; a run whose context is over ends at once, any *)
(* other keeps the token callback it finds and installs its own.            *)
RunStart(i) ==
    /\ At(i, "waiting") /\ holder = 0
    /\ IF Cancelled(i)
       THEN req' = Goto(i, "ran") /\ UNCHANGED <<token, holder>>
       ELSE /\ holder' = i
            /\ req' = [req EXCEPT ![i].pc = "running", ![i].saved = token.of, ![i].calls = 0]
            /\ token' = Wrapper(i)
    /\ UNCHANGED <<serveVars, agentVars, sid, forwarders>>

(* One model call: its text goes to the callback installed when it begins. *)
Call(i) ==
    /\ At(i, "running") /\ ~Cancelled(i) /\ req[i].calls < MaxCalls
    /\ LET f == IF ~editor.streams THEN 0
                 ELSE IF token.run THEN req[token.of].saved ELSE token.of
           q == [req EXCEPT ![i].calls = @ + 1, ![i].shown = (f # 0)]
           r == IF f = 0 \/ Answered(f) THEN q ELSE [q EXCEPT ![f].streamed = TRUE]
       IN  \/ req' = [r EXCEPT ![i].pc = "ending"]
           \/ req[i].calls + 1 < MaxCalls /\ req' = [r EXCEPT ![i].pc = "tool"]
    /\ UNCHANGED <<serveVars, agentVars, engineVars>>

(* preTool: approvals, then the remembered rules, then the editor. *)
PreTool(i) ==
    /\ At(i, "tool")
    /\ req' = IF Approvals = "always" THEN [req EXCEPT ![i].pc = "acting", ![i].reply = "always"]
              ELSE IF allow # {} THEN [req EXCEPT ![i].pc = "acting", ![i].reply = "rule"]
              ELSE [req EXCEPT ![i].pc = "asking", ![i].age = closes]
    /\ UNCHANGED <<serveVars, agentVars, engineVars>>

Told(i, pc) == [req EXCEPT ![i].pc = pc, ![i].reply = "none", ![i].age = 0]

(* Fault: an editor without the method does not stop the tool. *)
AllowsUnlessRejected(what) == what # "reject"

(* parsePermissionOutcome and the errors of callClient: only an allow allows. *)
Allows(what) == what \in {"allow_once", "allow_always"}

Decide(i) ==
    /\ At(i, "asking") /\ req[i].reply # "none"
    /\ req' = IF Allows(req[i].reply) THEN Goto(i, "acting") ELSE Told(i, "running")
    /\ allow' = IF req[i].reply = "allow_always" THEN allow \cup {req[i].age} ELSE allow
    /\ UNCHANGED <<serveVars, bound, fresh, sessions, cancels, active, closes, engineVars>>

(* Fault: only the editor's cancel ends the wait, not the end of stdin. *)
AskCancelledByEditor(i) ==
    /\ At(i, "asking") /\ req[i].cancelled
    /\ req' = Told(i, "ending")
    /\ UNCHANGED <<serveVars, agentVars, engineVars>>

(* The context ends before the reply. *)
AskCancelled(i) ==
    /\ At(i, "asking") /\ Cancelled(i)
    /\ req' = Told(i, "ending")
    /\ UNCHANGED <<serveVars, agentVars, engineVars>>

Act(i) ==
    /\ At(i, "acting")
    /\ req' = Told(i, "running")
    /\ UNCHANGED <<serveVars, agentVars, engineVars>>

RunCancelled(i) ==
    /\ At(i, "running") /\ Cancelled(i)
    /\ req' = Goto(i, "ending")
    /\ UNCHANGED <<serveVars, agentVars, engineVars>>

(* The run's deferred calls put back the callback it found; a goal may run *)
(* another turn.                                                           *)
RunEnd(i) ==
    /\ At(i, "ending")
    /\ holder' = 0
    /\ token' = Forwarder(req[i].saved)
    /\ LET q == [req EXCEPT ![i].saved = 0, ![i].calls = 0]
       IN  \/ req' = [q EXCEPT ![i].pc = "ran"]
           \/ /\ req[i].kind = "goal" /\ ~Cancelled(i)
              /\ req' = [q EXCEPT ![i].pc = "waiting"]
    /\ UNCHANGED <<serveVars, agentVars, sid, forwarders>>

-----------------------------------------------------------------------------
(* The end of a prompt *)

(* Fault: only the listener is removed. *)
StopListenerOnly(i) == token' = token /\ forwarders' = forwarders \ {i}

(* liveForward.stop *)
StopForward(i) == token' = NoToken /\ forwarders' = forwarders \ {i}

Final(i) == IF Cancelled(i) THEN "cancelled" ELSE "end_turn"

(* Fault: only what was streamed is shown. *)
ShownIfStreamed(i) == req[i].shown

(* Text that no callback streamed is sent whole. *)
Shown(i) == req[i].shown \/ ~req[i].streamed

Answer(i, what) ==
    [Reply(i, what) EXCEPT ![i].shown = what = "end_turn" /\ Shown(i)]

FreeSlot(i) ==
    /\ cancels' = Without(cancels, req[i].sid)
    /\ active' = IF active = req[i].sid THEN 0 ELSE active

(* Fault: the slot is freed by the deferred call, after the answer. *)
CleanupAfterwards(i) ==
    /\ \/ /\ At(i, "ran") /\ req[i].kind = "prompt"
          /\ StopForward(i)
          /\ req' = [Answer(i, Final(i)) EXCEPT ![i].pc = "answered", ![i].sid = req[i].sid]
          /\ UNCHANGED <<cancels, active>>
       \/ /\ At(i, "answered")
          /\ req' = [Goto(i, "done") EXCEPT ![i].sid = 0]
          /\ FreeSlot(i)
          /\ UNCHANGED <<token, forwarders>>
    /\ UNCHANGED <<serveVars, bound, fresh, sessions, allow, closes, sid, holder>>

(* cleanup: the slot of the session is freed before the answer is written, *)
(* whoever holds it by then.  The stop reason was taken before.            *)
Cleanup(i) ==
    /\ At(i, "ran") /\ req[i].kind = "prompt"
    /\ StopForward(i)
    /\ FreeSlot(i)
    /\ req' = Goto(i, Final(i))
    /\ UNCHANGED <<serveVars, bound, fresh, sessions, allow, closes, sid, holder>>

GoalReturns(i) ==
    /\ At(i, "ran") /\ req[i].kind = "goal"
    /\ StopForward(i)
    /\ req' = Reply(i, "ok")
    /\ UNCHANGED <<serveVars, agentVars, sid, holder>>

Respond(i) ==
    /\ i \in Ids /\ req[i].pc \in {"cancelled", "end_turn"}
    /\ req' = Answer(i, req[i].pc)
    /\ UNCHANGED <<serveVars, agentVars, engineVars>>

-----------------------------------------------------------------------------
Work(i) ==
    \/ BeginSession(i) \/ LoadCheck(i) \/ LoadBind(i) \/ ApplySetting(i)
    \/ PromptCheck(i) \/ Register(i) \/ GoalCheck(i) \/ GoalForward(i) \/ GoalEndsEarly(i)
    \/ RunStart(i) \/ Call(i) \/ PreTool(i) \/ Decide(i) \/ AskCancelled(i) \/ Act(i)
    \/ RunCancelled(i) \/ RunEnd(i) \/ Cleanup(i) \/ GoalReturns(i) \/ Respond(i)

Editor ==
    \/ ReadPrompt \/ ReadGoal \/ ReadLoad \/ ReadSetting \/ ReadNew \/ ReadClose
    \/ \E s \in Sids : ReadCancel(s)
    \/ \E i \in Ids : ReadReply(i)

Next == Editor \/ ReadEnd \/ TakeSetting \/ \E i \in Ids : Work(i)

(* Some handler that can go on does; what the editor sends, and when it *)
(* answers, is its own affair.                                          *)
Fairness == WF_vars(TakeSetting \/ \E i \in Ids : Work(i))

Spec == Init /\ [][Next]_vars /\ Fairness

-----------------------------------------------------------------------------
(* Properties *)

(* A power tool runs only on the editor's allow to this very call, on a rule *)
(* the editor made, or under approvals "always" (agent_perm.go preTool: a    *)
(* gate, not fail-open).                                                     *)
Gated ==
    \A i \in Ids : At(i, "acting") =>
        req[i].reply \in {"allow_once", "allow_always", "always", "rule"}

(* A prompt sent when every earlier one was answered is never told that one  *)
(* is in flight (agent.go: the slot is released before the final response).  *)
SlotIsFree == \A i \in Ids : req[i].answer = "in flight" => ~req[i].alone

(* As long as no session was closed, session/cancel reaches the prompt that *)
(* runs: its cancel stays registered until the slot is freed.               *)
CancelReaches ==
    closes = 0 => \A i \in Ids :
        req[i].kind = "prompt" /\ req[i].pc \in {"waiting", "running", "tool",
            "asking", "acting", "ending", "ran"}
        => req[i].sid \in DOMAIN cancels /\ cancels[req[i].sid] = i

(* A prompt that was alone has shown its answer when it is answered: its     *)
(* last call was streamed, or the text was sent whole (agent.go, "If no      *)
(* streaming happened").                                                     *)
ShownAlone ==
    \A i \in Ids : req[i].alone /\ req[i].answer = "end_turn" => req[i].shown

(* When everything is answered no listener, no token callback, no cancel    *)
(* and no run is left behind (startLiveForward: "Call stop exactly once").  *)
NothingLeft ==
    (\A i \in Ids : Answered(i)) =>
        token = NoToken /\ forwarders = {} /\ cancels = <<>> /\ holder = 0

(* Once the read loop has ended every handler answers and ends, whatever it *)
(* waits for: serve returns (wg.Wait).  Settings still queued are dropped.  *)
ServeEnds ==
    loop = "ended" ~> \A i \in Ids : Answered(i) \/ req[i].pc = "queued"

(* The read loop never waits for a run that waits for the read loop: a      *)
(* permission reply is read by nobody else (agent_rpc.go, "The serve loop   *)
(* must keep reading stdin or this blocks forever").  It does, in           *)
(* session/new after a close.                                               *)
LoopIsFree ==
    ~(loop = "kept" /\ holder # 0 /\ At(holder, "asking") /\ ~Cancelled(holder)
      /\ req[holder].reply = "none")

(* What the code does not keep, each refuted by TLC:                        *)
(* "allow always for this session" ends with the session;                   *)
RulesEnd == \A age \in allow : age = closes

(* session/cancel reaches every prompt in flight, whatever was closed;      *)
CancelAlwaysReaches ==
    \A i \in Ids : req[i].kind = "prompt" /\ req[i].pc = "running" /\ ~req[i].cancelled
        => \E s \in DOMAIN cancels : cancels[s] = i

(* the answer of every prompt is shown;                                     *)
AnswerShown == \A i \in Ids : req[i].answer = "end_turn" => req[i].shown

(* the bound session is the one the engine holds.                           *)
BoundIsHeld == bound # 0 => bound = sid
=============================================================================
