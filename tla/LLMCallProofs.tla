--------------------------- MODULE LLMCallProofs ---------------------------
(***************************************************************************)
(* The run of the client.  First the two budgets of the request loop, for  *)
(* every number of attempts and of refused connections and for every call  *)
(* the loop is made for; then the model, effort and wire of the client     *)
(* under the callers that build and change it; last what one call sends    *)
(* and returns, for every history, server and length of a reply.           *)
(*                                                                         *)
(* BudgetsSeparate is not inductive: that the tail of doJSON is never      *)
(* reached, and that a failure that is returned used up its own budget,    *)
(* follow from how the ordinal of a request, the refused connections and   *)
(* the other failures add up (Counted), and from both budgets still having *)
(* room while the loop goes on (Room).                                     *)
(*                                                                         *)
(* ChoicesKept needs what the choice is before there is a client (Agreed), *)
(* that a builder's snapshot is still the configuration and that who needs *)
(* the client has it (Served): a setter that goes on without one does so   *)
(* only when no build can succeed any more.                                *)
(*                                                                         *)
(* ExchangeWhole needs, of a stream that is being read (Going), that the   *)
(* screen shows what was parsed, that each call has the id of its place    *)
(* and fragments of its own, and that an item stands for the place it was  *)
(* announced with; of a request, that the items of a history are those of  *)
(* its messages in their order (ItemsFit, Laid).                           *)
(***************************************************************************)
EXTENDS LLMMC, FiniteSetTheorems, SequenceTheorems, WellFoundedInduction, TLAPS

RetryType ==
    /\ path \in {"stream", "json"}
    /\ pc \in {"idle", "send", "wait", "answered"}
    /\ tries \in Nat /\ refused \in Nat /\ refusals \in Nat /\ failures \in Nat

(* Every request so far, but for the one that is to be sent, was a refused *)
(* connection or another failure.                                          *)
Counted ==
    /\ refused = refusals
    /\ pc = "send" => tries = failures + refusals + 1
    /\ pc = "wait" => tries = failures + refusals

Room ==
    pc \in {"send", "wait"} =>
        /\ failures < MaxHTTPAttempts
        /\ refusals <= MaxConnRefusedAttempts
        /\ answer = "none"
        /\ last # "headers"

RetryInv == RetryType /\ Counted /\ Room /\ BudgetsSeparate

(* A loop that has not begun, or has ended, has spent nothing.             *)
LEMMA RetryInvInit == ASSUME Init PROVE RetryInv
  BY RetryAssumption DEF Init, RetryInit, RetryInv, RetryType, Counted, Room, BudgetsSeparate,
                         RetryableReply, RetryAssumption

(* The loop is entered with both budgets whole.                            *)
LEMMA BeginStep == ASSUME RetryInv, Enter PROVE RetryInv'
  BY RetryAssumption DEF Enter, BeginRequest, RetryInv, RetryType, Counted, Room,
                         BudgetsSeparate, RetryableReply, RetryAssumption

(* A refused connection spends the budget of refused connections only.     *)
LEMMA RefuseStep ==
    ASSUME RetryInv, pc = "send", Refuse, UNCHANGED <<path, tries>>
    PROVE  RetryInv'
<1>1. /\ RetryType /\ Counted /\ Room /\ BudgetsSeparate
  BY DEF RetryInv
<1>2. refusals' = refusals + 1 /\ refused' = refused + 1 /\ failures' = failures
      /\ tries' = tries /\ last' = "refused" /\ path' = path
  BY DEF Refuse
<1>3. CASE refused' > MaxConnRefusedAttempts
  <2>1. pc' = "answered" /\ answer' = "refused"
    BY <1>3 DEF Refuse, Answered
  <2>2. refusals' = MaxConnRefusedAttempts + 1
    BY <1>1, <1>2, <1>3, RetryAssumption DEF RetryType, Counted, Room, RetryAssumption
  <2>3. QED
    BY <1>1, <1>2, <2>1, <2>2, RetryAssumption
    DEF RetryInv, RetryType, Counted, Room, BudgetsSeparate, RetryableReply, RetryAssumption
<1>4. CASE ~(refused' > MaxConnRefusedAttempts)
  <2>1. pc' = "wait" /\ answer' = answer
    BY <1>4 DEF Refuse, Backoff
  <2>2. QED
    BY <1>1, <1>2, <1>4, <2>1, RetryAssumption
    DEF RetryInv, RetryType, Counted, Room, BudgetsSeparate, RetryableReply, RetryAssumption
<1>5. QED
  BY <1>3, <1>4

(* Another failure spends the generic budget only, and is returned when    *)
(* it was the last that budget allows.                                     *)
LEMMA RespondStep ==
    ASSUME RetryInv, pc = "send", NEW a \in Answers(path) \ {"refused"}, Respond(a),
           UNCHANGED <<path, tries>>
    PROVE  RetryInv'
<1>1. /\ RetryType /\ Counted /\ Room /\ BudgetsSeparate
  BY DEF RetryInv
<1>2. failures' = failures + 1 /\ refused' = refused /\ refusals' = refusals
      /\ tries' = tries /\ last' = a /\ path' = path
  BY DEF Respond
<1>3. Generic = failures'
  BY <1>1, <1>2 DEF Generic, RetryType, Counted
<1>4. a \notin {"refused", "tail", "none"}
  BY DEF Answers
<1>5. CASE a \in RetryableNetErr \cup RetryableReply /\ Generic < MaxHTTPAttempts
  <2>1. pc' = "wait" /\ answer' = answer
    BY <1>5 DEF Respond, Backoff
  <2>2. a # "headers"
    BY <1>5 DEF RetryableNetErr, RetryableReply
  <2>3. QED
    BY <1>1, <1>2, <1>3, <1>5, <2>1, <2>2, RetryAssumption
    DEF RetryInv, RetryType, Counted, Room, BudgetsSeparate, RetryableReply, RetryAssumption
<1>6. CASE ~(a \in RetryableNetErr \cup RetryableReply /\ Generic < MaxHTTPAttempts)
  <2>1. pc' = "answered" /\ answer' = a
    BY <1>6 DEF Respond, Answered
  <2>2. failures' <= MaxHTTPAttempts
    BY <1>1, <1>2, RetryAssumption DEF Room, RetryType, RetryAssumption
  <2>3. a \in RetryableReply \cup {"reset", "stall"} => failures' = MaxHTTPAttempts
    BY <1>1, <1>2, <1>3, <1>6, <2>2, RetryAssumption
    DEF RetryableNetErr, RetryType, RetryAssumption
  <2>4. QED
    BY <1>1, <1>2, <1>4, <2>1, <2>2, <2>3, RetryAssumption
    DEF RetryInv, RetryType, Counted, Room, BudgetsSeparate, RetryAssumption, RetryableReply
<1>7. QED
  BY <1>5, <1>6

(* A wait ends in another request: both budgets have room, so the sum the  *)
(* JSON loop counts to is not exceeded.                                    *)
LEMMA ResumeStep == ASSUME RetryInv, Resume PROVE RetryInv'
<1>1. /\ RetryType /\ Counted /\ Room /\ BudgetsSeparate
  BY DEF RetryInv
<1>2. /\ pc = "wait" /\ tries' = tries + 1 /\ path' = path /\ refused' = refused
      /\ last' = last /\ refusals' = refusals /\ failures' = failures
  BY DEF Resume
<1>3. ~(tries' > MaxHTTPAttempts + MaxConnRefusedAttempts)
  BY <1>1, <1>2, RetryAssumption DEF RetryType, Counted, Room, RetryAssumption
<1>4. pc' = "send" /\ answer' = answer
  BY <1>3 DEF Resume
<1>5. QED
  BY <1>1, <1>2, <1>4, RetryAssumption
  DEF RetryInv, RetryType, Counted, Room, BudgetsSeparate, RetryableReply, RetryAssumption

LEMMA RetryStep == ASSUME RetryInv, RetryNext PROVE RetryInv'
<1>1. CASE Attempt
  <2>1. pc = "send" /\ UNCHANGED <<path, tries>>
    BY <1>1 DEF Attempt
  <2>2. CASE Refuse
    BY <2>1, <2>2, RefuseStep
  <2>3. ASSUME NEW a \in Answers(path) \ {"refused"}, Respond(a) PROVE RetryInv'
    BY <2>1, <2>3, RespondStep
  <2>4. QED
    BY <1>1, <2>2, <2>3 DEF Attempt
<1>2. CASE Resume
  BY <1>2, ResumeStep
<1>3. CASE GiveUp
  BY <1>3, RetryAssumption
  DEF GiveUp, Answered, RetryInv, RetryType, Counted, Room, BudgetsSeparate, RetryableReply,
      RetryAssumption
<1>4. QED
  BY <1>1, <1>2, <1>3 DEF RetryNext

(* Every step of the call keeps the books; all but three leave them alone. *)
LEMMA CallKeepsBooks == ASSUME RetryInv, [Next]_vars PROVE RetryInv'
<1>1. CASE Enter
  BY <1>1, BeginStep
<1>2. CASE HTTPStep
  BY <1>2, RetryStep DEF HTTPStep
<1>3. CASE Answer
  BY <1>3, RetryAssumption
  DEF Answer, EndRequest, RetryInv, RetryType, Counted, Room, BudgetsSeparate, RetryableReply,
      RetryAssumption
<1>4. CASE UNCHANGED retryVars
  BY <1>4
  DEF retryVars, RetryInv, RetryType, Counted, Room, BudgetsSeparate, RetryableReply
<1>5. ASSUME ReadBody \/ ReadFrame \/ ReadEnd \/ IdleTimeout \/ ReadCancelled \/ FallSilent
             \/ Cancel \/ UNCHANGED vars
      PROVE  UNCHANGED retryVars
  BY <1>5, Zenon
  DEF ReadBody, ReadFrame, ReadEnd, IdleTimeout, ReadCancelled, FallSilent, Cancel, vars
<1>6. QED
  BY <1>1, <1>2, <1>3, <1>4, <1>5 DEF Next, CallStep

(* A gateway that stays down is given up after the budget of refused       *)
(* connections and not before, one that keeps failing after the generic    *)
(* one; a wait for the first byte ends the loop, and the code behind the   *)
(* loop of doJSON is never reached (internal/llm/retry.go, jsonhttp.go).   *)
THEOREM RetryBudgets == Spec => []BudgetsSeparate
<1>1. Init => RetryInv
  BY RetryInvInit
<1>2. RetryInv /\ [Next]_vars => RetryInv'
  BY CallKeepsBooks
<1>3. RetryInv => BudgetsSeparate
  BY DEF RetryInv
<1>4. QED
  BY <1>1, <1>2, <1>3, PTL DEF Spec

(***************************************************************************)
(* The client of an engine                                                 *)
(***************************************************************************)

Has(c) ==
    /\ c = [model |-> c.model, effort |-> c.effort, pinned |-> c.pinned, wire |-> c.wire,
            catalog |-> c.catalog]
    /\ c.pinned \in BOOLEAN

HasConf(c) ==
    /\ c = [model |-> c.model, effort |-> c.effort, wire |-> c.wire, explicit |-> c.explicit]
    /\ c.explicit \in BOOLEAN

(* The effort e, if it is one, is the client's and pinned.                 *)
Chosen(e, c) == e # M!Unset => c.effort = e /\ c.pinned

Doing == {"idle", "ensure", "wait", "build", "append", "record", "run", "request",
          "model", "effort", "wire", "list", "prompt"}

ModelTypes ==
    /\ shared # M!NoClient => Has(shared)
    /\ HasConf(cfg)
    /\ callerPc \in [Callers -> Doing]
    /\ call = [p \in Callers |-> call[p]] /\ local = [p \in Callers |-> local[p]]
    /\ cancelled \in [Callers -> BOOLEAN] /\ result = [p \in Callers |-> result[p]]

(* Before there is a client the choice and the pin are the configuration's, then the   *)
(* client's, and the configuration says the same.                                       *)
Agreed ==
    IF shared = M!NoClient
    THEN /\ choice = cfg.effort
         /\ pin # M!Unset => cfg.explicit /\ cfg.wire = pin
    ELSE /\ Chosen(choice, shared)
         /\ pin # M!Unset => explicit /\ shared.wire = pin
         /\ cfg.model = shared.model /\ cfg.effort = shared.effort /\ cfg.wire = shared.wire

(* Whoever needs the client has it, but for a setter whose build had to fail; only a   *)
(* builder builds, and what it builds from is still the configuration.                  *)
Waiting == {"idle", "ensure", "wait", "build", "model", "effort", "wire", "append"}

Served(p) ==
    /\ callerPc[p] \notin Waiting => shared # M!NoClient
    /\ callerPc[p] \in {"model", "effort"} => shared # M!NoClient \/ closed \/ ~keyed
    /\ callerPc[p] = "build" =>
          /\ builder = p /\ shared = M!NoClient
          /\ keyed /\ ~closed => local[p] = cfg

(* Only a prompt and a list of models are cancelled, and a call does what it is for.   *)
OnItsWay(p) ==
    /\ cancelled[p] => callerPc[p] # "idle" /\ call[p].op \in {"prompt", "list"}
    /\ callerPc[p] \in {"model", "effort", "wire", "list", "prompt"} => call[p].op = callerPc[p]
    /\ callerPc[p] # "idle" => call[p].op \in {"model", "effort", "wire", "list", "prompt"}

ModelInv ==
    ModelTypes /\ Agreed /\ M!OverrideEnds /\ \A p \in Callers : Served(p) /\ OnItsWay(p)

LEMMA SyncKeeps ==
    ASSUME NEW c, Has(c)
    PROVE  /\ Has(M!SyncEffort(c))
           /\ M!SyncEffort(c).model = c.model /\ M!SyncEffort(c).wire = c.wire
           /\ M!SyncEffort(c).catalog = c.catalog
  BY DEF Has, M!SyncEffort

LEMMA SyncChosen ==
    ASSUME NEW c, Has(c), NEW e, Chosen(e, c), NEW d, d.model = c.model, d.catalog = c.catalog
    PROVE  Chosen(M!StillChosen(e, d), M!SyncEffort(c))
<1>1. CASE M!StillChosen(e, d) = M!Unset
  BY <1>1 DEF Chosen
<1>2. CASE M!StillChosen(e, d) # M!Unset
  <2>1. /\ M!StillChosen(e, d) = e /\ e # M!Unset
        /\ c.model \in DOMAIN c.catalog => e \in c.catalog[c.model].efforts
    BY <1>2 DEF M!StillChosen
  <2>2. c.effort = e /\ c.pinned
    BY <2>1 DEF Chosen
  <2>3. M!SyncEffort(c) = c
    BY <2>1, <2>2 DEF M!SyncEffort, M!Entry
  <2>4. QED
    BY <2>1, <2>2, <2>3 DEF Chosen
<1>3. QED
  BY <1>1, <1>2

LEMMA PreferKeeps ==
    ASSUME NEW c, Has(c), NEW fixed
    PROVE  /\ Has(M!Preferred(c, fixed))
           /\ M!Preferred(c, fixed).model = c.model /\ M!Preferred(c, fixed).effort = c.effort
           /\ M!Preferred(c, fixed).pinned = c.pinned
           /\ fixed => M!Preferred(c, fixed).wire = c.wire
  BY DEF Has, M!Preferred

LEMMA ClientIsOne == ASSUME NEW c, Has(c) PROVE c # M!NoClient
  BY DEF Has, M!NoClient

(* Every caller but p stays as it is.                                      *)
Only(p) ==
    /\ callerPc' \in [Callers -> Doing]
    /\ call' = [q \in Callers |-> call'[q]] /\ local' = [q \in Callers |-> local'[q]]
    /\ cancelled' \in [Callers -> BOOLEAN] /\ result' = [q \in Callers |-> result'[q]]
    /\ \A q \in Callers : q # p =>
          /\ callerPc'[q] = callerPc[q] /\ call'[q] = call[q] /\ local'[q] = local[q]
          /\ cancelled'[q] = cancelled[q] /\ result'[q] = result[q]

LEMMA StepKeeps ==
    ASSUME ModelInv, NEW p \in Callers, Only(p), Served(p)', OnItsWay(p)', keyed' = keyed, closed => closed',
           shared # M!NoClient => shared' # M!NoClient,
           \A q \in Callers : q # p /\ callerPc[q] = "build" =>
               builder' = q /\ shared' = shared /\ (keyed /\ ~closed' => cfg' = cfg),
           \/ runEffort' = runEffort /\ callerPc[p] # "request"
           \/ runEffort' = M!Unset
           \/ callerPc'[p] = "request",
           shared' # M!NoClient => Has(shared'), HasConf(cfg'), Agreed'
    PROVE  ModelInv'
<1>1. ModelTypes'
  BY DEF ModelTypes, Only
<1>2. ASSUME NEW q \in Callers, q # p PROVE Served(q)' /\ OnItsWay(q)'
  BY <1>2 DEF Only, ModelInv, Served, OnItsWay, Waiting
<1>3. M!OverrideEnds'
  <2>1. CASE runEffort' = M!Unset \/ callerPc'[p] = "request"
    BY <2>1 DEF M!OverrideEnds
  <2>2. ASSUME runEffort' = runEffort, callerPc[p] # "request", runEffort # M!Unset
        PROVE  \E q \in Callers : callerPc'[q] = "request"
    <3>1. PICK q \in Callers : callerPc[q] = "request"
      BY <2>2 DEF ModelInv, M!OverrideEnds
    <3>2. callerPc'[q] = "request"
      BY <2>2, <3>1 DEF Only
    <3>3. QED
      BY <3>2
  <2>3. QED
    BY <2>1, <2>2 DEF M!OverrideEnds
<1>4. QED
  BY <1>1, <1>2, <1>3 DEF ModelInv

LEMMA EndOnly ==
    ASSUME ModelTypes, NEW p \in Callers, NEW how, M!End(p, how)
    PROVE  /\ Only(p) /\ callerPc'[p] = "idle" /\ ~cancelled'[p] /\ result'[p] = how
  BY DEF ModelTypes, Doing, Only, M!End, M!Goto

LEMMA MoveOnly ==
    ASSUME ModelTypes, NEW p \in Callers, NEW l \in Doing, M!Move(p, l)
    PROVE  /\ Only(p) /\ callerPc'[p] = l
           /\ UNCHANGED <<call, local, cancelled, result>>
  BY DEF ModelTypes, Only, M!Move, M!Goto

LEMMA KeepOnly ==
    ASSUME ModelTypes, NEW p \in Callers, NEW l \in Doing, NEW x, M!Keep(p, l, x)
    PROVE  /\ Only(p) /\ callerPc'[p] = l /\ local'[p] = x
           /\ UNCHANGED <<call, cancelled, result>>
  BY DEF ModelTypes, Only, M!Keep, M!Goto

(* After ensureLLM a caller is done, or does what it called for.           *)
LEMMA EnsuredOnly ==
    ASSUME ModelInv, NEW p \in Callers, NEW ok \in BOOLEAN, M!Ensured(p, ok),
           callerPc[p] \in {"ensure", "wait", "build"}
    PROVE  /\ Only(p)
           /\ \/ /\ callerPc'[p] = "idle" /\ ~cancelled'[p] /\ result'[p] = "failed" /\ ~ok
              \/ /\ callerPc'[p] = call[p].op /\ UNCHANGED <<call, cancelled, result>>
                 /\ callerPc'[p] \in {"model", "effort", "wire", "list", "prompt"}
                 /\ ok \/ callerPc'[p] \in {"model", "effort"}
<1>1. ModelTypes /\ call[p].op \in {"model", "effort", "wire", "list", "prompt"}
  BY DEF ModelInv, OnItsWay
<1>2. CASE ok \/ call[p].op \in {"model", "effort"}
  <2>1. M!Move(p, call[p].op) /\ call[p].op \in Doing
    BY <1>1, <1>2 DEF M!Ensured, Doing
  <2>2. QED
    BY <1>1, <1>2, <2>1, MoveOnly
<1>3. CASE ~(ok \/ call[p].op \in {"model", "effort"})
  <2>1. M!End(p, "failed")
    BY <1>3 DEF M!Ensured
  <2>2. QED
    BY <1>1, <1>3, <2>1, EndOnly
<1>4. QED
  BY <1>2, <1>3

(* Steps that leave what the engine holds alone.                           *)
LEMMA HostStep ==
    ASSUME ModelInv, NEW p \in Callers, Only(p), UNCHANGED M!engine, callerPc[p] # "request",
           \A q \in Callers : q # p /\ callerPc[q] = "build" => builder' = q,
           Served(p)', OnItsWay(p)'
    PROVE  ModelInv'
<1>1. UNCHANGED <<cfg, shared, explicit, runEffort, closed, keyed, choice, pin>>
  BY DEF M!engine, M!history
<1>2. Agreed'
  BY <1>1 DEF ModelInv, Agreed, Chosen
<1>3. (shared' # M!NoClient => Has(shared')) /\ HasConf(cfg')
  BY <1>1 DEF ModelInv, ModelTypes
<1>4. QED
  BY <1>1, <1>2, <1>3, StepKeeps

LEMMA CallBegins == ASSUME ModelAssumption, ModelInv, NEW p \in Callers, M!Begin(p) PROVE ModelInv'
<1>1. PICK c \in HostCalls : /\ call' = [call EXCEPT ![p] = c]
                             /\ M!Goto(p, IF c.op = "wire" THEN "wire" ELSE "ensure")
  BY DEF M!Begin
<1>2. c.op \in {"model", "effort", "wire", "list", "prompt"}
  BY DEF ModelAssumption
<1>3. /\ callerPc[p] = "idle" /\ UNCHANGED M!engine /\ builder' = builder
      /\ local' = local /\ cancelled' = cancelled /\ result' = [result EXCEPT ![p] = "none"]
  BY DEF M!Begin
<1>4. ModelTypes /\ ~cancelled[p]
  BY <1>3 DEF ModelInv, OnItsWay
<1>5. /\ Only(p) /\ call'[p] = c /\ ~cancelled'[p]
      /\ callerPc'[p] = IF c.op = "wire" THEN "wire" ELSE "ensure"
  BY <1>1, <1>3, <1>4 DEF Only, ModelTypes, M!Goto, Doing
<1>6. Served(p)' /\ OnItsWay(p)'
  BY <1>2, <1>5 DEF Served, OnItsWay, Waiting
<1>7. QED
  BY <1>3, <1>5, <1>6, HostStep DEF ModelInv, Served

LEMMA CallIsCancelled == ASSUME ModelInv, NEW p \in Callers, M!Cancel(p) PROVE ModelInv'
<1>1. /\ callerPc[p] # "idle" /\ call[p].op \in {"prompt", "list"}
      /\ cancelled' = [cancelled EXCEPT ![p] = TRUE] /\ UNCHANGED M!engine
      /\ UNCHANGED <<builder, callerPc, call, local, result>>
  BY DEF M!Cancel
<1>2. Only(p) /\ cancelled'[p]
  BY <1>1 DEF ModelInv, ModelTypes, Only
<1>3. UNCHANGED <<cfg, shared, explicit, runEffort, closed, keyed, choice, pin>>
  BY <1>1 DEF M!engine, M!history
<1>4. ModelTypes' /\ Agreed' /\ M!OverrideEnds'
  BY <1>1, <1>2, <1>3 DEF ModelInv, ModelTypes, Only, Agreed, Chosen, M!OverrideEnds
<1>5. ASSUME NEW q \in Callers PROVE Served(q)' /\ OnItsWay(q)'
  BY <1>1, <1>2, <1>3 DEF ModelInv, Served, OnItsWay, Only
<1>6. QED
  BY <1>4, <1>5 DEF ModelInv

LEMMA EngineCloses == ASSUME ModelInv, M!Close \/ UNCHANGED M!vars PROVE ModelInv'
<1>1. /\ UNCHANGED <<cfg, shared, explicit, runEffort, builder, keyed, choice, pin>>
      /\ UNCHANGED <<callerPc, call, local, cancelled, result>>
      /\ closed => closed'
  BY DEF M!Close, M!vars, M!host, M!history
<1>2. ModelTypes' /\ Agreed' /\ M!OverrideEnds'
  BY <1>1 DEF ModelInv, ModelTypes, Agreed, Chosen, M!OverrideEnds
<1>3. ASSUME NEW q \in Callers PROVE Served(q)' /\ OnItsWay(q)'
  BY <1>1 DEF ModelInv, Served, OnItsWay
<1>4. QED
  BY <1>2, <1>3 DEF ModelInv

LEMMA EnsureKeeps == ASSUME ModelAssumption, ModelInv, NEW p \in Callers, M!Ensure(p) PROVE ModelInv'
<1>1. callerPc[p] = "ensure" /\ UNCHANGED M!engine
  BY DEF M!Ensure
<1>2. UNCHANGED <<cfg, shared, explicit, runEffort, closed, keyed, choice, pin>>
  BY <1>1 DEF M!engine, M!history
<1>3. ModelTypes /\ OnItsWay(p)
  BY DEF ModelInv
<1>4. ASSUME NEW ok \in BOOLEAN, M!Ensured(p, ok), builder' = builder,
             IF ok THEN shared # M!NoClient ELSE cancelled[p] \/ closed
      PROVE  ModelInv'
  <2>1. Only(p)
    BY <1>1, <1>4, EnsuredOnly
  <2>2. Served(p)' /\ OnItsWay(p)'
    BY <1>1, <1>2, <1>3, <1>4, EnsuredOnly DEF Served, OnItsWay, Waiting
  <2>3. QED
    BY <1>1, <1>4, <2>1, <2>2, HostStep DEF ModelInv, Served
<1>5. ASSUME M!Move(p, "wait"), builder' = builder PROVE ModelInv'
  <2>1. Only(p) /\ callerPc'[p] = "wait" /\ UNCHANGED <<call, cancelled>>
    BY <1>3, <1>5, MoveOnly DEF Doing
  <2>2. Served(p)' /\ OnItsWay(p)'
    BY <1>1, <1>3, <2>1 DEF Served, OnItsWay, Waiting
  <2>3. QED
    BY <1>1, <1>5, <2>1, <2>2, HostStep DEF ModelInv, Served
<1>6. ASSUME shared = M!NoClient, builder = Nobody, builder' = p, M!Keep(p, "build", cfg)
      PROVE  ModelInv'
  <2>1. Only(p) /\ callerPc'[p] = "build" /\ local'[p] = cfg /\ UNCHANGED <<call, cancelled>>
    BY <1>3, <1>6, KeepOnly DEF Doing
  <2>2. Served(p)' /\ OnItsWay(p)'
    BY <1>1, <1>2, <1>3, <1>6, <2>1 DEF Served, OnItsWay, Waiting
  <2>3. ASSUME NEW q \in Callers, callerPc[q] = "build" PROVE FALSE
    BY <1>6, <2>3 DEF ModelInv, Served, ModelAssumption
  <2>4. QED
    BY <1>1, <2>1, <2>2, <2>3, HostStep
<1>7. QED
  BY <1>4, <1>5, <1>6 DEF M!Ensure

LEMMA WaitKeeps == ASSUME ModelInv, NEW p \in Callers, M!Wait(p) PROVE ModelInv'
<1>1. callerPc[p] = "wait" /\ UNCHANGED M!engine /\ builder' = builder
  BY DEF M!Wait
<1>2. ModelTypes /\ OnItsWay(p)
  BY DEF ModelInv
<1>3. CASE cancelled[p] /\ M!Ensured(p, FALSE)
  <2>1. Only(p)
    BY <1>1, <1>3, EnsuredOnly
  <2>2. Served(p)' /\ OnItsWay(p)'
    BY <1>1, <1>2, <1>3, EnsuredOnly DEF Served, OnItsWay, Waiting
  <2>3. QED
    BY <1>1, <2>1, <2>2, HostStep DEF ModelInv, Served
<1>4. CASE M!Move(p, "ensure")
  <2>1. Only(p) /\ callerPc'[p] = "ensure" /\ UNCHANGED <<call, cancelled>>
    BY <1>2, <1>4, MoveOnly DEF Doing
  <2>2. Served(p)' /\ OnItsWay(p)'
    BY <1>1, <1>2, <2>1 DEF Served, OnItsWay, Waiting
  <2>3. QED
    BY <1>1, <2>1, <2>2, HostStep DEF ModelInv, Served
<1>5. QED
  BY <1>3, <1>4 DEF M!Wait

LEMMA FailureKeeps == ASSUME ModelInv, NEW p \in Callers, M!BuildFails(p) PROVE ModelInv'
<1>1. callerPc[p] = "build" /\ UNCHANGED M!engine /\ M!Ensured(p, FALSE) /\ (~keyed \/ cancelled[p] \/ closed)
  BY DEF M!BuildFails
<1>2. UNCHANGED <<cfg, shared, explicit, runEffort, closed, keyed, choice, pin>>
  BY <1>1 DEF M!engine, M!history
<1>3. Only(p)
  BY <1>1, EnsuredOnly
<1>4. OnItsWay(p)
  BY DEF ModelInv
<1>5. Served(p)' /\ OnItsWay(p)'
  BY <1>1, <1>2, <1>4, EnsuredOnly DEF Served, OnItsWay, Waiting
<1>6. ASSUME NEW q \in Callers, callerPc[q] = "build" PROVE q = p
  BY <1>1, <1>6 DEF ModelInv, Served
<1>7. QED
  BY <1>1, <1>3, <1>5, <1>6, HostStep

LEMMA PublishKeeps == ASSUME ModelInv, NEW p \in Callers, M!Publish(p) PROVE ModelInv'
<1>1. /\ callerPc[p] = "build" /\ keyed /\ ~closed /\ M!Ensured(p, TRUE)
      /\ explicit' = local[p].explicit
      /\ cfg' = [cfg EXCEPT !.effort = shared'.effort, !.wire = shared'.wire]
      /\ UNCHANGED <<runEffort, closed, keyed, pin>>
  BY DEF M!Publish
<1>2. ModelTypes /\ OnItsWay(p) /\ Agreed /\ builder = p /\ shared = M!NoClient /\ local[p] = cfg
  BY <1>1 DEF ModelInv, Served
<1>3. PICK rows \in Catalogs :
         LET c == M!SyncEffort(M!Client(local[p], M!Listed(rows))) IN
         /\ shared' = M!Preferred(c, local[p].explicit)
         /\ choice' = M!StillChosen(choice, c)
  BY DEF M!Publish
<1> DEFINE b == M!Client(cfg, M!Listed(rows))
           c == M!SyncEffort(b)
<1>4. /\ Has(b) /\ b.model = cfg.model /\ b.wire = cfg.wire /\ Chosen(choice, b)
      /\ HasConf(cfg) /\ choice = cfg.effort
  BY <1>2 DEF Has, M!Client, Chosen, Agreed, ModelTypes
<1> HIDE DEF b
<1>5. /\ Has(c) /\ c.model = cfg.model /\ c.wire = cfg.wire /\ c.catalog = b.catalog
  BY <1>4, SyncKeeps
<1>6. shared' = M!Preferred(c, cfg.explicit) /\ choice' = M!StillChosen(choice, c)
  BY <1>2, <1>3 DEF b
<1>7. Chosen(choice', c)
  BY <1>4, <1>5, <1>6, SyncChosen
<1> HIDE DEF c
<1>8. /\ Has(shared') /\ shared'.model = cfg.model /\ shared'.effort = c.effort
      /\ shared'.pinned = c.pinned /\ (cfg.explicit => shared'.wire = cfg.wire)
  BY <1>5, <1>6, PreferKeeps
<1>9. shared' # M!NoClient
  BY <1>8, ClientIsOne
<1>10. HasConf(cfg') /\ cfg'.model = cfg.model /\ cfg'.effort = shared'.effort /\ cfg'.wire = shared'.wire
  BY <1>1, <1>4 DEF HasConf
<1>11. Agreed'
  BY <1>1, <1>2, <1>7, <1>8, <1>9, <1>10 DEF Agreed, Chosen
<1>12. Only(p)
  BY <1>1, EnsuredOnly
<1>13. Served(p)' /\ OnItsWay(p)'
  BY <1>1, <1>2, <1>9, EnsuredOnly DEF Served, OnItsWay, Waiting
<1>14. ASSUME NEW q \in Callers, callerPc[q] = "build" PROVE q = p
  BY <1>2, <1>14 DEF ModelInv, Served
<1>15. QED
  BY <1>1, <1>8, <1>9, <1>10, <1>11, <1>12, <1>13, <1>14, StepKeeps

(* A call that ends, with what the engine holds in order.                  *)
LEMMA EndKeeps ==
    ASSUME ModelInv, NEW p \in Callers, NEW how, M!End(p, how), UNCHANGED <<keyed, closed>>,
           shared # M!NoClient => shared' # M!NoClient,
           \A q \in Callers : q # p /\ callerPc[q] = "build" =>
               builder' = q /\ shared' = shared /\ (keyed /\ ~closed' => cfg' = cfg),
           runEffort' = M!Unset \/ (runEffort' = runEffort /\ callerPc[p] # "request"),
           shared' # M!NoClient => Has(shared'), HasConf(cfg'), Agreed'
    PROVE  ModelInv'
<1>1. Only(p) /\ callerPc'[p] = "idle" /\ ~cancelled'[p]
  BY EndOnly DEF ModelInv
<1>2. Served(p)' /\ OnItsWay(p)'
  BY <1>1 DEF Served, OnItsWay, Waiting
<1>3. QED
  BY <1>1, <1>2, StepKeeps

(* With a client nobody builds one.                                        *)
LEMMA NobodyBuilds ==
    ASSUME ModelInv, shared # M!NoClient
    PROVE  \A q \in Callers : callerPc[q] # "build"
  BY DEF ModelInv, Served

LEMMA Alike ==
    ASSUME ModelInv, UNCHANGED <<shared, cfg, explicit, choice, pin>>
    PROVE  /\ shared # M!NoClient => shared' # M!NoClient
           /\ shared' # M!NoClient => Has(shared')
           /\ HasConf(cfg') /\ Agreed'
  BY DEF ModelInv, ModelTypes, Agreed, Chosen

LEMMA SetModelKeeps == ASSUME ModelInv, NEW p \in Callers, M!SetModel(p) PROVE ModelInv'
<1>1. callerPc[p] = "model" /\ UNCHANGED <<explicit, runEffort, builder, closed, keyed, pin>>
  BY DEF M!SetModel
<1>2. CASE shared = M!NoClient
  <2>1. M!End(p, "refused") /\ UNCHANGED <<cfg, shared, choice>>
    BY <1>2 DEF M!SetModel
  <2>2. QED
    BY <1>1, <2>1, EndKeeps, Alike DEF ModelInv, Served
<1>3. CASE shared # M!NoClient
  <2> DEFINE id == call[p].id
             tiered == shared.effort = M!Unset /\ id.tier # M!Unset
             c == [shared EXCEPT !.model = id.base,
                                 !.effort = IF tiered THEN id.tier ELSE @,
                                 !.pinned = tiered \/ @]
             e == IF tiered THEN id.tier ELSE choice
  <2>1. /\ shared' = M!Preferred(M!SyncEffort(c), explicit) /\ cfg' = M!Mirror(shared')
        /\ choice' = M!StillChosen(e, c) /\ M!End(p, "ok")
    BY <1>3 DEF M!SetModel
  <2>2. /\ Has(shared) /\ HasConf(cfg) /\ Chosen(choice, shared)
        /\ pin # M!Unset => explicit /\ shared.wire = pin
    BY <1>3 DEF ModelInv, ModelTypes, Agreed
  <2>3. Has(c) /\ c.wire = shared.wire /\ Chosen(e, c)
    <3>1. CASE tiered
      <4>1. c = [shared EXCEPT !.model = id.base, !.effort = id.tier, !.pinned = TRUE]
        BY <3>1
      <4>2. e = id.tier
        BY <3>1
      <4> HIDE DEF c, e, tiered, id
      <4>3. c = [model |-> id.base, effort |-> id.tier, pinned |-> TRUE, wire |-> shared.wire,
                 catalog |-> shared.catalog]
        BY <2>2, <4>1 DEF Has
      <4>4. QED
        BY <4>2, <4>3 DEF Has, Chosen
    <3>2. CASE ~tiered
      <4>1. c = [shared EXCEPT !.model = id.base, !.effort = shared.effort, !.pinned = shared.pinned]
        BY <2>2, <3>2 DEF Has
      <4>2. e = choice
        BY <3>2
      <4> HIDE DEF c, e, tiered, id
      <4>3. c = [model |-> id.base, effort |-> shared.effort, pinned |-> shared.pinned,
                 wire |-> shared.wire, catalog |-> shared.catalog]
        BY <2>2, <4>1 DEF Has
      <4>4. QED
        BY <2>2, <4>2, <4>3 DEF Has, Chosen
    <3>3. QED
      BY <3>1, <3>2
  <2> HIDE DEF c, e
  <2>4. Has(M!SyncEffort(c)) /\ M!SyncEffort(c).wire = shared.wire
    BY <2>3, SyncKeeps
  <2>5. Chosen(choice', M!SyncEffort(c))
    BY <2>1, <2>3, SyncChosen
  <2>6. /\ Has(shared') /\ shared'.effort = M!SyncEffort(c).effort
        /\ shared'.pinned = M!SyncEffort(c).pinned /\ (explicit => shared'.wire = shared.wire)
    BY <2>1, <2>4, PreferKeeps
  <2>7. shared' # M!NoClient
    BY <2>6, ClientIsOne
  <2>8. HasConf(cfg') /\ cfg'.model = shared'.model /\ cfg'.effort = shared'.effort /\ cfg'.wire = shared'.wire
    BY <2>1, <2>2 DEF M!Mirror, HasConf
  <2>9. Agreed'
    BY <1>1, <2>2, <2>5, <2>6, <2>7, <2>8 DEF Agreed, Chosen
  <2>10. QED
    BY <1>1, <1>3, <2>1, <2>6, <2>7, <2>8, <2>9, NobodyBuilds, EndKeeps
<1>4. QED
  BY <1>2, <1>3

LEMMA SetWireKeeps == ASSUME ModelInv, NEW p \in Callers, M!SetWire(p) PROVE ModelInv'
<1>1. callerPc[p] = "wire" /\ UNCHANGED <<runEffort, builder, closed, keyed, choice>>
  BY DEF M!SetWire
<1>2. CASE shared = M!NoClient
  <2>1. M!End(p, "refused") /\ UNCHANGED <<cfg, shared, explicit, pin>>
    BY <1>2 DEF M!SetWire
  <2>2. QED
    BY <1>1, <2>1, EndKeeps, Alike DEF ModelInv, Served
<1>3. CASE shared # M!NoClient
  <2>1. /\ shared' = [shared EXCEPT !.wire = call[p].wire] /\ explicit' = TRUE
        /\ cfg' = [cfg EXCEPT !.wire = call[p].wire, !.explicit = TRUE]
        /\ pin' = call[p].wire /\ M!End(p, "ok")
    BY <1>3 DEF M!SetWire
  <2>2. /\ Has(shared) /\ HasConf(cfg) /\ Chosen(choice, shared)
        /\ cfg.model = shared.model /\ cfg.effort = shared.effort
    BY <1>3 DEF ModelInv, ModelTypes, Agreed
  <2>3. /\ Has(shared') /\ HasConf(cfg') /\ Chosen(choice, shared')
        /\ shared'.wire = pin' /\ cfg'.wire = pin'
        /\ cfg'.model = shared'.model /\ cfg'.effort = shared'.effort
    BY <2>1, <2>2 DEF Has, HasConf, Chosen
  <2>4. shared' # M!NoClient
    BY <2>3, ClientIsOne
  <2>5. Agreed'
    BY <1>1, <2>1, <2>3, <2>4 DEF Agreed, Chosen
  <2>6. QED
    BY <1>1, <1>3, <2>1, <2>3, <2>4, <2>5, NobodyBuilds, EndKeeps
<1>4. QED
  BY <1>2, <1>3

LEMMA SetEffortKeeps == ASSUME ModelInv, NEW p \in Callers, M!SetEffort(p) PROVE ModelInv'
<1> DEFINE e == call[p].effort
<1>1. /\ callerPc[p] = "effort"
      /\ UNCHANGED <<explicit, runEffort, builder, closed, keyed, pin>>
  BY DEF M!SetEffort
<1>2. /\ ModelTypes /\ Agreed /\ OnItsWay(p)
      /\ shared # M!NoClient \/ closed \/ ~keyed
  BY <1>1 DEF ModelInv, Served
<1>3. CASE M!End(p, "refused") /\ UNCHANGED <<cfg, shared, choice>>
  BY <1>1, <1>3, EndKeeps, Alike DEF ModelInv, Served
<1>4. CASE /\ cfg' = [cfg EXCEPT !.effort = e] /\ choice' = e
           /\ shared' = IF shared = M!NoClient THEN M!NoClient
                        ELSE [shared EXCEPT !.effort = e, !.pinned = e # M!Unset]
           /\ \/ M!End(p, "ok")
              \/ M!Keep(p, "append", [model |-> M!Unset, wire |-> M!Unset, effort |-> e])
  <2>1. /\ HasConf(cfg) /\ HasConf(cfg') /\ cfg'.effort = e /\ cfg'.wire = cfg.wire
        /\ cfg'.model = cfg.model /\ cfg'.explicit = cfg.explicit
    BY <1>2, <1>4 DEF ModelTypes, HasConf
  <2>2. CASE shared = M!NoClient
    <3>1. shared' = M!NoClient
      BY <1>4, <2>2
    <3>2. Agreed'
      BY <1>1, <1>2, <1>4, <2>1, <2>2, <3>1 DEF Agreed
    <3>3. \A q \in Callers : q # p /\ callerPc[q] = "build" =>
             builder' = q /\ shared' = shared /\ (keyed /\ ~closed' => cfg' = cfg)
      BY <1>1, <1>2, <2>2, <3>1 DEF ModelInv, Served
    <3>4. CASE M!End(p, "ok")
      BY <1>1, <2>1, <2>2, <3>1, <3>2, <3>3, <3>4, EndKeeps
    <3>5. ASSUME NEW x, M!Keep(p, "append", x) PROVE ModelInv'
      <4>1. Only(p) /\ callerPc'[p] = "append" /\ UNCHANGED <<call, cancelled>>
        BY <1>2, <3>5, KeepOnly DEF Doing
      <4>2. Served(p)' /\ OnItsWay(p)'
        BY <1>1, <1>2, <4>1 DEF Served, OnItsWay, Waiting
      <4>3. QED
        BY <1>1, <2>1, <2>2, <3>1, <3>2, <3>3, <4>1, <4>2, StepKeeps
    <3>6. QED
      BY <1>4, <3>4, <3>5
  <2>3. CASE shared # M!NoClient
    <3>1. Has(shared) /\ Has(shared') /\ shared'.effort = e /\ shared'.pinned = (e # M!Unset)
          /\ shared'.wire = shared.wire /\ shared'.model = shared.model
      BY <1>2, <1>4, <2>3 DEF ModelTypes, Has
    <3>2. shared' # M!NoClient
      BY <3>1, ClientIsOne
    <3>3. Agreed'
      BY <1>1, <1>2, <1>4, <2>1, <2>3, <3>1, <3>2 DEF Agreed, Chosen
    <3>4. \A q \in Callers : callerPc[q] # "build"
      BY <2>3, NobodyBuilds
    <3>5. CASE M!End(p, "ok")
      BY <1>1, <2>1, <3>1, <3>2, <3>3, <3>4, <3>5, EndKeeps
    <3>6. ASSUME NEW x, M!Keep(p, "append", x) PROVE ModelInv'
      <4>1. Only(p) /\ callerPc'[p] = "append" /\ UNCHANGED <<call, cancelled>>
        BY <1>2, <3>6, KeepOnly DEF Doing
      <4>2. Served(p)' /\ OnItsWay(p)'
        BY <1>1, <1>2, <4>1 DEF Served, OnItsWay, Waiting
      <4>3. QED
        BY <1>1, <2>1, <3>1, <3>2, <3>3, <3>4, <4>1, <4>2, StepKeeps
    <3>7. QED
      BY <1>4, <3>5, <3>6
  <2>4. QED
    BY <2>2, <2>3
<1>5. QED
  BY <1>3, <1>4 DEF M!SetEffort

LEMMA ListModelsKeeps == ASSUME ModelInv, NEW p \in Callers, M!ListModels(p) PROVE ModelInv'
<1>1. callerPc[p] = "list" /\ UNCHANGED <<explicit, runEffort, builder, closed, keyed, pin>>
  BY DEF M!ListModels
<1>2. shared # M!NoClient
  BY <1>1 DEF ModelInv, Served, Waiting
<1>3. CASE M!End(p, "error") /\ UNCHANGED <<cfg, shared, choice>>
  BY <1>1, <1>3, EndKeeps, Alike DEF ModelInv, Served
<1>4. ASSUME NEW rows \in Catalogs,
             shared' = M!SyncEffort([shared EXCEPT !.catalog = M!Listed(rows)]),
             cfg' = [cfg EXCEPT !.effort = shared'.effort],
             choice' = M!StillChosen(choice, shared'), M!End(p, "ok")
      PROVE  ModelInv'
  <2> DEFINE c == [shared EXCEPT !.catalog = M!Listed(rows)]
  <2>1. /\ Has(shared) /\ HasConf(cfg) /\ Chosen(choice, shared)
        /\ cfg.model = shared.model /\ cfg.wire = shared.wire
        /\ pin # M!Unset => explicit /\ shared.wire = pin
    BY <1>2 DEF ModelInv, ModelTypes, Agreed
  <2>2. Has(c) /\ Chosen(choice, c) /\ c.model = shared.model /\ c.wire = shared.wire
    BY <2>1 DEF Has, Chosen
  <2>3. shared' = M!SyncEffort(c)
    BY <1>4
  <2> HIDE DEF c
  <2>4. /\ Has(shared') /\ shared'.model = shared.model /\ shared'.wire = shared.wire
        /\ shared'.model = c.model /\ shared'.catalog = c.catalog
    BY <2>2, <2>3, SyncKeeps
  <2>5. Chosen(choice', shared')
    BY <1>4, <2>2, <2>3, <2>4, SyncChosen
  <2>6. shared' # M!NoClient
    BY <2>4, ClientIsOne
  <2>7. HasConf(cfg') /\ cfg'.effort = shared'.effort /\ cfg'.model = cfg.model /\ cfg'.wire = cfg.wire
    BY <1>4, <2>1 DEF HasConf
  <2>8. Agreed'
    BY <1>1, <2>1, <2>4, <2>5, <2>6, <2>7 DEF Agreed, Chosen
  <2>9. QED
    BY <1>1, <1>2, <1>4, <2>4, <2>6, <2>7, <2>8, NobodyBuilds, EndKeeps
<1>5. QED
  BY <1>3, <1>4 DEF M!ListModels

(* The steps of a prompt, and the record of a SetEffort.                   *)
LEMMA PromptKeeps ==
    ASSUME ModelInv, NEW p \in Callers,
           \/ M!AppendEffort(p) \/ M!Prompt(p) \/ M!Record(p)
           \/ M!AutoEffort(p) \/ M!Request(p) \/ M!EndRun(p)
    PROVE  ModelInv'
<1>1. /\ ModelTypes /\ Agreed /\ OnItsWay(p) /\ Served(p)
      /\ UNCHANGED <<cfg, shared, explicit, builder, closed, keyed, choice, pin>>
  BY DEF ModelInv, M!AppendEffort, M!Prompt, M!Record, M!AutoEffort, M!Request, M!EndRun,
         M!engine, M!history
<1>2. /\ shared # M!NoClient => shared' # M!NoClient
      /\ shared' # M!NoClient => Has(shared')
      /\ HasConf(cfg') /\ Agreed'
      /\ \A q \in Callers : q # p /\ callerPc[q] = "build" =>
             builder' = q /\ shared' = shared /\ (keyed /\ ~closed' => cfg' = cfg)
  BY <1>1, Alike DEF ModelInv, Served
<1>3. ASSUME NEW how, M!End(p, how),
             runEffort' = M!Unset \/ (runEffort' = runEffort /\ callerPc[p] # "request")
      PROVE  ModelInv'
  BY <1>1, <1>2, <1>3, EndKeeps
<1>4. ASSUME NEW l \in {"record", "run", "request"},
             callerPc[p] \in {"prompt", "record", "run"},
             M!Move(p, l) \/ \E x : M!Keep(p, l, x),
             l = "request" \/ runEffort' = runEffort
      PROVE  ModelInv'
  <2>1. Only(p) /\ callerPc'[p] = l /\ UNCHANGED <<call, cancelled>>
    BY <1>1, <1>4, MoveOnly, KeepOnly DEF Doing
  <2>2. Served(p)' /\ OnItsWay(p)'
    BY <1>1, <1>4, <2>1 DEF Served, OnItsWay, Waiting
  <2>3. QED
    BY <1>1, <1>2, <1>4, <2>1, <2>2, StepKeeps
<1>5. CASE M!AppendEffort(p)
  BY <1>3, <1>5 DEF M!AppendEffort
<1>6. CASE M!Prompt(p)
  BY <1>3, <1>4, <1>6 DEF M!Prompt, M!engine
<1>7. CASE M!Record(p)
  BY <1>4, <1>7 DEF M!Record
<1>8. CASE M!AutoEffort(p)
  BY <1>4, <1>8 DEF M!AutoEffort
<1>9. CASE M!Request(p)
  <2>1. UNCHANGED <<callerPc, call, local, cancelled, result, runEffort>>
    BY <1>9 DEF M!Request, M!host
  <2>2. ModelTypes' /\ M!OverrideEnds'
    BY <1>1, <2>1 DEF ModelInv, ModelTypes, M!OverrideEnds
  <2>3. ASSUME NEW q \in Callers PROVE Served(q)' /\ OnItsWay(q)'
    BY <1>1, <2>1 DEF ModelInv, Served, OnItsWay
  <2>4. QED
    BY <1>2, <2>2, <2>3 DEF ModelInv
<1>10. CASE M!EndRun(p)
  BY <1>3, <1>10 DEF M!EndRun
<1>11. QED
  BY <1>5, <1>6, <1>7, <1>8, <1>9, <1>10

LEMMA ModelInit == ASSUME ModelAssumption, M!Init PROVE ModelInv
<1>1. /\ runEffort = M!Unset /\ callerPc = [p \in Callers |-> "idle"]
      /\ call = [p \in Callers |-> M!NoCall] /\ local = [p \in Callers |-> M!NoClient]
      /\ cancelled = [p \in Callers |-> FALSE] /\ result = [p \in Callers |-> "none"]
  BY DEF M!Init
<1>2. \A p \in Callers : Served(p) /\ OnItsWay(p)
  BY <1>1 DEF Served, OnItsWay, Waiting
<1>3. PICK given \in Configs, r \in Recorded, rows \in Catalogs, deferred \in BOOLEAN :
         LET conf == M!Configured(given)
             catalog == M!Listed(rows)
             c == IF r = NoRuntime THEN M!Built(conf, catalog)
                  ELSE M!ResumedLive(M!Built(conf, catalog), r)
         IN IF deferred
            THEN /\ cfg = IF r = NoRuntime THEN conf ELSE M!ResumedDeferred(conf, r)
                 /\ shared = M!NoClient
                 /\ choice = cfg.effort
                 /\ pin = (IF conf.explicit THEN cfg.wire ELSE M!Unset)
            ELSE /\ shared = c
                 /\ cfg = [model |-> c.model, effort |-> c.effort, wire |-> c.wire,
                           explicit |-> conf.explicit \/ r # NoRuntime]
                 /\ explicit = cfg.explicit
                 /\ choice = (IF c.pinned THEN c.effort ELSE M!Unset)
                 /\ pin = (IF cfg.explicit THEN c.wire ELSE M!Unset)
  BY DEF M!Init
<1> DEFINE conf == M!Configured(given)
           first == M!Built(conf, M!Listed(rows))
<1>4. HasConf(conf)
  BY DEF HasConf, M!Configured, ModelAssumption
<1>5. Has(first)
  <2>1. Has(M!Client(conf, M!Listed(rows)))
    BY DEF Has, M!Client
  <2>2. QED
    BY <2>1, SyncKeeps, PreferKeeps DEF M!Built
<1> HIDE DEF conf, first
<1>6. Has(M!ResumedLive(first, r))
  <2> DEFINE m == M!SyncEffort([first EXCEPT !.model = r.model])
             w == [m EXCEPT !.wire = r.wire]
  <2>1. Has([first EXCEPT !.model = r.model])
    BY <1>5 DEF Has
  <2>2. Has(m)
    BY <2>1, SyncKeeps
  <2> HIDE DEF m
  <2>3. Has(w)
    BY <2>2 DEF Has
  <2> HIDE DEF w
  <2> DEFINE x == [w EXCEPT !.effort = r.effort, !.pinned = TRUE]
  <2>4. Has(x)
    <3>1. x = [w EXCEPT !.effort = r.effort, !.pinned = TRUE]
      OBVIOUS
    <3> HIDE DEF x
    <3>2. x = [model |-> w.model, effort |-> r.effort, pinned |-> TRUE, wire |-> w.wire,
               catalog |-> w.catalog]
      BY <2>3, <3>1 DEF Has
    <3>3. QED
      BY <3>2 DEF Has
  <2>5. M!ResumedLive(first, r) = w \/ M!ResumedLive(first, r) = x
    BY DEF M!ResumedLive, w, m
  <2>6. QED
    BY <2>3, <2>4, <2>5
<1>7. HasConf(M!ResumedDeferred(conf, r)) /\ M!ResumedDeferred(conf, r).explicit = conf.explicit
  <2> DEFINE e == IF r.effort = M!Unset THEN conf.effort ELSE r.effort
  <2>1. M!ResumedDeferred(conf, r) = [conf EXCEPT !.model = r.model, !.wire = r.wire, !.effort = e]
    BY DEF M!ResumedDeferred
  <2> HIDE DEF e
  <2>2. M!ResumedDeferred(conf, r) =
           [model |-> r.model, effort |-> e, wire |-> r.wire, explicit |-> conf.explicit]
    BY <1>4, <2>1 DEF HasConf
  <2>3. QED
    BY <1>4, <2>2 DEF HasConf
<1>8. CASE deferred
  <2>1. /\ cfg = IF r = NoRuntime THEN conf ELSE M!ResumedDeferred(conf, r)
        /\ shared = M!NoClient /\ choice = cfg.effort
        /\ pin = (IF conf.explicit THEN cfg.wire ELSE M!Unset)
    BY <1>3, <1>8 DEF conf
  <2>2. HasConf(cfg) /\ cfg.explicit = conf.explicit
    BY <1>4, <1>7, <2>1
  <2>3. ModelTypes
    BY <1>1, <2>1, <2>2 DEF ModelTypes, Doing
  <2>4. Agreed
    BY <2>1, <2>2 DEF Agreed
  <2>5. QED
    BY <1>1, <1>2, <2>3, <2>4 DEF ModelInv, M!OverrideEnds
<1>9. CASE ~deferred
  <2> DEFINE c == IF r = NoRuntime THEN first ELSE M!ResumedLive(first, r)
  <2>1. /\ shared = c
        /\ cfg = [model |-> c.model, effort |-> c.effort, wire |-> c.wire,
                  explicit |-> conf.explicit \/ r # NoRuntime]
        /\ explicit = cfg.explicit
        /\ choice = (IF c.pinned THEN c.effort ELSE M!Unset)
        /\ pin = (IF cfg.explicit THEN c.wire ELSE M!Unset)
    BY <1>3, <1>9 DEF conf, first
  <2>2. Has(c)
    BY <1>5, <1>6
  <2> HIDE DEF c
  <2>3. /\ HasConf(cfg) /\ cfg.model = c.model /\ cfg.effort = c.effort /\ cfg.wire = c.wire
    BY <2>1 DEF HasConf
  <2>4. shared # M!NoClient
    BY <2>1, <2>2, ClientIsOne
  <2>5. ModelTypes
    BY <1>1, <2>1, <2>2, <2>3 DEF ModelTypes, Doing
  <2>6. Agreed
    BY <2>1, <2>2, <2>3, <2>4 DEF Agreed, Chosen, Has
  <2>7. QED
    BY <1>1, <1>2, <2>5, <2>6 DEF ModelInv, M!OverrideEnds
<1>10. QED
  BY <1>8, <1>9

LEMMA ModelStep == ASSUME ModelAssumption, ModelInv, [M!Next]_(M!vars) PROVE ModelInv'
<1>1. ASSUME NEW p \in Callers, M!Step(p) PROVE ModelInv'
  BY <1>1, EnsureKeeps, WaitKeeps, FailureKeeps, PublishKeeps, SetModelKeeps, SetWireKeeps,
     SetEffortKeeps, ListModelsKeeps, PromptKeeps DEF M!Step
<1>2. QED
  BY <1>1, CallBegins, CallIsCancelled, EngineCloses DEF M!Next

(* How a call of p ends, if it does in this step.                          *)
Outcome(p) ==
    \/ result' = result
    \/ \E how \in {"none", "ok", "error", "failed", "refused"} :
          /\ result' = [result EXCEPT ![p] = how]
          /\ how = "failed" => cancelled[p] \/ closed \/ ~keyed
          /\ how = "refused" /\ call[p].op = "model" => closed \/ ~keyed

LEMMA StepEnds == ASSUME ModelInv, NEW p \in Callers, M!Step(p) PROVE Outcome(p)
<1>1. ASSUME NEW ok \in BOOLEAN, M!Ensured(p, ok), ok \/ cancelled[p] \/ closed \/ ~keyed
      PROVE  Outcome(p)
  BY <1>1 DEF Outcome, M!Ensured, M!Move, M!End
<1>2. CASE M!Ensure(p) \/ M!Wait(p) \/ M!BuildFails(p) \/ M!Publish(p)
  <2>1. CASE M!Ensure(p)
    BY <1>1, <2>1 DEF M!Ensure, M!Move, M!Keep, Outcome
  <2>2. CASE M!Wait(p)
    BY <1>1, <2>2 DEF M!Wait, M!Move, Outcome
  <2>3. CASE M!BuildFails(p) \/ M!Publish(p)
    BY <1>1, <2>3 DEF M!BuildFails, M!Publish
  <2>4. QED
    BY <1>2, <2>1, <2>2, <2>3
<1>3. ASSUME NEW how \in {"ok", "error"}, M!End(p, how) PROVE Outcome(p)
  BY <1>3 DEF Outcome, M!End
<1>4. ASSUME NEW l, M!Move(p, l) \/ \E x : M!Keep(p, l, x) PROVE Outcome(p)
  BY <1>4 DEF Outcome, M!Move, M!Keep
<1>5. ASSUME M!End(p, "refused"), call[p].op = "model" => closed \/ ~keyed PROVE Outcome(p)
  BY <1>5 DEF Outcome, M!End
<1>6. CASE M!SetModel(p)
  <2>1. shared = M!NoClient => closed \/ ~keyed
    BY <1>6 DEF M!SetModel, ModelInv, Served
  <2>2. QED
    BY <1>3, <1>5, <1>6, <2>1 DEF M!SetModel
<1>7. CASE M!SetWire(p) \/ M!SetEffort(p)
  <2>1. call[p].op # "model"
    BY <1>7 DEF M!SetWire, M!SetEffort, ModelInv, OnItsWay
  <2>2. CASE M!SetWire(p)
    BY <1>3, <1>5, <2>1, <2>2 DEF M!SetWire
  <2>3. CASE M!SetEffort(p)
    BY <1>3, <1>4, <1>5, <2>1, <2>3 DEF M!SetEffort
  <2>4. QED
    BY <1>7, <2>2, <2>3
<1>8. CASE M!AppendEffort(p) \/ M!ListModels(p) \/ M!EndRun(p)
  BY <1>3, <1>8 DEF M!AppendEffort, M!ListModels, M!EndRun
<1>9. CASE M!Prompt(p)
  <2>1. CASE cancelled[p]
    BY <1>9, <2>1 DEF M!Prompt, M!End, Outcome
  <2>2. CASE ~cancelled[p]
    BY <1>4, <1>9, <2>2 DEF M!Prompt
  <2>3. QED
    BY <2>1, <2>2
<1>10. CASE M!Record(p) \/ M!AutoEffort(p) \/ M!Request(p)
  BY <1>4, <1>10 DEF M!Record, M!AutoEffort, M!Request, M!host, Outcome
<1>11. QED
  BY <1>2, <1>6, <1>7, <1>8, <1>9, <1>10 DEF M!Step

LEMMA FailsOwn == ASSUME ModelInv, [M!Next]_(M!vars) PROVE M!FailsForItself
<1>1. ASSUME NEW p \in Callers, Outcome(p) PROVE M!FailsForItself
  <2>1. result = [q \in Callers |-> result[q]]
    BY DEF ModelInv, ModelTypes
  <2>2. CASE result' = result
    BY <2>2 DEF M!FailsForItself
  <2>3. ASSUME NEW how \in {"none", "ok", "error", "failed", "refused"},
               result' = [result EXCEPT ![p] = how],
               how = "failed" => cancelled[p] \/ closed \/ ~keyed,
               how = "refused" /\ call[p].op = "model" => closed \/ ~keyed
        PROVE  M!FailsForItself
    <3>1. result'[p] = how /\ \A q \in Callers : q # p => result'[q] = result[q]
      BY <2>1, <2>3
    <3>2. QED
      BY <2>3, <3>1 DEF M!FailsForItself
  <2>4. QED
    BY <1>1, <2>2, <2>3 DEF Outcome
<1>2. CASE M!Close \/ UNCHANGED M!vars
  BY <1>2 DEF M!Close, M!vars, M!host, M!FailsForItself
<1>3. ASSUME NEW p \in Callers, M!Begin(p) PROVE M!FailsForItself
  BY <1>1, <1>3 DEF M!Begin, Outcome
<1>4. ASSUME NEW p \in Callers, M!Cancel(p) PROVE M!FailsForItself
  BY <1>1, <1>4 DEF M!Cancel, Outcome
<1>5. ASSUME NEW p \in Callers, M!Step(p) PROVE M!FailsForItself
  BY <1>1, <1>5, StepEnds
<1>6. QED
  BY <1>2, <1>3, <1>4, <1>5 DEF M!Next

LEMMA ModelKeeps ==
    ModelAssumption /\ (part = "model" => ModelInv) /\ [MCNext]_all
      => (part = "model" => ModelInv)'
<1>1. SUFFICES ASSUME ModelAssumption, part = "model" => ModelInv, [MCNext]_all, part' = "model"
               PROVE  ModelInv'
  OBVIOUS
<1>2. part = "model"
  BY <1>1 DEF MCNext, all
<1>3. CASE M!Next
  BY <1>1, <1>2, <1>3, ModelStep
<1>4. CASE UNCHANGED modelVars
  <2>1. UNCHANGED M!vars
    BY <1>4 DEF modelVars, M!vars, M!host, M!history
  <2>2. QED
    BY <1>1, <1>2, <2>1, ModelStep
<1>5. QED
  BY <1>1, <1>2, <1>3, <1>4 DEF MCNext, all

(* Whoever builds the client and whatever the host sets meanwhile: the     *)
(* effort and the wire the operator chose stay, the configuration says the *)
(* same as the client, and a prompt's cheaper effort ends with it          *)
(* (internal/engine, engine.go ensureLLM and engine_model.go).             *)
THEOREM ChoicesStay == MCSpec => []ChoicesKept
<1>1. MCInit => (part = "model" => ModelInv)
  BY ModelInit, ModelAssumption DEF MCInit
<1>2. (part = "model" => ModelInv) /\ [MCNext]_all => (part = "model" => ModelInv)'
  BY ModelKeeps, ModelAssumption
<1>3. (part = "model" => ModelInv) => ChoicesKept
  <2>1. SUFFICES ASSUME ModelInv
                 PROVE  M!ChoiceKept /\ M!PinnedWireKept /\ M!ConfigAgrees /\ M!OverrideEnds
    BY DEF ChoicesKept
  <2>2. Agreed /\ M!OverrideEnds
    BY <2>1 DEF ModelInv
  <2>3. M!ChoiceKept /\ M!PinnedWireKept /\ M!ConfigAgrees
    BY <2>2 DEF Agreed, Chosen, M!ChoiceKept, M!PinnedWireKept, M!ConfigAgrees, M!Shown
  <2>4. QED
    BY <2>2, <2>3
<1>4. QED
  BY <1>1, <1>2, <1>3, PTL DEF MCSpec

(* A caller that gives up or fails while it builds the client fails alone: *)
(* the ones that waited for it start over (engine.go, ensureLLM).          *)
THEOREM NobodyFailsForAnother == MCSpec => OwnFailure
<1>1. MCInit => (part = "model" => ModelInv)
  BY ModelInit, ModelAssumption DEF MCInit
<1>2. (part = "model" => ModelInv) /\ [MCNext]_all => (part = "model" => ModelInv)'
  BY ModelKeeps, ModelAssumption
<1>3. (part = "model" => ModelInv) /\ [MCNext]_all => [part = "model" => M!FailsForItself]_modelVars
  <2>1. SUFFICES ASSUME ModelInv, part = "model", [MCNext]_all, ~UNCHANGED modelVars
                 PROVE  M!FailsForItself
    OBVIOUS
  <2>2. M!Next
    BY <2>1 DEF MCNext, all
  <2>3. QED
    BY <2>1, <2>2, FailsOwn
<1>4. QED
  BY <1>1, <1>2, <1>3, PTL DEF MCSpec, OwnFailure

-----------------------------------------------------------------------------
(* What one call sends and returns: helpers on numbers and sequences.      *)

\* A set of numbers that is not empty has a least one.
LEMMA LeastOf ==
  ASSUME NEW ns \in SUBSET Nat, ns # {} PROVE \E n \in ns : \A m \in ns : n <= m
<1> DEFINE R == OpToRel(<, Nat)
<1>1. IsWellFoundedOn(R, Nat)
  BY NatLessThanWellFounded
<1>2. \A a, b \in Nat : a < b => <<a, b>> \in R
  BY DEF OpToRel
<1> HIDE DEF R
<1>3. PICK n \in ns : \A m \in ns : ~(<<m, n>> \in R)
  BY <1>1, WFMin
<1>4. \A m \in ns : m \in Nat /\ n \in Nat /\ ~(m < n)
  BY <1>2, <1>3
<1>. QED
  BY <1>3, <1>4

-----------------------------------------------------------------------------
(* repairToolCalls: functions on the number of messages or calls read.     *)

\* What holds at 0 and passes from each number to the next holds up to n.
LEMMA Climb ==
  ASSUME NEW n \in Nat, NEW ns, 0 \in ns, \A i \in 1..n : i - 1 \in ns => i \in ns
  PROVE  \A i \in 0..n : i \in ns
<1> DEFINE out == {i \in 0..n : i \notin ns}
<1>1. SUFFICES ASSUME out # {} PROVE FALSE
  OBVIOUS
<1>2. out \in SUBSET Nat
  OBVIOUS
<1>3. PICK i \in out : \A j \in out : i <= j
  BY <1>1, <1>2, LeastOf
<1>4. i \in 1..n /\ i - 1 \in 0..n /\ i - 1 \notin out
  BY <1>3
<1>. QED
  BY <1>3, <1>4

\* r starts from a and takes the first k steps of F.
Takes(r, k, A, a, F) ==
  r \in [0..k -> A] /\ r[0] = a /\ \A i \in 1..k : r[i] = F[i][r[i - 1]]

\* A function given at 0 and step by step exists.
LEMMA StepsExist ==
  ASSUME NEW n \in Nat, NEW A, NEW a \in A, NEW F \in [1..n -> [A -> A]]
  PROVE  \E r : Takes(r, n, A, a, F)
<1> DEFINE ns == {k \in 0..n : \E r : Takes(r, k, A, a, F)}
<1>1. 0 \in ns
  <2> DEFINE r == [i \in 0..0 |-> a]
  <2>1. Takes(r, 0, A, a, F)
    BY DEF Takes
  <2>. QED
    BY <2>1
<1>2. ASSUME NEW k \in 1..n, k - 1 \in ns PROVE k \in ns
  <2>1. PICK r : Takes(r, k - 1, A, a, F)
    BY <1>2
  <2>2. r \in [0..(k - 1) -> A] /\ r[0] = a /\ \A i \in 1..(k - 1) : r[i] = F[i][r[i - 1]]
    BY <2>1 DEF Takes
  <2> DEFINE g == [i \in 0..k |-> IF i = k THEN F[k][r[k - 1]] ELSE r[i]]
  <2>3. /\ \A i \in 0..k : i = k \/ i \in 0..(k - 1)
        /\ k \in 1..n /\ k - 1 \in 0..(k - 1) /\ k # 0 /\ 0 \in 0..k
        /\ \A i \in 1..k : (i = k \/ i \in 1..(k - 1)) /\ i - 1 \in 0..(k - 1) /\ i - 1 # k
        /\ \A i \in 1..(k - 1) : i # k /\ i \in 0..k
    OBVIOUS
  <2>4. F[k][r[k - 1]] \in A
    BY <2>2, <2>3
  <2>5. g \in [0..k -> A] /\ g[0] = a
    BY <2>2, <2>3, <2>4
  <2>6. \A i \in 1..k : g[i] = F[i][g[i - 1]]
    <3>1. \A i \in 1..k : g[i - 1] = r[i - 1]
      BY <2>3
    <3>2. \A i \in 1..(k - 1) : g[i] = r[i]
      BY <2>3
    <3>3. g[k] = F[k][r[k - 1]]
      BY <2>3
    <3>. QED
      BY <2>2, <2>3, <3>1, <3>2, <3>3
  <2> HIDE DEF g
  <2>7. Takes(g, k, A, a, F)
    BY <2>5, <2>6 DEF Takes
  <2>. QED
    BY <2>7
<1>3. \A i \in 0..n : i \in ns
  <2> HIDE DEF ns
  <2>. QED
    BY <1>1, <1>2, Climb
<1>. QED
  BY <1>3

\* What Without keeps: all but drop, in sequence, each once.

\* The values at some places, in their order: each is one of them, and all are there.
LEMMA ListedIs ==
  ASSUME NEW f, NEW at, NEW top \in Nat
  PROVE  /\ Listed(f, at, top) \in Seq({f[k] : k \in at})
         /\ \A k \in at : k \in 0..top => \E j \in DOMAIN Listed(f, at, top) : Listed(f, at, top)[j] = f[k]
<1> DEFINE n == top + 1
           vs == {f[k] : k \in at}
           Next1(i, b) == IF i - 1 \in at THEN Append(b, f[i - 1]) ELSE b
           Is(r) == r = [i \in 0..n |-> IF i = 0 THEN <<>>
                                        ELSE IF i - 1 \in at THEN Append(r[i - 1], f[i - 1])
                                        ELSE r[i - 1]]
<1>1. n \in Nat
  OBVIOUS
<1>2. \E r : Is(r)
  <2> DEFINE g == [i \in 1..n |-> [b \in Seq(vs) |-> Next1(i, b)]]
  <2>1. g \in [1..n -> [Seq(vs) -> Seq(vs)]] /\ <<>> \in Seq(vs)
    <3>1. ASSUME NEW b \in Seq(vs), NEW i \in 1..n PROVE Next1(i, b) \in Seq(vs)
      <4>1. CASE i - 1 \in at
        <5>1. f[i - 1] \in vs
          BY <4>1
        <5> HIDE DEF vs
        <5>. QED
          BY <4>1, <5>1, AppendProperties
      <4>. QED
        BY <4>1
    <3>2. <<>> \in Seq(vs)
      BY EmptySeq
    <3> HIDE DEF n, Next1, vs
    <3>. QED
      BY <3>1, <3>2
  <2> HIDE DEF n
  <2>2. \E r : Takes(r, n, Seq(vs), <<>>, g)
    <3> HIDE DEF g, vs
    <3>. QED
      BY <1>1, <2>1, StepsExist
  <2>3. PICK r : /\ r \in [0..n -> Seq(vs)] /\ r[0] = <<>>
                 /\ \A i \in 1..n : r[i] = g[i][r[i - 1]]
    <3> HIDE DEF g, vs
    <3>. QED
      BY <2>2 DEF Takes
  <2>4. \A i \in 1..n : r[i] = Next1(i, r[i - 1])
    <3>1. \A i \in 1..n : i - 1 \in 0..n
      BY <1>1
    <3> HIDE DEF Next1, vs
    <3>. QED
      BY <2>3, <3>1
  <2>5. \A i \in 0..n : r[i] = IF i = 0 THEN <<>> ELSE Next1(i, r[i - 1])
    <3>1. \A i \in 0..n : i = 0 \/ i \in 1..n
      BY <1>1
    <3>2. r[0] = <<>>
      BY <2>3
    <3> HIDE DEF Next1, g
    <3>. QED
      BY <2>4, <3>1, <3>2
  <2>6. Is(r)
    <3> HIDE DEF g
    <3>. QED
      BY <2>3, <2>5
  <2>. QED
    BY <2>6
<1> DEFINE q == CHOOSE r : Is(r)
<1>3. Listed(f, at, top) = q[n]
  BY DEF Listed
<1>4. Is(q)
  <2> HIDE DEF Is
  <2>. QED
    BY <1>2
<1> HIDE DEF n, q
<1>5. \A i \in 0..n : q[i] = IF i = 0 THEN <<>> ELSE IF i - 1 \in at THEN Append(q[i - 1], f[i - 1]) ELSE q[i - 1]
  BY <1>4
<1> HIDE DEF Is
<1> DEFINE Fit(i) == /\ q[i] \in Seq(vs)
                     /\ \A k \in at : k \in 0..i - 1 => \E j \in DOMAIN q[i] : q[i][j] = f[k]
           fits == {i \in 0..n : Fit(i)}
<1>6. 0 \in fits
  <2>1. q[0] = <<>> /\ <<>> \in Seq(vs)
    BY <1>1, <1>5, EmptySeq
  <2>2. \A k : ~(k \in 0..0 - 1)
    OBVIOUS
  <2>3. Fit(0)
    <3> HIDE DEF vs
    <3>. QED
      BY <2>1, <2>2
  <2> HIDE DEF Fit
  <2>. QED
    BY <1>1, <2>3
<1>7. ASSUME NEW i \in 1..n, i - 1 \in fits PROVE i \in fits
  <2>1. /\ i \in Nat /\ i # 0 /\ i \in 0..n /\ i - 1 \in Nat
        /\ q[i] = IF i - 1 \in at THEN Append(q[i - 1], f[i - 1]) ELSE q[i - 1]
        /\ \A k : k \in 0..i - 1 => k = i - 1 \/ k \in 0..(i - 1) - 1
    BY <1>1, <1>5
  <2>2. Fit(i - 1)
    BY <1>7
  <2>3. CASE i - 1 \in at
    <3> DEFINE b == q[i - 1]
               x == f[i - 1]
    <3>1. b \in Seq(vs) /\ x \in vs /\ q[i] = Append(b, x)
      BY <2>1, <2>2, <2>3
    <3> HIDE DEF b, vs
    <3>2. /\ q[i] \in Seq(vs) /\ Len(b) \in Nat /\ DOMAIN b = 1..Len(b) /\ DOMAIN q[i] = 1..Len(b) + 1
          /\ q[i][Len(b) + 1] = x /\ \A j \in DOMAIN b : q[i][j] = b[j]
      <4> HIDE DEF x
      <4>. QED
        BY <3>1, AppendProperties, LenProperties
    <3>3. ASSUME NEW k \in at, k \in 0..i - 1 PROVE \E j \in DOMAIN q[i] : q[i][j] = f[k]
      <4>1. CASE k = i - 1
        <5>1. Len(b) + 1 \in DOMAIN q[i] /\ q[i][Len(b) + 1] = f[k]
          BY <3>2, <4>1
        <5>. QED
          BY <5>1
      <4>2. CASE k \in 0..(i - 1) - 1
        <5>1. PICK j \in DOMAIN b : b[j] = f[k]
          BY <2>2, <4>2 DEF b
        <5>2. j \in DOMAIN q[i] /\ q[i][j] = f[k]
          BY <3>2, <5>1
        <5>. QED
          BY <5>2
      <4>. QED
        BY <2>1, <3>3, <4>1, <4>2
    <3>. QED
      BY <2>1, <3>2, <3>3
  <2>4. CASE i - 1 \notin at
    <3>1. q[i] = q[i - 1]
      BY <2>1, <2>4
    <3>2. \A k \in at : k \in 0..i - 1 => k \in 0..(i - 1) - 1
      BY <2>1, <2>4
    <3> HIDE DEF vs
    <3>. QED
      BY <2>1, <2>2, <3>1, <3>2
  <2>. QED
    BY <2>3, <2>4
<1>8. n \in fits
  <2> HIDE DEF fits
  <2>1. \A i \in 0..n : i \in fits
    BY <1>1, <1>6, <1>7, Climb
  <2>. QED
    BY <1>1, <2>1
<1>9. Fit(n) /\ n - 1 = top
  BY <1>8 DEF n
<1>. QED
  BY <1>3, <1>9

-----------------------------------------------------------------------------
(* What comes from the model.                                              *)

IsParse(p) ==
    p \in [content : {p.content}, shown : {p.shown}, tools : {p.tools}, items : {p.items},
           stop : {p.stop}, terminal : {p.terminal}, active : {p.active}, err : {p.err}]

(* A call with its own fragments only.                                     *)
WholeCall(c) == c.id # "" => c.args \in FragmentsOf(c.id)

Bounded(tools) == \E n \in Nat : DOMAIN tools \subseteq 0..n

ToolsWhole(tools) == Bounded(tools) /\ \A k \in DOMAIN tools : WholeCall(tools[k])

(* The call of a place, as far as it has come.                             *)
Fits(k, c) ==
    c \in [id : {"", CallAt(k)}, name : {c.name}, args : FragmentsOf(CallAt(k))]

ToolsFit(p) ==
    /\ Bounded(p.tools)
    /\ \A k \in DOMAIN p.tools : Fits(k, p.tools[k])
    /\ \A x \in DOMAIN p.items : x # "" /\ p.items[x] = PlaceOf(x)

Announced(p, seen) ==
    \A i \in DOMAIN seen : seen[i].t = "item" /\ seen[i].item # "" => seen[i].item \in DOMAIN p.items

Closing == {"done", "finish", "stop", "completed", "incomplete", "garbled"}

Closed(seen) == \E i \in DOMAIN seen : seen[i].t \in Closing

(* What holds of a parse that the reader ends on.                          *)
Sound(p, seen) ==
    /\ IsParse(p) /\ p.content \in Seq(STRING) /\ p.shown = p.content
    /\ ToolsWhole(p.tools)
    /\ p.terminal \/ p.stop # "" => Closed(seen)

(* What holds of one that it goes on with.                                 *)
Going(w, p, seen) ==
    /\ Sound(p, seen) /\ ToolsFit(p)
    /\ w = "responses" => ~p.terminal /\ Announced(p, seen)

(* A parse after one more frame: what was shown stays shown.               *)
Reads(w, p, seen, f, q) ==
    /\ Sound(q, Append(seen, f))
    /\ \E x \in Seq(STRING) : q.shown = p.shown \o x
    /\ (w = "responses" /\ q.terminal) \/ Going(w, q, Append(seen, f))

AllFrames == UNION {Frames(w) : w \in Wires}

(* One more frame was seen.                                                *)
LEMMA SeenMore ==
  ASSUME NEW seen \in Seq(AllFrames), NEW f \in AllFrames
  PROVE  /\ \A i \in DOMAIN seen : i \in DOMAIN Append(seen, f) /\ Append(seen, f)[i] = seen[i]
         /\ \E i \in DOMAIN Append(seen, f) : Append(seen, f)[i] = f
         /\ \A i \in DOMAIN Append(seen, f) : Append(seen, f)[i] = f
                                               \/ (i \in DOMAIN seen /\ Append(seen, f)[i] = seen[i])
<1> DEFINE s == Append(seen, f)
<1>1. /\ s \in Seq(AllFrames) /\ Len(s) = Len(seen) + 1 /\ Len(seen) \in Nat /\ s[Len(seen) + 1] = f
      /\ \A i \in 1..Len(seen) : s[i] = seen[i]
  BY AppendProperties, LenProperties
<1>2. DOMAIN s = 1..Len(seen) + 1 /\ DOMAIN seen = 1..Len(seen)
  BY <1>1, LenProperties
<1> HIDE DEF s
<1>3. Len(seen) + 1 \in DOMAIN s
  BY <1>1, <1>2
<1>4. \A i \in DOMAIN s : s[i] = f \/ (i \in DOMAIN seen /\ s[i] = seen[i])
  BY <1>1, <1>2
<1>5. \A i \in DOMAIN seen : i \in DOMAIN s /\ s[i] = seen[i]
  BY <1>1, <1>2
<1>. QED
  BY <1>1, <1>3, <1>4, <1>5 DEF s

(* A call whose fragments are those of its place is whole.                 *)
LEMMA FitsAreWhole == ASSUME NEW p, ToolsFit(p) PROVE ToolsWhole(p.tools)
<1>1. ASSUME NEW k \in DOMAIN p.tools PROVE WholeCall(p.tools[k])
  <2>1. p.tools[k].id \in {"", CallAt(k)} /\ p.tools[k].args \in FragmentsOf(CallAt(k))
    BY DEF ToolsFit, Fits
  <2>. QED
    BY <2>1 DEF WholeCall
<1>. QED
  BY <1>1 DEF ToolsFit, ToolsWhole

(* A frame that leaves the calls whole, shows only what it adds, and ends  *)
(* the answer only if it closes it.                                        *)
LEMMA FrameReads ==
  ASSUME NEW w, NEW p, NEW seen \in Seq(AllFrames), NEW f \in AllFrames, NEW q, NEW x \in Seq(STRING),
         Going(w, p, seen), IsParse(q), q.shown = q.content, q.shown = p.shown \o x, ToolsFit(q),
         q.terminal \/ q.stop # "" => p.terminal \/ p.stop # "" \/ f.t \in Closing,
         DOMAIN p.items \subseteq DOMAIN q.items,
         w = "responses" /\ f.t = "item" /\ f.item # "" => f.item \in DOMAIN q.items
  PROVE  Reads(w, p, seen, f, q)
<1>1. p.shown \in Seq(STRING)
  BY DEF Going, Sound
<1>2. q.content \in Seq(STRING)
  <2>1. p.shown \o x \in Seq(STRING)
    BY <1>1, ConcatProperties
  <2>. QED
    BY <2>1
<1>6. /\ \A i \in DOMAIN seen : i \in DOMAIN Append(seen, f) /\ Append(seen, f)[i] = seen[i]
      /\ \E i \in DOMAIN Append(seen, f) : Append(seen, f)[i] = f
      /\ \A i \in DOMAIN Append(seen, f) : Append(seen, f)[i] = f \/ (i \in DOMAIN seen /\ Append(seen, f)[i] = seen[i])
  BY SeenMore
<1> DEFINE more == Append(seen, f)
<1>7. /\ \A i \in DOMAIN seen : i \in DOMAIN more /\ more[i] = seen[i]
      /\ \E i \in DOMAIN more : more[i] = f
      /\ \A i \in DOMAIN more : more[i] = f \/ (i \in DOMAIN seen /\ more[i] = seen[i])
  BY <1>6
<1>3. q.terminal \/ q.stop # "" => Closed(Append(seen, f))
  <2>1. Closed(seen) => Closed(more)
    <3> HIDE DEF more
    <3>. QED
      BY <1>7 DEF Closed
  <2>2. f.t \in Closing => Closed(more)
    <3> HIDE DEF more
    <3>. QED
      BY <1>7 DEF Closed
  <2>. QED
    BY <2>1, <2>2 DEF Going, Sound
<1>4. Sound(q, Append(seen, f))
  BY <1>2, <1>3, FitsAreWhole DEF Sound
<1>5. w = "responses" => Announced(q, Append(seen, f))
  <2> SUFFICES ASSUME w = "responses", NEW i \in DOMAIN Append(seen, f), Append(seen, f)[i].t = "item",
                      Append(seen, f)[i].item # ""
               PROVE  Append(seen, f)[i].item \in DOMAIN q.items
    BY DEF Announced
  <2>1. CASE Append(seen, f)[i] = f
    BY <2>1
  <2>2. CASE i \in DOMAIN seen /\ Append(seen, f)[i] = seen[i]
    <3>1. seen[i].item \in DOMAIN p.items
      BY <2>2 DEF Going, Announced
    <3>. QED
      BY <2>2, <3>1
  <2>. QED
    BY <2>1, <2>2, <1>6
<1>. QED
  BY <1>4, <1>5 DEF Reads, Going

(* A function with one more place.                                         *)
LEMMA WithIs ==
  ASSUME NEW g, NEW k, NEW v
  PROVE  /\ DOMAIN With(g, k, v) = DOMAIN g \cup {k} /\ With(g, k, v)[k] = v
         /\ \A x \in DOMAIN g : x # k => With(g, k, v)[x] = g[x]
  BY DEF With

(* The rest of a text that begins with another.                            *)
LEMMA PrefixRest ==
  ASSUME NEW s \in Seq(STRING), NEW d \in Seq(STRING), IsPrefix(s, d)
  PROVE  /\ SubSeq(d, Len(s) + 1, Len(d)) \in Seq(STRING)
         /\ s \o SubSeq(d, Len(s) + 1, Len(d)) = d
<1> DEFINE x == SubSeq(d, Len(s) + 1, Len(d))
<1>1. Len(s) \in Nat /\ Len(d) \in Nat /\ Len(s) <= Len(d) /\ SubSeq(s, 1, Len(s)) = SubSeq(d, 1, Len(s))
  BY LenProperties DEF IsPrefix
<1>2. \A i \in 1..Len(s) : d[i] = s[i]
  <2>1. \A i \in 1..Len(s) : SubSeq(s, 1, Len(s))[i] = s[i] /\ SubSeq(d, 1, Len(s))[i] = d[i]
    BY <1>1
  <2>. QED
    BY <1>1, <2>1
<1>3. x \in Seq(STRING) /\ Len(x) = Len(d) - Len(s) /\ \A i \in 1..Len(d) - Len(s) : x[i] = d[i + Len(s)]
  BY <1>1
<1> HIDE DEF x
<1> DEFINE c == s \o x
<1>4. /\ c \in Seq(STRING) /\ Len(c) = Len(s) + Len(x)
      /\ \A i \in 1..Len(s) + Len(x) : c[i] = IF i <= Len(s) THEN s[i] ELSE x[i - Len(s)]
  BY <1>3, ConcatProperties
<1> HIDE DEF c
<1>5. Len(c) = Len(d) /\ \A i \in 1..Len(c) : c[i] = d[i]
  BY <1>1, <1>2, <1>3, <1>4
<1>6. c = d
  BY <1>4, <1>5, SeqEqual
<1>. QED
  BY <1>3, <1>6 DEF c, x

(* What a text adds is shown, whether it is the next part or all so far.   *)
TextAdds(p, d, q) ==
    /\ IsParse(q) /\ q.shown = q.content /\ \E x \in Seq(STRING) : q.shown = p.shown \o x
    /\ q.tools = p.tools /\ q.items = p.items /\ q.stop = p.stop /\ q.terminal = p.terminal

\* A text or snapshot of a stream: the content grows by what is shown.
LEMMA TextIs ==
  ASSUME NEW p, IsParse(p), p.content \in Seq(STRING), p.shown = p.content, NEW d \in Seq(STRING)
  PROVE  TextAdds(p, d, AppendText(Active(p), d)) /\ TextAdds(p, d, [Active(p) EXCEPT !.content = @ \o d, !.shown = @ \o d])
<1> DEFINE a == Active(p)
           cur == p.content
           rest == SubSeq(d, Len(cur) + 1, Len(d))
           more == [a EXCEPT !.content = d, !.shown = @ \o rest]
           next == [a EXCEPT !.content = @ \o d, !.shown = @ \o d]
<1>1. /\ IsParse(a) /\ a.content = cur /\ a.shown = cur /\ a.tools = p.tools /\ a.items = p.items
      /\ a.stop = p.stop /\ a.terminal = p.terminal
  BY DEF IsParse, Active
<1> HIDE DEF a
<1>2. TextAdds(p, d, next)
  BY <1>1 DEF IsParse, TextAdds
<1>3. CASE d = cur
  <2>1. AppendText(a, d) = a
    BY <1>1, <1>3 DEF AppendText
  <2>2. cur \o <<>> = cur /\ <<>> \in Seq(STRING)
    BY EmptySeq, ConcatEmptySeq
  <2>3. TextAdds(p, d, a)
    BY <1>1, <2>2 DEF TextAdds
  <2>. QED
    BY <1>2, <2>1, <2>3 DEF a
<1>4. CASE d # cur /\ IsPrefix(cur, d)
  <2>1. AppendText(a, d) = more
    BY <1>1, <1>4 DEF AppendText
  <2>2. rest \in Seq(STRING) /\ cur \o rest = d
    BY <1>4, PrefixRest
  <2> HIDE DEF rest
  <2>3. TextAdds(p, d, more)
    <3>1. /\ more.content = d /\ more.shown = d /\ more.tools = a.tools /\ more.items = a.items /\ more.stop = a.stop
          /\ more.terminal = a.terminal /\ IsParse(more)
      BY <1>1, <2>2 DEF IsParse
    <3> HIDE DEF more
    <3>. QED
      BY <1>1, <2>2, <3>1 DEF TextAdds
  <2>. QED
    BY <1>2, <2>1, <2>3 DEF a
<1>5. CASE d # cur /\ ~IsPrefix(cur, d)
  <2>1. AppendText(a, d) = next
    BY <1>1, <1>5 DEF AppendText
  <2>. QED
    BY <1>2, <2>1 DEF a
<1>. QED
  BY <1>3, <1>4, <1>5

(* A frame that changes neither text nor calls.                            *)
LEMMA MarkReads ==
  ASSUME NEW w, NEW p, NEW seen \in Seq(AllFrames), NEW f \in AllFrames, NEW q,
         Going(w, p, seen), IsParse(q), q.content = p.content, q.shown = p.shown, q.tools = p.tools,
         q.items = p.items, q.terminal \/ q.stop # "" => p.terminal \/ p.stop # "" \/ f.t \in Closing,
         w = "responses" => f.t # "item"
  PROVE  Reads(w, p, seen, f, q)
<1>1. p.shown \in Seq(STRING) /\ p.shown = p.content /\ ToolsFit(p)
  BY DEF Going, Sound
<1>2. <<>> \in Seq(STRING) /\ p.shown \o <<>> = p.shown
  BY <1>1, EmptySeq, ConcatEmptySeq
<1>3. ToolsFit(q)
  BY <1>1 DEF ToolsFit
<1>. QED
  BY <1>1, <1>2, <1>3, FrameReads

(* A frame that brings text.                                               *)
LEMMA TextReads ==
  ASSUME NEW w, NEW p, NEW seen \in Seq(AllFrames), NEW f \in AllFrames, NEW q, NEW d \in Seq(STRING),
         Going(w, p, seen), TextAdds(p, d, q), f.t = "text"
  PROVE  Reads(w, p, seen, f, q)
<1>1. PICK x \in Seq(STRING) : q.shown = p.shown \o x
  BY DEF TextAdds
<1>2. /\ IsParse(q) /\ q.shown = q.content /\ q.tools = p.tools /\ q.items = p.items
      /\ q.stop = p.stop /\ q.terminal = p.terminal
  BY DEF TextAdds
<1>3. ToolsFit(q)
  BY <1>2 DEF Going, ToolsFit
<1>. QED
  BY <1>1, <1>2, <1>3, FrameReads

(* A frame that changes a call.                                            *)
LEMMA ToolReads ==
  ASSUME NEW w, NEW p, NEW seen \in Seq(AllFrames), NEW f \in AllFrames, NEW q,
         Going(w, p, seen), IsParse(q), q.content = p.content, q.shown = p.shown, ToolsFit(q),
         q.terminal = p.terminal, q.stop = p.stop, DOMAIN p.items \subseteq DOMAIN q.items,
         w = "responses" /\ f.t = "item" /\ f.item # "" => f.item \in DOMAIN q.items
  PROVE  Reads(w, p, seen, f, q)
<1>1. p.shown \in Seq(STRING) /\ p.shown = p.content
  BY DEF Going, Sound
<1>2. <<>> \in Seq(STRING) /\ p.shown \o <<>> = p.shown
  BY <1>1, EmptySeq, ConcatEmptySeq
<1>. QED
  BY <1>1, <1>2, FrameReads

(* What an active parse is.                                                *)
LEMMA ActiveIs ==
  ASSUME NEW p, IsParse(p)
  PROVE  /\ IsParse(Active(p)) /\ Active(p).content = p.content /\ Active(p).shown = p.shown
         /\ Active(p).tools = p.tools /\ Active(p).items = p.items /\ Active(p).stop = p.stop
         /\ Active(p).terminal = p.terminal /\ Active(p).err = p.err
  BY DEF Active, IsParse

\* Two bounded sets of places have a bound in common.
LEMMA BothBounds ==
  ASSUME NEW n \in Nat, NEW m \in Nat
  PROVE  n + m \in Nat /\ m \in 0..(n + m) /\ \A k \in 0..n : k \in 0..(n + m)
  OBVIOUS

(* A place more, or another call at it.                                    *)
LEMMA CallPlaced ==
  ASSUME NEW p, ToolsFit(p), NEW at \in Nat, NEW q,
         DOMAIN q.tools = DOMAIN p.tools \cup {at}, Fits(at, q.tools[at]),
         \A x \in DOMAIN p.tools : x # at => q.tools[x] = p.tools[x],
         \A x \in DOMAIN q.items : x # "" /\ q.items[x] = PlaceOf(x)
  PROVE  ToolsFit(q)
<1>2. Bounded(q.tools)
  <2>1. PICK n \in Nat : DOMAIN p.tools \subseteq 0..n
    BY DEF ToolsFit, Bounded
  <2>2. n + at \in Nat /\ at \in 0..(n + at) /\ \A k \in 0..n : k \in 0..(n + at)
    BY BothBounds
  <2>3. DOMAIN q.tools \subseteq 0..(n + at)
    BY <2>1, <2>2
  <2>. QED
    BY <2>2, <2>3 DEF Bounded
<1>3. ASSUME NEW k \in DOMAIN q.tools PROVE Fits(k, q.tools[k])
  <2>1. CASE k = at
    BY <2>1
  <2>2. CASE k # at
    <3>1. k \in DOMAIN p.tools /\ q.tools[k] = p.tools[k]
      BY <2>2
    <3>2. Fits(k, p.tools[k])
      BY <3>1 DEF ToolsFit
    <3>. QED
      BY <3>1, <3>2
  <2>. QED
    BY <2>1, <2>2
<1>. QED
  BY <1>2, <1>3 DEF ToolsFit

(* Fragments of one call, one after another.                               *)
LEMMA FragmentsJoin ==
  ASSUME NEW id, NEW a \in FragmentsOf(id), NEW b \in FragmentsOf(id) PROVE a \o b \in FragmentsOf(id)
  BY ConcatProperties DEF FragmentsOf

\* No fragment yet is a sequence of fragments of any call.
LEMMA NoFragments == ASSUME NEW id PROVE <<>> \in FragmentsOf(id)
  BY EmptySeq DEF FragmentsOf

(* What the call at a place is so far.                                     *)
LEMMA SoFarFits ==
  ASSUME NEW p, ToolsFit(p), NEW at, NEW a,
         a = IF Known(p.tools, at) THEN p.tools[at] ELSE Acc("", "", <<>>)
  PROVE  a.id \in {"", CallAt(at)} /\ a.args \in FragmentsOf(CallAt(at))
<1>1. CASE Known(p.tools, at)
  BY <1>1 DEF Known, ToolsFit, Fits
<1>2. CASE ~Known(p.tools, at)
  <2>1. <<>> \in FragmentsOf(CallAt(at))
    BY NoFragments
  <2>. QED
    BY <1>2, <2>1 DEF Acc
<1>. QED
  BY <1>1, <1>2

(* chatWithStream, stream.go: a data line of the chat wire.                *)
LEMMA ChatReads ==
  ASSUME NEW p, NEW seen \in Seq(AllFrames), NEW f \in AllFrames, FrameFits("chat", f), Going("chat", p, seen)
  PROVE  Reads("chat", p, seen, f, ChatFrame(p, f))
<1> DEFINE q == ChatFrame(p, f)
           a == Active(p)
<1>1. IsParse(p) /\ p.content \in Seq(STRING) /\ p.shown = p.content /\ ToolsFit(p)
  BY DEF Going, Sound
<1>2. /\ IsParse(a) /\ a.content = p.content /\ a.shown = p.shown
      /\ a.tools = p.tools /\ a.items = p.items /\ a.stop = p.stop
      /\ a.terminal = p.terminal /\ a.err = p.err
  BY <1>1, ActiveIs
<1> HIDE DEF a
<1>3. CASE f.t \in {"junk", "done", "error", "other", "finish"}
  <2>1. /\ f.t = "junk" => q = p
        /\ f.t = "done" => q = [p EXCEPT !.terminal = TRUE]
        /\ f.t = "error" => q = [a EXCEPT !.err = TRUE]
        /\ f.t = "other" => q = a
        /\ f.t = "finish" => q = [a EXCEPT !.stop = f.stop, !.terminal = TRUE]
    BY <1>3 DEF ChatFrame, a
  <2>2. /\ IsParse(q) /\ q.content = p.content /\ q.shown = p.shown /\ q.tools = p.tools
        /\ q.items = p.items /\ (q.terminal \/ q.stop # "" => p.terminal \/ p.stop # "" \/ f.t \in Closing)
    <3> HIDE DEF q
    <3>1. CASE f.t = "junk"
      BY <1>1, <2>1, <3>1
    <3>2. CASE f.t = "done"
      <4>1. q = [p EXCEPT !.terminal = TRUE] /\ f.t \in Closing
        BY <2>1, <3>2 DEF Closing
      <4>. QED
        BY <1>1, <4>1 DEF IsParse
    <3>3. CASE f.t = "error"
      <4>1. q = [a EXCEPT !.err = TRUE]
        BY <2>1, <3>3
      <4>. QED
        BY <1>2, <4>1 DEF IsParse
    <3>4. CASE f.t = "other"
      BY <1>2, <2>1, <3>4
    <3>5. CASE f.t = "finish"
      <4>1. q = [a EXCEPT !.stop = f.stop, !.terminal = TRUE] /\ f.t \in Closing
        BY <2>1, <3>5 DEF Closing
      <4>. QED
        BY <1>2, <4>1 DEF IsParse
    <3>. QED
      BY <1>3, <3>1, <3>2, <3>3, <3>4, <3>5
  <2> HIDE DEF q
  <2>. QED
    BY <2>2, MarkReads DEF q
<1>4. CASE f.t = "text" /\ f.text \in Seq(STRING)
  <2>1. q = AppendText(a, f.text)
    BY <1>4 DEF ChatFrame, a
  <2>2. TextAdds(p, f.text, q)
    BY <1>1, <1>4, <2>1, TextIs DEF a
  <2> HIDE DEF q
  <2>. QED
    BY <1>4, <2>2, TextReads DEF q
<1>5. CASE f.t = "tool" /\ f.at \in Nat /\ f.id \in {"", CallAt(f.at)} /\ f.args \in FragmentsOf(CallAt(f.at))
  <2> DEFINE o == IF Known(p.tools, f.at) THEN p.tools[f.at] ELSE Acc("", "", <<>>)
             c == Acc(Default(f.id, o.id), Default(f.name, o.name), o.args \o f.args)
  <2>1. q = [a EXCEPT !.tools = With(p.tools, f.at, c)]
    BY <1>2, <1>5 DEF ChatFrame, a
  <2>2. o.id \in {"", CallAt(f.at)} /\ o.args \in FragmentsOf(CallAt(f.at))
    <3> HIDE DEF c
    <3>. QED
      BY <1>1, SoFarFits
  <2>3. Fits(f.at, c)
    <3> HIDE DEF o
    <3>1. o.args \o f.args \in FragmentsOf(CallAt(f.at))
      BY <1>5, <2>2, FragmentsJoin
    <3>2. Default(f.id, o.id) \in {"", CallAt(f.at)}
      BY <1>5, <2>2 DEF Default
    <3>. QED
      BY <3>1, <3>2 DEF Acc, Fits
  <2> HIDE DEF c, q
  <2>4. /\ IsParse(q) /\ q.content = p.content /\ q.shown = p.shown /\ q.tools = With(p.tools, f.at, c)
        /\ q.terminal = p.terminal /\ q.stop = p.stop /\ q.items = p.items
    BY <1>2, <2>1 DEF IsParse
  <2>5. ToolsFit(q)
    <3>1. \A x \in DOMAIN q.items : x # "" /\ q.items[x] = PlaceOf(x)
      BY <1>1, <2>4 DEF ToolsFit
    <3>2. /\ DOMAIN q.tools = DOMAIN p.tools \cup {f.at} /\ q.tools[f.at] = c
          /\ \A x \in DOMAIN p.tools : x # f.at => q.tools[x] = p.tools[x]
      BY <2>4 DEF With
    <3>. QED
      BY <1>1, <1>5, <2>3, <3>1, <3>2, CallPlaced
  <2>. QED
    BY <2>4, <2>5, ToolReads DEF q
<1>. QED
  BY <1>3, <1>4, <1>5 DEF FrameFits

(* The call at a place changed.                                            *)
LEMMA CallChanged ==
  ASSUME NEW p, ToolsFit(p), NEW at, Known(p.tools, at), NEW c, Fits(at, c),
         NEW q, q.items = p.items, DOMAIN q.tools = DOMAIN p.tools, q.tools[at] = c,
         \A x \in DOMAIN p.tools : x # at => q.tools[x] = p.tools[x]
  PROVE  ToolsFit(q)
<1>1. at \in DOMAIN p.tools /\ at \in Nat
  <2>1. PICK n \in Nat : DOMAIN p.tools \subseteq 0..n
    BY DEF ToolsFit, Bounded
  <2>2. at \in DOMAIN p.tools
    BY DEF Known
  <2>. QED
    BY <2>1, <2>2
<1>2. /\ DOMAIN q.tools = DOMAIN p.tools \cup {at} /\ q.tools[at] = c
      /\ \A x \in DOMAIN p.tools : x # at => q.tools[x] = p.tools[x]
  BY <1>1
<1>4. \A x \in DOMAIN q.items : x # "" /\ q.items[x] = PlaceOf(x)
  BY DEF ToolsFit
<1>. QED
  BY <1>1, <1>2, <1>4, CallPlaced

(* More fragments of the call at a place.                                  *)
LEMMA ArgsFit ==
  ASSUME NEW p, ToolsFit(p), NEW at, Known(p.tools, at), NEW b \in FragmentsOf(CallAt(at))
  PROVE  Fits(at, [p.tools[at] EXCEPT !.args = b])
<1>1. Fits(at, p.tools[at])
  BY DEF Known, ToolsFit
<1>. QED
  BY <1>1 DEF Fits

(* anthropic_stream.go: an event of the Anthropic wire.                    *)
LEMMA AnthropicReads ==
  ASSUME NEW p, NEW seen \in Seq(AllFrames), NEW f \in AllFrames, FrameFits("anthropic", f),
         Going("anthropic", p, seen)
  PROVE  Reads("anthropic", p, seen, f, AnthropicFrame(p, f))
<1> DEFINE q == AnthropicFrame(p, f)
           a == Active(p)
<1>1. IsParse(p) /\ p.content \in Seq(STRING) /\ p.shown = p.content /\ ToolsFit(p)
  BY DEF Going, Sound
<1>2. /\ IsParse(a) /\ a.content = p.content /\ a.shown = p.shown
      /\ a.tools = p.tools /\ a.items = p.items /\ a.stop = p.stop
      /\ a.terminal = p.terminal /\ a.err = p.err
  BY <1>1, ActiveIs
<1> HIDE DEF a
<1>3. CASE f.t \in {"junk", "ping", "stop", "error", "other", "finish"}
  <2>1. /\ f.t \in {"junk", "ping"} => q = p
        /\ f.t = "stop" => q = [a EXCEPT !.terminal = TRUE]
        /\ f.t = "error" => q = [a EXCEPT !.err = TRUE]
        /\ f.t = "other" => q = a
        /\ f.t = "finish" => q = [a EXCEPT !.stop = Default(f.stop, @)]
    BY <1>3 DEF AnthropicFrame, a
  <2>2. /\ IsParse(q) /\ q.content = p.content /\ q.shown = p.shown /\ q.tools = p.tools
        /\ q.items = p.items /\ (q.terminal \/ q.stop # "" => p.terminal \/ p.stop # "" \/ f.t \in Closing)
    <3> HIDE DEF q
    <3>1. CASE f.t \in {"junk", "ping"}
      BY <1>1, <2>1, <3>1
    <3>2. CASE f.t = "stop"
      <4>1. q = [a EXCEPT !.terminal = TRUE] /\ f.t \in Closing
        BY <2>1, <3>2 DEF Closing
      <4>. QED
        BY <1>2, <4>1 DEF IsParse
    <3>3. CASE f.t = "error"
      <4>1. q = [a EXCEPT !.err = TRUE]
        BY <2>1, <3>3
      <4>. QED
        BY <1>2, <4>1 DEF IsParse
    <3>4. CASE f.t = "other"
      BY <1>2, <2>1, <3>4
    <3>5. CASE f.t = "finish"
      <4> DEFINE stop == Default(f.stop, a.stop)
      <4>1. q = [a EXCEPT !.stop = stop] /\ f.t \in Closing
        BY <2>1, <3>5 DEF Closing
      <4> HIDE DEF stop
      <4>. QED
        BY <1>2, <4>1 DEF IsParse
    <3>. QED
      BY <1>3, <3>1, <3>2, <3>3, <3>4, <3>5
  <2> HIDE DEF q
  <2>. QED
    BY <2>2, MarkReads DEF q
<1>4. CASE f.t = "text" /\ f.text \in Seq(STRING)
  <2> DEFINE d == f.text
             t == [Active(p) EXCEPT !.content = @ \o d, !.shown = @ \o d]
  <2>1. q = t
    BY <1>4 DEF AnthropicFrame
  <2>2. d \in Seq(STRING)
    BY <1>4
  <2> HIDE DEF d
  <2>3. TextAdds(p, d, t)
    BY <1>1, <2>2, TextIs
  <2> HIDE DEF t, q
  <2>4. TextAdds(p, d, q)
    BY <2>1, <2>3
  <2> HIDE DEF q
  <2>. QED
    BY <1>4, <2>2, <2>4, TextReads DEF q
<1>5. CASE f.t = "tool" /\ f.at \in Nat /\ f.id = CallAt(f.at)
  <2> DEFINE c == Acc(f.id, f.name, <<>>)
  <2>1. q = [a EXCEPT !.tools = With(p.tools, f.at, c)]
    BY <1>2, <1>5 DEF AnthropicFrame, a
  <2>3. Fits(f.at, c)
    <3>1. <<>> \in FragmentsOf(CallAt(f.at))
      BY NoFragments
    <3>. QED
      BY <1>5, <3>1 DEF Acc, Fits
  <2> HIDE DEF c, q
  <2>4. /\ IsParse(q) /\ q.content = p.content /\ q.shown = p.shown /\ q.tools = With(p.tools, f.at, c)
        /\ q.terminal = p.terminal /\ q.stop = p.stop /\ q.items = p.items
    BY <1>2, <2>1 DEF IsParse
  <2>5. ToolsFit(q)
    <3>1. \A x \in DOMAIN q.items : x # "" /\ q.items[x] = PlaceOf(x)
      BY <1>1, <2>4 DEF ToolsFit
    <3>2. /\ DOMAIN q.tools = DOMAIN p.tools \cup {f.at} /\ q.tools[f.at] = c
          /\ \A x \in DOMAIN p.tools : x # f.at => q.tools[x] = p.tools[x]
      BY <2>4 DEF With
    <3>. QED
      BY <1>1, <1>5, <2>3, <3>1, <3>2, CallPlaced
  <2>. QED
    BY <2>4, <2>5, ToolReads DEF q
<1>6. CASE f.t = "args" /\ f.args \in FragmentsOf(CallAt(f.at))
  <2>1. CASE ~Known(p.tools, f.at)
    <3>1. q = a
      BY <1>6, <2>1 DEF AnthropicFrame, a
    <3> HIDE DEF q
    <3>. QED
      BY <1>1, <1>2, <3>1, ToolReads DEF q, ToolsFit
  <2>2. CASE Known(p.tools, f.at)
    <3> DEFINE b == p.tools[f.at].args \o f.args
    <3>1. q = [a EXCEPT !.tools = [p.tools EXCEPT ![f.at].args = b]]
      BY <1>2, <1>6, <2>2 DEF AnthropicFrame, a
    <3>2. b \in FragmentsOf(CallAt(f.at))
      <4>1. p.tools[f.at].args \in FragmentsOf(CallAt(f.at))
        BY <1>1, <2>2 DEF Known, ToolsFit, Fits
      <4>. QED
        BY <1>6, <4>1, FragmentsJoin
    <3> HIDE DEF b
    <3> DEFINE c == [p.tools[f.at] EXCEPT !.args = b]
    <3>5. q = [a EXCEPT !.tools = [p.tools EXCEPT ![f.at] = c]] /\ Fits(f.at, c)
      BY <1>1, <2>2, <3>1, <3>2, ArgsFit
    <3> HIDE DEF q, c
    <3>3. /\ IsParse(q) /\ q.content = p.content /\ q.shown = p.shown
          /\ q.tools = [p.tools EXCEPT ![f.at] = c]
          /\ q.terminal = p.terminal /\ q.stop = p.stop /\ q.items = p.items
      BY <1>2, <3>5 DEF IsParse
    <3>4. ToolsFit(q)
      <4>1. /\ DOMAIN q.tools = DOMAIN p.tools /\ q.tools[f.at] = c
            /\ \A x \in DOMAIN p.tools : x # f.at => q.tools[x] = p.tools[x]
        BY <2>2, <3>3 DEF Known
      <4>. QED
        <5>1. /\ ToolsFit(p) /\ Known(p.tools, f.at) /\ Fits(f.at, c) /\ q.items = p.items
          BY <1>1, <2>2, <3>3, <3>5
        <5>. QED
          BY <4>1, <5>1, CallChanged
    <3>. QED
      BY <3>3, <3>4, ToolReads DEF q
  <2>. QED
    BY <2>1, <2>2
<1>. QED
  BY <1>3, <1>4, <1>5, <1>6 DEF FrameFits

\* A sequence over a set is one over a wider set.
LEMMA SeqWider == ASSUME NEW A, NEW B, A \subseteq B, NEW s \in Seq(A) PROVE s \in Seq(B)
  OBVIOUS

\* A sequence is one over its own elements.
LEMMA OwnSeq == ASSUME NEW S, NEW s \in Seq(S) PROVE s \in Seq({s[i] : i \in DOMAIN s})
<1> DEFINE vs == {s[i] : i \in DOMAIN s}
<1>1. Len(s) \in Nat /\ DOMAIN s = 1..Len(s) /\ s = [i \in 1..Len(s) |-> s[i]]
  BY LenProperties
<1>2. \A i \in 1..Len(s) : s[i] \in vs
  BY <1>1
<1> HIDE DEF vs
<1>3. s \in [1..Len(s) -> vs]
  BY <1>1, <1>2
<1>4. s \in Seq(vs)
  BY <1>1, <1>3
<1>. QED
  BY <1>4 DEF vs

(* messageFromResponses: the calls that have a name and an id.             *)
LEMMA CallableIs ==
  ASSUME NEW C, NEW calls \in Seq(C), \A c \in C : WholeCall(c)
  PROVE  Callable(calls) \in Seq({c \in C : WholeCall(c) /\ c.id # "" /\ c.name # ""})
<1> DEFINE at == {i \in DOMAIN calls : calls[i].name # "" /\ calls[i].id # ""}
           vs == {calls[k] : k \in at}
           good == {c \in C : WholeCall(c) /\ c.id # "" /\ c.name # ""}
<1>1. Len(calls) \in Nat
  BY LenProperties
<1>2. Listed(calls, at, Len(calls)) \in Seq(vs)
  <2> HIDE DEF at
  <2>. QED
    BY <1>1, ListedIs
<1>3. vs \subseteq good
  <2>1. \A k \in DOMAIN calls : calls[k] \in C
    BY ElementOfSeq, LenProperties
  <2>. QED
    BY <2>1
<1>4. Callable(calls) = Listed(calls, at, Len(calls))
  BY DEF Callable, Picked
<1> HIDE DEF at, vs, good
<1>5. Callable(calls) \in Seq(good)
  BY <1>2, <1>3, <1>4, SeqWider
<1>. QED
  BY <1>5 DEF good

(* Calls in a sequence are calls at places.                                *)
LEMMA SeqOfCalls ==
  ASSUME NEW C, NEW calls \in Seq(C), \A c \in C : WholeCall(c) PROVE ToolsWhole(calls)
<1>1. Len(calls) \in Nat /\ DOMAIN calls = 1..Len(calls) /\ \A k \in DOMAIN calls : calls[k] \in C
  BY ElementOfSeq, LenProperties
<1>2. \A k \in 1..Len(calls) : k \in 0..Len(calls)
  BY <1>1
<1>3. Bounded(calls)
  BY <1>1, <1>2 DEF Bounded
<1>. QED
  BY <1>1, <1>3 DEF ToolsWhole

(* The calls of a whole response.                                          *)
LEMMA ResponseIs ==
  ASSUME NEW r, BodyFits(r)
  PROVE  /\ FromResponse(r).text = r.text /\ r.text \in Seq(STRING)
         /\ FromResponse(r).calls \in Seq({FromResponse(r).calls[i] : i \in DOMAIN FromResponse(r).calls})
         /\ \A i \in DOMAIN FromResponse(r).calls :
              LET c == FromResponse(r).calls[i] IN WholeCall(c) /\ c.id # "" /\ c.name # ""
         /\ ToolsWhole(FromResponse(r).calls)
<1> DEFINE C == {r.calls[i] : i \in DOMAIN r.calls}
           good == {c \in C : WholeCall(c) /\ c.id # "" /\ c.name # ""}
           calls == FromResponse(r).calls
<1>1. r.text \in Seq(STRING) /\ r.calls \in Seq([id : STRING, name : STRING, args : Seq(STRING)])
  BY DEF BodyFits
<1>2. r.calls \in Seq(C)
  <2> DEFINE S == [id : STRING, name : STRING, args : Seq(STRING)]
             s == r.calls
  <2>1. s \in Seq(S)
    BY <1>1
  <2> HIDE DEF S, s
  <2>2. s \in Seq({s[i] : i \in DOMAIN s})
    BY <2>1, OwnSeq
  <2>. QED
    BY <2>2 DEF s
<1>3. \A c \in C : WholeCall(c)
  BY DEF BodyFits, WholeCall
<1>4. calls = Callable(r.calls) /\ FromResponse(r).text = r.text
  BY DEF FromResponse
<1>5. calls \in Seq(good)
  <2> HIDE DEF C
  <2>1. Callable(r.calls) \in Seq({c \in C : WholeCall(c) /\ c.id # "" /\ c.name # ""})
    BY <1>2, <1>3, CallableIs
  <2>. QED
    BY <1>4, <2>1
<1>6. \A c \in good : WholeCall(c) /\ c.id # "" /\ c.name # ""
  OBVIOUS
<1> HIDE DEF good, calls
<1>7. \A i \in DOMAIN calls : calls[i] \in good
  BY <1>5, ElementOfSeq, LenProperties
<1>8. ToolsWhole(calls)
  BY <1>5, <1>6, SeqOfCalls
<1>9. calls \in Seq({calls[i] : i \in DOMAIN calls})
  BY <1>5, OwnSeq
<1>. QED
  BY <1>1, <1>4, <1>6, <1>7, <1>8, <1>9 DEF calls

(* responses.go: an item is announced, or repeated when it is done.        *)
LEMMA ItemReads ==
  ASSUME NEW p, NEW seen \in Seq(AllFrames), NEW f \in AllFrames, Going("responses", p, seen),
         f.t \in {"item", "item.done"}, f.at \in Nat, Default(f.id, f.item) = CallAt(f.at),
         f.item # "" => PlaceOf(f.item) = f.at, f.args \in FragmentsOf(CallAt(f.at))
  PROVE  Reads("responses", p, seen, f, ItemFrame(p, f))
<1> DEFINE q == ItemFrame(p, f)
           a == Active(p)
           o == IF Known(p.tools, f.at) THEN p.tools[f.at] ELSE Acc("", "", <<>>)
           id == IF f.id # "" THEN f.id ELSE Default(o.id, f.item)
           args == IF f.t = "item.done" /\ o.args = <<>> THEN f.args ELSE o.args
           c == Acc(id, Default(f.name, o.name), args)
           its == IF f.item = "" THEN p.items ELSE With(p.items, f.item, f.at)
<1>1. IsParse(p) /\ p.content \in Seq(STRING) /\ p.shown = p.content /\ ToolsFit(p)
  BY DEF Going, Sound
<1>2. /\ IsParse(a) /\ a.content = p.content /\ a.shown = p.shown
      /\ a.tools = p.tools /\ a.items = p.items /\ a.stop = p.stop
      /\ a.terminal = p.terminal /\ a.err = p.err
  BY <1>1, ActiveIs
<1>3. q = [a EXCEPT !.tools = With(a.tools, f.at, c), !.items = IF f.item = "" THEN a.items ELSE With(a.items, f.item, f.at)]
  BY DEF ItemFrame
<1>4. o.id \in {"", CallAt(f.at)} /\ o.args \in FragmentsOf(CallAt(f.at))
  <2> HIDE DEF q, a
  <2>. QED
    BY <1>1, SoFarFits
<1>5. Fits(f.at, c)
  <2>1. id \in {"", CallAt(f.at)}
    <3> HIDE DEF o
    <3>. QED
      BY <1>4 DEF Default
  <2>2. args \in FragmentsOf(CallAt(f.at))
    <3> HIDE DEF o
    <3>. QED
      BY <1>4
  <2> HIDE DEF id, args
  <2>. QED
    BY <2>1, <2>2 DEF Acc, Fits
<1> HIDE DEF q, a, c
<1>6. /\ IsParse(q) /\ q.content = p.content /\ q.shown = p.shown /\ q.tools = With(p.tools, f.at, c)
      /\ q.terminal = p.terminal /\ q.stop = p.stop /\ q.items = its
  <2> DEFINE more == With(a.tools, f.at, c)
             items == IF f.item = "" THEN a.items ELSE With(a.items, f.item, f.at)
  <2>1. q = [a EXCEPT !.tools = more, !.items = items]
    BY <1>3
  <2>2. items = its /\ more = With(p.tools, f.at, c)
    BY <1>2
  <2> HIDE DEF more, items, its
  <2>. QED
    BY <1>2, <2>1, <2>2 DEF IsParse
<1>7. /\ \A x \in DOMAIN its : x # "" /\ its[x] = PlaceOf(x)
      /\ DOMAIN p.items \subseteq DOMAIN its /\ (f.item # "" => f.item \in DOMAIN its)
  <2>1. \A x \in DOMAIN p.items : x # "" /\ p.items[x] = PlaceOf(x)
    BY <1>1 DEF ToolsFit
  <2>2. CASE f.item = ""
    BY <2>1, <2>2
  <2>3. CASE f.item # ""
    <3>1. its = With(p.items, f.item, f.at) /\ PlaceOf(f.item) = f.at
      BY <2>3
    <3> HIDE DEF its
    <3>. QED
      BY <2>1, <2>3, <3>1 DEF With
  <2>. QED
    BY <2>2, <2>3
<1> HIDE DEF its
<1>8. ToolsFit(q)
  <2>1. /\ DOMAIN q.tools = DOMAIN p.tools \cup {f.at} /\ q.tools[f.at] = c
        /\ \A x \in DOMAIN p.tools : x # f.at => q.tools[x] = p.tools[x]
    BY <1>6 DEF With
  <2>. QED
    BY <1>1, <1>5, <1>6, <1>7, <2>1, CallPlaced
<1>9. Reads("responses", p, seen, f, q)
  BY <1>6, <1>7, <1>8, ToolReads
<1>. QED
  BY <1>9 DEF q

(* The place fragments go to: that of their item, or else the one named.   *)
Home(p, f) == IF Known(p.items, f.item) THEN p.items[f.item] ELSE f.at

\* An item that was announced has the place it names.
LEMMA HomeIs ==
  ASSUME NEW p, ToolsFit(p), NEW seen, Announced(p, seen), NEW f,
         f.at # PlaceOf(f.item) =>
           \E i \in DOMAIN seen : seen[i].t = "item" /\ seen[i].item = f.item /\ f.item # ""
  PROVE  Home(p, f) = PlaceOf(f.item)
<1>1. CASE Known(p.items, f.item)
  BY <1>1 DEF Known, ToolsFit, Home
<1>2. CASE ~Known(p.items, f.item)
  <2>1. f.at = PlaceOf(f.item)
    <3> SUFFICES ASSUME f.at # PlaceOf(f.item) PROVE FALSE
      OBVIOUS
    <3>1. PICK i \in DOMAIN seen : seen[i].t = "item" /\ seen[i].item = f.item /\ f.item # ""
      OBVIOUS
    <3>. QED
      BY <1>2, <3>1 DEF Announced, Known
  <2>. QED
    BY <1>2, <2>1 DEF Home
<1>. QED
  BY <1>1, <1>2

(* Fragments, or all arguments, of the call of an item.                    *)
LEMMA ArgsReads ==
  ASSUME NEW p, NEW seen \in Seq(AllFrames), NEW f \in AllFrames, Going("responses", p, seen),
         f.t \in {"args", "args.done"}, f.args \in FragmentsOf(CallAt(PlaceOf(f.item))),
         Home(p, f) = PlaceOf(f.item)
  PROVE  Reads("responses", p, seen, f, ArgsFrame(p, f))
<1> DEFINE q == ArgsFrame(p, f)
           a == Active(p)
           home == Home(p, f)
<1>1. IsParse(p) /\ p.content \in Seq(STRING) /\ p.shown = p.content /\ ToolsFit(p)
  BY DEF Going, Sound
<1>2. /\ IsParse(a) /\ a.content = p.content /\ a.shown = p.shown
      /\ a.tools = p.tools /\ a.items = p.items /\ a.stop = p.stop
      /\ a.terminal = p.terminal /\ a.err = p.err
  BY <1>1, ActiveIs
<1>3. home = PlaceOf(f.item)
  BY DEF Home
<1>4. CASE ~Known(p.tools, home)
  <2>1. q = a
    BY <1>4 DEF ArgsFrame, Home
  <2> HIDE DEF q, a
  <2>2. ToolsFit(q)
    BY <1>1, <1>2, <2>1 DEF ToolsFit
  <2>3. Reads("responses", p, seen, f, q)
    BY <1>2, <2>1, <2>2, ToolReads
  <2>. QED
    BY <2>3 DEF q
<1>5. CASE Known(p.tools, home)
  <2> DEFINE old == p.tools[home].args
             b == CASE f.t = "args" -> old \o f.args
                    [] f.t = "args.done" /\ f.args # <<>> -> f.args
                    [] OTHER -> old
  <2>1. q = [a EXCEPT !.tools[home].args =
               CASE f.t = "args" -> @ \o f.args
                 [] f.t = "args.done" /\ f.args # <<>> -> f.args
                 [] OTHER -> @]
    BY <1>5 DEF ArgsFrame, Home
  <2>2. q = [a EXCEPT !.tools = [a.tools EXCEPT ![home].args =
               CASE f.t = "args" -> @ \o f.args
                 [] f.t = "args.done" /\ f.args # <<>> -> f.args
                 [] OTHER -> @]]
    BY <2>1
  <2>3. q = [a EXCEPT !.tools = [p.tools EXCEPT ![home].args = b]]
    <3> HIDE DEF home, a, q
    <3>. QED
      BY <1>2, <2>2
  <2>4. b \in FragmentsOf(CallAt(home))
    <3>1. old \in FragmentsOf(CallAt(home))
      BY <1>1, <1>5 DEF Known, ToolsFit, Fits
    <3>2. f.args \in FragmentsOf(CallAt(home))
      BY <1>3
    <3>3. old \o f.args \in FragmentsOf(CallAt(home))
      BY <3>1, <3>2, FragmentsJoin
    <3> HIDE DEF home, old
    <3>. QED
      BY <3>1, <3>2, <3>3
  <2> HIDE DEF b, a, home, old
  <2> DEFINE c == [p.tools[home] EXCEPT !.args = b]
  <2>8. q = [a EXCEPT !.tools = [p.tools EXCEPT ![home] = c]] /\ Fits(home, c)
    <3> HIDE DEF q
    <3>. QED
      BY <1>1, <1>5, <2>3, <2>4, ArgsFit
  <2> HIDE DEF q, c
  <2>5. /\ IsParse(q) /\ q.content = p.content /\ q.shown = p.shown
        /\ q.tools = [p.tools EXCEPT ![home] = c]
        /\ q.terminal = p.terminal /\ q.stop = p.stop /\ q.items = p.items
    BY <1>2, <2>8 DEF IsParse
  <2>6. ToolsFit(q)
    <3>1. /\ DOMAIN q.tools = DOMAIN p.tools /\ q.tools[home] = c
          /\ \A x \in DOMAIN p.tools : x # home => q.tools[x] = p.tools[x]
      BY <1>5, <2>5 DEF Known
    <3>. QED
      <4>1. /\ ToolsFit(p) /\ Known(p.tools, home) /\ Fits(home, c) /\ q.items = p.items
        BY <1>1, <1>5, <2>5, <2>8
      <4>. QED
        BY <3>1, <4>1, CallChanged
  <2>7. Reads("responses", p, seen, f, q)
    BY <2>5, <2>6, ToolReads
  <2>. QED
    BY <2>7 DEF q
<1>. QED
  BY <1>4, <1>5

(* A frame that closes the answer.                                         *)
LEMMA ClosedNow ==
  ASSUME NEW seen \in Seq(AllFrames), NEW f \in AllFrames, f.t \in Closing PROVE Closed(Append(seen, f))
<1> DEFINE more == Append(seen, f)
<1>1. \E i \in DOMAIN more : more[i] = f
  BY SeenMore
<1> HIDE DEF more
<1>2. Closed(more)
  BY <1>1 DEF Closed
<1>. QED
  BY <1>2 DEF more

(* responses.go: the closing envelope.                                     *)
LEMMA CompletedReads ==
  ASSUME NEW p, NEW seen \in Seq(AllFrames), NEW f \in AllFrames, Going("responses", p, seen),
         f.t = "completed", BodyFits(f.response)
  PROVE  Reads("responses", p, seen, f, CompletedFrame(p, f))
<1> DEFINE q == CompletedFrame(p, f)
           a == Active(p)
           full == FromResponse(f.response)
<1>1. IsParse(p) /\ p.content \in Seq(STRING) /\ p.shown = p.content /\ ToolsWhole(p.tools)
  BY DEF Going, Sound
<1>2. /\ IsParse(a) /\ a.content = p.content /\ a.shown = p.shown
      /\ a.tools = p.tools /\ a.items = p.items /\ a.stop = p.stop
      /\ a.terminal = p.terminal /\ a.err = p.err
  BY <1>1, ActiveIs
<1>3. full.text \in Seq(STRING) /\ ToolsWhole(full.calls)
  BY ResponseIs
<1>4. CASE f.response.failed
  <2>1. q = [a EXCEPT !.err = TRUE]
    BY <1>4 DEF CompletedFrame
  <2> HIDE DEF q, a
  <2>2. /\ IsParse(q) /\ q.content = p.content /\ q.shown = p.shown /\ q.tools = p.tools
        /\ q.items = p.items /\ q.terminal = p.terminal /\ q.stop = p.stop
    BY <1>2, <2>1 DEF IsParse
  <2>3. Reads("responses", p, seen, f, q)
    BY <2>2, MarkReads
  <2>. QED
    BY <2>3 DEF q
<1>5. CASE ~f.response.failed
  <2> DEFINE stop == full.stop
             content == IF p.content = <<>> THEN full.text ELSE p.content
             shown == IF p.content = <<>> THEN p.shown \o full.text ELSE p.shown
             tools == IF p.tools = <<>> THEN full.calls ELSE p.tools
  <2>1. q = [a EXCEPT !.terminal = TRUE, !.stop = full.stop,
               !.content = IF p.content = <<>> THEN full.text ELSE @,
               !.shown = IF p.content = <<>> THEN @ \o full.text ELSE @,
               !.tools = IF @ = <<>> THEN full.calls ELSE @]
    BY <1>5 DEF CompletedFrame
  <2>2. q = [a EXCEPT !.terminal = TRUE, !.stop = stop, !.content = content, !.shown = shown, !.tools = tools]
    <3> HIDE DEF a, q, full
    <3>. QED
      BY <1>2, <2>1
  <2> HIDE DEF full
  <2>3. content \in Seq(STRING) /\ ToolsWhole(tools)
    BY <1>1, <1>3
  <2>4. shown = content /\ \E x \in Seq(STRING) : shown = p.shown \o x
    <3>1. CASE p.content = <<>>
      <4>1. <<>> \o full.text = full.text
        BY <1>3, ConcatEmptySeq
      <4>. QED
        BY <1>1, <1>3, <3>1, <4>1
    <3>2. CASE p.content # <<>>
      <4>1. <<>> \in Seq(STRING) /\ p.shown \o <<>> = p.shown
        BY <1>1, EmptySeq, ConcatEmptySeq
      <4>. QED
        BY <1>1, <3>2, <4>1
    <3>. QED
      BY <3>1, <3>2
  <2>5. Closed(Append(seen, f))
    BY ClosedNow DEF Closing
  <2> HIDE DEF q, a, stop, content, shown, tools
  <2>6. /\ IsParse(q) /\ q.content = content /\ q.shown = shown /\ q.tools = tools /\ q.terminal
    BY <1>2, <2>2 DEF IsParse
  <2>7. Sound(q, Append(seen, f))
    BY <2>3, <2>4, <2>5, <2>6 DEF Sound
  <2>8. Reads("responses", p, seen, f, q)
    BY <2>4, <2>6, <2>7 DEF Reads
  <2>. QED
    BY <2>8 DEF q
<1>. QED
  BY <1>4, <1>5

(* responses.go: an event of the responses wire.                           *)
LEMMA ResponsesReads ==
  ASSUME NEW p, NEW seen \in Seq(AllFrames), NEW f \in AllFrames, FrameFits("responses", f),
         Going("responses", p, seen), \A r \in Bodies : BodyFits(r),
         f.t \in {"args", "args.done"} => Home(p, f) = PlaceOf(f.item)
  PROVE  Reads("responses", p, seen, f, ResponsesFrame(p, f))
<1> DEFINE q == ResponsesFrame(p, f)
           a == Active(p)
<1>1. IsParse(p) /\ p.content \in Seq(STRING) /\ p.shown = p.content /\ ToolsFit(p)
  BY DEF Going, Sound
<1>2. /\ IsParse(a) /\ a.content = p.content /\ a.shown = p.shown
      /\ a.tools = p.tools /\ a.items = p.items /\ a.stop = p.stop
      /\ a.terminal = p.terminal /\ a.err = p.err
  BY <1>1, ActiveIs
<1> HIDE DEF a
<1>3. CASE f.t \in {"junk", "created", "error", "other", "incomplete", "garbled"}
  <2>1. /\ f.t \in {"junk", "created"} => q = p
        /\ f.t = "error" => q = [a EXCEPT !.err = TRUE]
        /\ f.t = "other" => q = a
        /\ f.t = "incomplete" => q = [a EXCEPT !.terminal = TRUE, !.stop = "max_tokens"]
        /\ f.t = "garbled" => q = [a EXCEPT !.terminal = TRUE]
    BY <1>3 DEF ResponsesFrame, a
  <2>2. /\ IsParse(q) /\ q.content = p.content /\ q.shown = p.shown /\ q.tools = p.tools
        /\ q.items = p.items /\ (q.terminal \/ q.stop # "" => p.terminal \/ p.stop # "" \/ f.t \in Closing)
    <3> HIDE DEF q
    <3>1. CASE f.t \in {"junk", "created"}
      BY <1>1, <2>1, <3>1
    <3>2. CASE f.t = "garbled"
      <4>1. q = [a EXCEPT !.terminal = TRUE] /\ f.t \in Closing
        BY <2>1, <3>2 DEF Closing
      <4>. QED
        BY <1>2, <4>1 DEF IsParse
    <3>3. CASE f.t = "error"
      <4>1. q = [a EXCEPT !.err = TRUE]
        BY <2>1, <3>3
      <4>. QED
        BY <1>2, <4>1 DEF IsParse
    <3>4. CASE f.t = "other"
      BY <1>2, <2>1, <3>4
    <3>5. CASE f.t = "incomplete"
      <4>1. q = [a EXCEPT !.terminal = TRUE, !.stop = "max_tokens"] /\ f.t \in Closing
        BY <2>1, <3>5 DEF Closing
      <4>. QED
        BY <1>2, <4>1 DEF IsParse
    <3>. QED
      BY <1>3, <3>1, <3>2, <3>3, <3>4, <3>5
  <2> HIDE DEF q
  <2>3. f.t # "item"
    BY <1>3
  <2>. QED
    BY <2>2, <2>3, MarkReads DEF q
<1>4. CASE f.t = "text" /\ f.text \in Seq(STRING)
  <2>1. q = AppendText(a, f.text)
    BY <1>4 DEF ResponsesFrame, a
  <2>2. TextAdds(p, f.text, q)
    BY <1>1, <1>4, <2>1, TextIs DEF a
  <2> HIDE DEF q
  <2>. QED
    BY <1>4, <2>2, TextReads DEF q
<1>5. CASE /\ f.t \in {"item", "item.done"} /\ f.at \in Nat /\ Default(f.id, f.item) = CallAt(f.at)
           /\ (f.item # "" => PlaceOf(f.item) = f.at) /\ f.args \in FragmentsOf(CallAt(f.at))
  <2>1. q = ItemFrame(p, f)
    BY <1>5 DEF ResponsesFrame
  <2>2. Reads("responses", p, seen, f, ItemFrame(p, f))
    BY <1>5, ItemReads
  <2>. QED
    BY <2>1, <2>2
<1>6. CASE f.t \in {"args", "args.done"} /\ f.args \in FragmentsOf(CallAt(PlaceOf(f.item)))
  <2>1. q = ArgsFrame(p, f)
    BY <1>6 DEF ResponsesFrame
  <2>2. Reads("responses", p, seen, f, ArgsFrame(p, f))
    BY <1>6, ArgsReads
  <2>. QED
    BY <2>1, <2>2
<1>7. CASE f.t = "completed" /\ f.response \in Bodies
  <2>1. q = CompletedFrame(p, f)
    BY <1>7 DEF ResponsesFrame
  <2>2. Reads("responses", p, seen, f, CompletedFrame(p, f))
    BY <1>7, CompletedReads
  <2>. QED
    BY <2>1, <2>2
<1>. QED
  BY <1>3, <1>4, <1>5, <1>6, <1>7 DEF FrameFits

(* The frame the server sends, on the wire of the call.                    *)
LEMMA FrameKeeps ==
  ASSUME CallAssumption, wire \in Wires, log \in Seq(AllFrames), NEW f \in Frames(wire), CanSend(f),
         Going(wire, parse, log)
  PROVE  Reads(wire, parse, log, f, Frame(wire, parse, f))
<1>1. f \in AllFrames /\ FrameFits(wire, f) /\ \A r \in Bodies : BodyFits(r)
  BY DEF CallAssumption, AllFrames
<1>2. CASE wire = "chat"
  <2>1. Frame(wire, parse, f) = ChatFrame(parse, f) /\ Going("chat", parse, log) /\ FrameFits("chat", f)
    BY <1>1, <1>2 DEF Frame
  <2>2. Reads("chat", parse, log, f, ChatFrame(parse, f))
    BY <1>1, <2>1, ChatReads
  <2>. QED
    BY <1>2, <2>1, <2>2
<1>3. CASE wire = "anthropic"
  <2>1. /\ Frame(wire, parse, f) = AnthropicFrame(parse, f) /\ Going("anthropic", parse, log)
        /\ FrameFits("anthropic", f)
    BY <1>1, <1>3 DEF Frame
  <2>2. Reads("anthropic", parse, log, f, AnthropicFrame(parse, f))
    BY <1>1, <2>1, AnthropicReads
  <2>. QED
    BY <1>3, <2>1, <2>2
<1>4. CASE wire = "responses"
  <2>1. /\ Frame(wire, parse, f) = ResponsesFrame(parse, f) /\ Going("responses", parse, log)
        /\ FrameFits("responses", f)
    BY <1>1, <1>4 DEF Frame
  <2>2. f.t \in {"args", "args.done"} => Home(parse, f) = PlaceOf(f.item)
    <3> SUFFICES ASSUME f.t \in {"args", "args.done"} PROVE Home(parse, f) = PlaceOf(f.item)
      OBVIOUS
    <3>1. f.at # PlaceOf(f.item) =>
            \E i \in DOMAIN log : log[i].t = "item" /\ log[i].item = f.item /\ f.item # ""
      BY <1>4 DEF CanSend
    <3>2. ToolsFit(parse) /\ Announced(parse, log)
      BY <2>1 DEF Going
    <3>. QED
      BY <3>1, <3>2, HomeIs
  <2>3. Reads("responses", parse, log, f, ResponsesFrame(parse, f))
    BY <1>1, <2>1, <2>2, ResponsesReads
  <2>. QED
    BY <1>4, <2>1, <2>3
<1>. QED
  BY <1>2, <1>3, <1>4 DEF Wires

(* An answer as the call may return it.                                    *)
AnswerWhole(w, m) ==
    m.kind = "message" => \A i \in DOMAIN m.calls :
        /\ w = "responses" => m.calls[i].id # "" /\ m.calls[i].name # ""
        /\ WholeCall(m.calls[i])

\* A set of numbers with a bound has a greatest.
LEMMA GreatestOf ==
  ASSUME NEW ns \in SUBSET Nat, ns # {}, NEW top \in Nat, \A n \in ns : n <= top
  PROVE  \E n \in ns : \A m \in ns : m <= n
<1> DEFINE rest == {top - n : n \in ns}
<1>1. rest \in SUBSET Nat /\ rest # {}
  <2>1. \A n \in ns : top - n \in Nat
    OBVIOUS
  <2>2. PICK n \in ns : TRUE
    OBVIOUS
  <2>3. top - n \in rest
    OBVIOUS
  <2>. QED
    BY <2>1, <2>3
<1>2. PICK k \in rest : \A m \in rest : k <= m
  <2> HIDE DEF rest
  <2>. QED
    BY <1>1, LeastOf
<1>3. PICK n \in ns : k = top - n
  BY <1>2
<1>4. ASSUME NEW m \in ns PROVE m <= n
  <2>1. top - m \in rest
    OBVIOUS
  <2>2. k <= top - m
    BY <1>2, <2>1
  <2>. QED
    BY <1>3, <2>2
<1>. QED
  BY <1>4

\* The place InOrder reads up to is the greatest one used.
LEMMA HighestIs ==
  ASSUME NEW tools, Bounded(tools) PROVE Max(DOMAIN tools \cup {0}) \in Nat
<1> DEFINE ns == DOMAIN tools \cup {0}
<1>1. PICK top \in Nat : DOMAIN tools \subseteq 0..top
  BY DEF Bounded
<1>2. ns \in SUBSET Nat /\ ns # {} /\ \A n \in ns : n <= top
  BY <1>1
<1> HIDE DEF ns
<1>3. \E n \in ns : \A m \in ns : m <= n
  BY <1>2, GreatestOf
<1>4. \E n \in ns : \A m \in ns : n >= m
  BY <1>2, <1>3
<1>5. Max(ns) \in ns
  BY <1>4 DEF Max
<1>. QED
  BY <1>2, <1>5 DEF ns

(* The calls in the order of their places are the calls of the reply.      *)
LEMMA InOrderIs ==
  ASSUME NEW tools, ToolsWhole(tools)
  PROVE  InOrder(tools) \in Seq({c \in {tools[k] : k \in DOMAIN tools} : WholeCall(c)})
<1> DEFINE vs == {tools[k] : k \in DOMAIN tools}
           good == {c \in vs : WholeCall(c)}
           at == DOMAIN tools
           top == Max(DOMAIN tools \cup {0})
<1>1. top \in Nat
  BY HighestIs DEF ToolsWhole
<1>2. Listed(tools, at, top) \in Seq({tools[k] : k \in at})
  <2> HIDE DEF at, top
  <2>. QED
    BY <1>1, ListedIs
<1>3. good = vs
  BY DEF ToolsWhole
<1>. QED
  BY <1>2, <1>3 DEF InOrder

\* The elements of a sequence are in its set.
LEMMA EachOf == ASSUME NEW C, NEW s \in Seq(C) PROVE \A i \in DOMAIN s : s[i] \in C
  BY ElementOfSeq, LenProperties

(* What the reader comes to when it ends.                                  *)
LEMMA EndIs ==
  ASSUME NEW w \in Wires, NEW p, NEW seen, Sound(p, seen), NEW how
  PROVE  /\ EndOf(w, p, how).kind = "message" => EndOf(w, p, how).content = p.shown /\ Closed(seen)
         /\ AnswerWhole(w, EndOf(w, p, how))
<1> DEFINE m == EndOf(w, p, how)
           ordered == InOrder(p.tools)
           vs == {p.tools[k] : k \in DOMAIN p.tools}
           good == {c \in vs : WholeCall(c)}
<1>1. p.shown = p.content /\ (p.terminal \/ p.stop # "" => Closed(seen)) /\ ToolsWhole(p.tools)
  BY DEF Sound
<1>2. ordered \in Seq(good)
  BY <1>1, InOrderIs
<1>3. \A i \in DOMAIN ordered : WholeCall(ordered[i])
  <2>1. \A i \in DOMAIN ordered : ordered[i] \in good
    <3> HIDE DEF ordered, good
    <3>. QED
      BY <1>2, EachOf
  <2>. QED
    BY <2>1
<1>4. \A i \in DOMAIN Callable(ordered) :
        LET c == Callable(ordered)[i] IN WholeCall(c) /\ c.id # "" /\ c.name # ""
  <2> DEFINE named == {c \in good : WholeCall(c) /\ c.id # "" /\ c.name # ""}
             calls == Callable(ordered)
  <2>1. calls \in Seq(named)
    <3>1. \A c \in good : WholeCall(c)
      OBVIOUS
    <3> HIDE DEF ordered, good
    <3>. QED
      BY <1>2, <3>1, CallableIs
  <2>2. \A i \in DOMAIN calls : calls[i] \in named
    <3> HIDE DEF calls, named
    <3>. QED
      BY <2>1, EachOf
  <2> HIDE DEF calls, good
  <2>3. \A i \in DOMAIN calls : LET c == calls[i] IN WholeCall(c) /\ c.id # "" /\ c.name # ""
    BY <2>2
  <2>. QED
    BY <2>3 DEF calls
<1> HIDE DEF ordered
<1>5. CASE w \in {"chat", "anthropic"}
  <2>1. m.kind = "message" => m.content = p.content /\ (p.terminal \/ p.stop # "") /\ m.calls = ordered
    BY <1>5 DEF EndOf, ChatEnd, AnthropicEnd, Failed, Incomplete, Reply, ordered
  <2> HIDE DEF m
  <2>2. AnswerWhole(w, m)
    BY <1>3, <1>5, <2>1 DEF AnswerWhole
  <2>. QED
    BY <1>1, <2>1, <2>2 DEF m
<1>6. CASE w = "responses"
  <2>1. m.kind = "message" => m.content = p.content /\ p.terminal /\ m.calls = Callable(ordered)
    BY <1>6 DEF EndOf, ResponsesEnd, Failed, Incomplete, Reply, ordered
  <2> HIDE DEF m
  <2>2. AnswerWhole(w, m)
    BY <1>4, <1>6, <2>1 DEF AnswerWhole
  <2>. QED
    BY <1>1, <2>1, <2>2 DEF m
<1>. QED
  BY <1>5, <1>6 DEF Wires

(* What a whole body comes to.                                             *)
LEMMA BodyIs ==
  ASSUME NEW w, NEW r, BodyFits(r) PROVE AnswerWhole(w, JSONReply(w, r))
<1> DEFINE m == JSONReply(w, r)
<1>1. CASE r.failed
  <2>1. m.kind # "message"
    BY <1>1 DEF JSONReply, Failed
  <2>. QED
    BY <2>1 DEF AnswerWhole
<1>2. CASE ~r.failed /\ w = "responses"
  <2>1. m.calls = FromResponse(r).calls
    BY <1>2 DEF JSONReply, Reply
  <2>2. \A i \in DOMAIN FromResponse(r).calls :
          LET c == FromResponse(r).calls[i] IN WholeCall(c) /\ c.id # "" /\ c.name # ""
    BY ResponseIs
  <2> HIDE DEF m
  <2>3. AnswerWhole(w, m)
    BY <2>1, <2>2 DEF AnswerWhole
  <2>. QED
    BY <2>3 DEF m
<1>3. CASE ~r.failed /\ w # "responses"
  <2>1. m.calls = r.calls
    BY <1>3 DEF JSONReply, Reply
  <2> HIDE DEF m
  <2>2. \A i \in DOMAIN r.calls : WholeCall(r.calls[i])
    BY DEF BodyFits, WholeCall
  <2>3. AnswerWhole(w, m)
    BY <1>3, <2>1, <2>2 DEF AnswerWhole
  <2>. QED
    BY <2>3 DEF m
<1>. QED
  BY <1>1, <1>2, <1>3

-----------------------------------------------------------------------------
(* What goes to the model.                                                 *)

(* Where the elements of the first n sequences of B are in F: bl and ps    *)
(* give the sequence of an element and its place in it.                    *)
Laid(F, B, n, bl, ps) ==
    /\ \A k \in DOMAIN F : bl[k] \in 1..n /\ ps[k] \in DOMAIN B[bl[k]] /\ F[k] = B[bl[k]][ps[k]]
    /\ \A i \in 1..n : \A j \in DOMAIN B[i] : \E k \in DOMAIN F : bl[k] = i /\ ps[k] = j
    /\ \A k, l \in DOMAIN F : k < l => bl[k] < bl[l] \/ (bl[k] = bl[l] /\ ps[k] < ps[l])

\* One more sequence laid behind the others.
LEMMA LaidNext ==
  ASSUME NEW S, NEW B, NEW n \in Nat, \A i \in 1..(n + 1) : B[i] \in Seq(S), NEW F \in Seq(S),
         NEW bl, NEW ps, Laid(F, B, n, bl, ps)
  PROVE  \E c, d : Laid(F \o B[n + 1], B, n + 1, c, d)
<1> DEFINE b == B[n + 1]
           G == F \o b
           c == [k \in 1..(Len(F) + Len(b)) |-> IF k <= Len(F) THEN bl[k] ELSE n + 1]
           d == [k \in 1..(Len(F) + Len(b)) |-> IF k <= Len(F) THEN ps[k] ELSE k - Len(F)]
<1>1. b \in Seq(S) /\ Len(F) \in Nat /\ Len(b) \in Nat /\ DOMAIN F = 1..Len(F) /\ DOMAIN b = 1..Len(b)
  BY LenProperties
<1>2. /\ G \in Seq(S) /\ Len(G) = Len(F) + Len(b) /\ DOMAIN G = 1..(Len(F) + Len(b))
      /\ \A k \in 1..(Len(F) + Len(b)) : G[k] = IF k <= Len(F) THEN F[k] ELSE b[k - Len(F)]
  <2> HIDE DEF b, G
  <2>1. F \o b \in Seq(S) /\ Len(F \o b) = Len(F) + Len(b)
        /\ \A k \in 1..(Len(F) + Len(b)) : (F \o b)[k] = IF k <= Len(F) THEN F[k] ELSE b[k - Len(F)]
    BY <1>1, ConcatProperties
  <2>2. DOMAIN (F \o b) = 1..(Len(F) + Len(b))
    BY <2>1, LenProperties
  <2>. QED
    BY <2>1, <2>2 DEF G
<1> HIDE DEF G
<1>3. ASSUME NEW k \in 1..(Len(F) + Len(b))
      PROVE  \/ k \in DOMAIN F /\ c[k] = bl[k] /\ d[k] = ps[k] /\ G[k] = F[k]
             \/ k > Len(F) /\ c[k] = n + 1 /\ d[k] = k - Len(F) /\ d[k] \in DOMAIN b /\ G[k] = b[d[k]]
  BY <1>1, <1>2
<1>4. \A k \in DOMAIN F : bl[k] \in 1..n /\ ps[k] \in DOMAIN B[bl[k]] /\ F[k] = B[bl[k]][ps[k]]
  BY DEF Laid
<1>5. \A k \in DOMAIN F : k \in 1..(Len(F) + Len(b)) /\ c[k] = bl[k] /\ d[k] = ps[k] /\ G[k] = F[k]
  BY <1>1, <1>2
<1> HIDE DEF c, d
<1>6. ASSUME NEW k \in DOMAIN G
      PROVE  c[k] \in 1..(n + 1) /\ d[k] \in DOMAIN B[c[k]] /\ G[k] = B[c[k]][d[k]]
  <2>1. k \in 1..(Len(F) + Len(b))
    BY <1>2
  <2>2. CASE k \in DOMAIN F /\ c[k] = bl[k] /\ d[k] = ps[k] /\ G[k] = F[k]
    <3>1. bl[k] \in 1..(n + 1)
      BY <1>4, <2>2
    <3>. QED
      BY <1>4, <2>2, <3>1
  <2>3. CASE k > Len(F) /\ c[k] = n + 1 /\ d[k] = k - Len(F) /\ d[k] \in DOMAIN b /\ G[k] = b[d[k]]
    BY <2>3
  <2>. QED
    BY <1>3, <2>1, <2>2, <2>3
<1>7. ASSUME NEW i \in 1..(n + 1), NEW j \in DOMAIN B[i]
      PROVE  \E k \in DOMAIN G : c[k] = i /\ d[k] = j
  <2>1. CASE i \in 1..n
    <3>1. PICK k \in DOMAIN F : bl[k] = i /\ ps[k] = j
      BY <2>1 DEF Laid
    <3>. QED
      BY <1>2, <1>5, <3>1
  <2>2. CASE i = n + 1
    <3> DEFINE k == Len(F) + j
    <3>1. j \in 1..Len(b)
      BY <1>1, <2>2
    <3>2. k \in 1..(Len(F) + Len(b)) /\ k \notin DOMAIN F /\ k - Len(F) = j
      BY <1>1, <3>1
    <3> HIDE DEF k
    <3>. QED
      BY <1>2, <1>3, <2>2, <3>2
  <2>. QED
    BY <2>1, <2>2
<1>8. ASSUME NEW k \in DOMAIN G, NEW l \in DOMAIN G, k < l
      PROVE  c[k] < c[l] \/ (c[k] = c[l] /\ d[k] < d[l])
  <2>1. k \in 1..(Len(F) + Len(b)) /\ l \in 1..(Len(F) + Len(b))
    BY <1>2
  <2>2. CASE l \in DOMAIN F
    <3>1. k \in DOMAIN F
      BY <1>1, <1>8, <2>1, <2>2
    <3>2. bl[k] < bl[l] \/ (bl[k] = bl[l] /\ ps[k] < ps[l])
      BY <1>8, <2>2, <3>1 DEF Laid
    <3>. QED
      BY <1>5, <2>2, <3>1, <3>2
  <2>3. CASE l \notin DOMAIN F /\ k \in DOMAIN F
    <3>1. bl[k] \in 1..n /\ c[k] = bl[k] /\ c[l] = n + 1
      BY <1>3, <1>4, <1>5, <2>1, <2>3
    <3>. QED
      BY <3>1
  <2>4. CASE l \notin DOMAIN F /\ k \notin DOMAIN F
    <3>1. c[k] = n + 1 /\ c[l] = n + 1 /\ d[k] = k - Len(F) /\ d[l] = l - Len(F)
      BY <1>3, <2>1, <2>4
    <3>. QED
      BY <1>1, <1>8, <2>1, <3>1
  <2>. QED
    BY <2>2, <2>3, <2>4
<1>9. Laid(G, B, n + 1, c, d)
  BY <1>6, <1>7, <1>8 DEF Laid
<1>. QED
  BY <1>9 DEF G

(* A sequence of sequences laid end to end.                                *)
LEMMA FlattenIs ==
  ASSUME NEW S, NEW B \in Seq(Seq(S))
  PROVE  FlattenSeq(B) \in Seq(S) /\ \E bl, ps : Laid(FlattenSeq(B), B, Len(B), bl, ps)
<1> DEFINE n == Len(B)
           Next1(i, b) == IF i = 1 THEN B[i] ELSE b \o B[i]
           Is(r) == r = [i \in 1..n |-> IF i = 1 THEN B[i] ELSE r[i - 1] \o B[i]]
<1>1. n \in Nat /\ DOMAIN B = 1..n /\ \A i \in 1..n : B[i] \in Seq(S)
  BY LenProperties, ElementOfSeq
<1>2. CASE n = 0
  <2>1. FlattenSeq(B) = B /\ DOMAIN B = {} /\ B = <<>>
    BY <1>1, <1>2, EmptySeq DEF FlattenSeq
  <2>2. FlattenSeq(B) \in Seq(S)
    BY <2>1, EmptySeq
  <2>3. Laid(FlattenSeq(B), B, Len(B), <<>>, <<>>)
    <3>1. \A i : i \notin 1..Len(B)
      BY <1>2
    <3>. QED
      BY <2>1, <3>1 DEF Laid
  <2>. QED
    BY <2>2, <2>3
<1>3. CASE n # 0
  <2>1. \E r : Is(r)
    <3> DEFINE g == [i \in 1..n |-> [b \in Seq(S) |-> Next1(i, b)]]
    <3>1. g \in [1..n -> [Seq(S) -> Seq(S)]] /\ <<>> \in Seq(S)
      <4>1. ASSUME NEW b \in Seq(S), NEW i \in 1..n PROVE Next1(i, b) \in Seq(S)
        <5> HIDE DEF n
        <5>1. B[i] \in Seq(S)
          BY <1>1
        <5>2. b \o B[i] \in Seq(S)
          BY <5>1, ConcatProperties
        <5>. QED
          BY <5>1, <5>2
      <4>2. <<>> \in Seq(S)
        BY EmptySeq
      <4> HIDE DEF n, Next1
      <4>. QED
        BY <4>1, <4>2
    <3> HIDE DEF n
    <3>2. \E r : Takes(r, n, Seq(S), <<>>, g)
      <4> HIDE DEF g
      <4>. QED
        BY <1>1, <3>1, StepsExist
    <3>3. PICK r : /\ r \in [0..n -> Seq(S)] /\ r[0] = <<>>
                   /\ \A i \in 1..n : r[i] = g[i][r[i - 1]]
      <4> HIDE DEF g
      <4>. QED
        BY <3>2 DEF Takes
    <3>4. \A i \in 1..n : r[i] = Next1(i, r[i - 1])
      <4>1. \A i \in 1..n : i - 1 \in 0..n
        BY <1>1
      <4> HIDE DEF Next1
      <4>. QED
        BY <3>3, <4>1
    <3> DEFINE s == [i \in 1..n |-> r[i]]
    <3>5. \A i \in 1..n : s[i] = IF i = 1 THEN B[i] ELSE s[i - 1] \o B[i]
      <4>1. \A i \in 1..n : i = 1 \/ i - 1 \in 1..n
        BY <1>1
      <4> HIDE DEF g
      <4>. QED
        BY <3>4, <4>1
    <3>6. s = [i \in 1..n |-> s[i]]
      OBVIOUS
    <3>7. Is(s)
      <4> HIDE DEF s, g
      <4>. QED
        BY <3>5, <3>6
    <3>. QED
      BY <3>7
  <2> DEFINE q == CHOOSE r : Is(r)
  <2>2. FlattenSeq(B) = q[n]
    BY <1>3 DEF FlattenSeq
  <2>3. Is(q)
    <3> HIDE DEF Is
    <3>. QED
      BY <2>1
  <2> HIDE DEF n, q
  <2>4. \A i \in 1..n : q[i] = IF i = 1 THEN B[i] ELSE q[i - 1] \o B[i]
    BY <2>3
  <2> HIDE DEF Is
  <2> DEFINE Fit(i) == i = 0 \/ (q[i] \in Seq(S) /\ \E bl, ps : Laid(q[i], B, i, bl, ps))
             fits == {i \in 0..n : Fit(i)}
  <2>5. 0 \in fits
    BY <1>1
  <2>6. ASSUME NEW i \in 1..n, i - 1 \in fits PROVE i \in fits
    <3>1. i \in Nat /\ i - 1 \in Nat /\ (i - 1) + 1 = i /\ i \in 0..n /\ B[i] \in Seq(S)
      BY <1>1
    <3> DEFINE F == IF i = 1 THEN <<>> ELSE q[i - 1]
    <3>2. F \in Seq(S) /\ \E bl, ps : Laid(F, B, i - 1, bl, ps)
      <4>1. CASE i = 1
        <5>1. F = <<>> /\ F \in Seq(S) /\ DOMAIN F = {}
          BY <4>1, EmptySeq
        <5>2. \A j : j \notin 1..(i - 1)
          BY <4>1
        <5>3. Laid(F, B, i - 1, <<>>, <<>>)
          <6> HIDE DEF F
          <6>. QED
            BY <5>1, <5>2 DEF Laid
        <5>. QED
          BY <5>1, <5>3
      <4>2. CASE i # 1
        <5>1. Fit(i - 1) /\ i - 1 # 0
          BY <2>6, <3>1, <4>2
        <5>. QED
          BY <4>2, <5>1
      <4>. QED
        BY <4>1, <4>2
    <3>3. q[i] = F \o B[i]
      <4>1. CASE i = 1
        <5>1. <<>> \o B[i] = B[i]
          BY <3>1, ConcatEmptySeq
        <5>. QED
          BY <2>4, <4>1, <5>1
      <4>2. CASE i # 1
        BY <2>4, <4>2
      <4>. QED
        BY <4>1, <4>2
    <3> HIDE DEF F
    <3>4. F \o B[i] \in Seq(S)
      BY <3>1, <3>2, ConcatProperties
    <3>5. \E bl, ps : Laid(F \o B[i], B, i, bl, ps)
      <4>1. PICK bl, ps : Laid(F, B, i - 1, bl, ps)
        BY <3>2
      <4> DEFINE m == i - 1
      <4>2. m \in Nat /\ m + 1 = i /\ F \in Seq(S) /\ Laid(F, B, m, bl, ps)
            /\ \A j \in 1..(m + 1) : B[j] \in Seq(S)
        BY <1>1, <3>1, <3>2, <4>1
      <4> HIDE DEF m
      <4>3. \E c, d : Laid(F \o B[m + 1], B, m + 1, c, d)
        BY <4>2, LaidNext
      <4>. QED
        BY <4>2, <4>3
    <3>6. Fit(i)
      BY <3>3, <3>4, <3>5
    <3> HIDE DEF Fit
    <3>. QED
      BY <3>1, <3>6
  <2>7. n \in fits
    <3> HIDE DEF fits
    <3>1. \A i \in 0..n : i \in fits
      BY <1>1, <2>5, <2>6, Climb
    <3>. QED
      BY <1>1, <3>1
  <2>. QED
    BY <1>3, <2>2, <2>7 DEF n
<1>. QED
  BY <1>2, <1>3

IsSeq(s) == s \in Seq({s[j] : j \in DOMAIN s})

\* The domain of a sequence.
LEMMA IsSeqIs ==
  ASSUME NEW s, IsSeq(s) PROVE Len(s) \in Nat /\ DOMAIN s = 1..Len(s)
<1> DEFINE vs == {s[j] : j \in DOMAIN s}
<1>1. s \in Seq(vs)
  BY DEF IsSeq
<1> HIDE DEF vs
<1>. QED
  BY <1>1, LenProperties

\* The empty sequence has no elements.
LEMMA NoneIs == IsSeq(<<>>) /\ \A k : k \notin DOMAIN <<>>
<1>1. DOMAIN <<>> = {} /\ <<>> \in Seq({})
  BY EmptySeq
<1>2. {<<>>[j] : j \in DOMAIN <<>>} = {}
  BY <1>1
<1>. QED
  BY <1>1, <1>2 DEF IsSeq

\* A sequence of one element.
LEMMA OneIs == ASSUME NEW x PROVE IsSeq(<<x>>) /\ DOMAIN <<x>> = {1} /\ <<x>>[1] = x
<1>1. <<x>> \in Seq({x}) /\ DOMAIN <<x>> = {1} /\ <<x>>[1] = x
  OBVIOUS
<1>2. {<<x>>[j] : j \in DOMAIN <<x>>} = {x}
  BY <1>1
<1>. QED
  BY <1>1, <1>2 DEF IsSeq

(* The elements of two sequences, one after the other.                     *)
Joined(s, a, b) ==
    /\ IsSeq(s)
    /\ \A k \in DOMAIN s :
         \/ k \in DOMAIN a /\ s[k] = a[k]
         \/ k > Len(a) /\ k - Len(a) \in DOMAIN b /\ s[k] = b[k - Len(a)]
    /\ \A k \in DOMAIN a : k \in DOMAIN s /\ s[k] = a[k] /\ k <= Len(a)
    /\ \A k \in DOMAIN b : Len(a) + k \in DOMAIN s /\ s[Len(a) + k] = b[k]

\* Two sequences joined.
LEMMA JoinIs == ASSUME NEW a, NEW b, IsSeq(a), IsSeq(b) PROVE Joined(a \o b, a, b)
<1> DEFINE S == {a[j] : j \in DOMAIN a} \cup {b[j] : j \in DOMAIN b}
           s == a \o b
<1>1. a \in Seq(S) /\ b \in Seq(S)
  <2>1. a \in Seq({a[j] : j \in DOMAIN a}) /\ b \in Seq({b[j] : j \in DOMAIN b})
    BY DEF IsSeq
  <2> DEFINE A1 == {a[j] : j \in DOMAIN a}
             B1 == {b[j] : j \in DOMAIN b}
  <2>2. A1 \subseteq S /\ B1 \subseteq S /\ a \in Seq(A1) /\ b \in Seq(B1)
    BY <2>1
  <2> HIDE DEF A1, B1, S
  <2>. QED
    BY <2>2, SeqWider
<1> HIDE DEF S
<1>2. /\ Len(a) \in Nat /\ Len(b) \in Nat /\ DOMAIN a = 1..Len(a) /\ DOMAIN b = 1..Len(b)
  BY <1>1, LenProperties
<1>3. /\ s \in Seq(S) /\ Len(s) = Len(a) + Len(b) /\ DOMAIN s = 1..(Len(a) + Len(b))
      /\ \A k \in 1..(Len(a) + Len(b)) : s[k] = IF k <= Len(a) THEN a[k] ELSE b[k - Len(a)]
  <2>1. a \o b \in Seq(S) /\ Len(a \o b) = Len(a) + Len(b)
        /\ \A k \in 1..(Len(a) + Len(b)) : (a \o b)[k] = IF k <= Len(a) THEN a[k] ELSE b[k - Len(a)]
    BY <1>1, ConcatProperties
  <2>2. DOMAIN (a \o b) = 1..(Len(a) + Len(b))
    BY <2>1, LenProperties
  <2>. QED
    BY <2>1, <2>2
<1> HIDE DEF s
<1>4. IsSeq(s)
  <2>1. s \in Seq({s[i] : i \in DOMAIN s})
    BY <1>3, OwnSeq
  <2>. QED
    BY <2>1 DEF IsSeq
<1>5. \A k \in DOMAIN s : \/ k \in DOMAIN a /\ s[k] = a[k]
                          \/ k > Len(a) /\ k - Len(a) \in DOMAIN b /\ s[k] = b[k - Len(a)]
  BY <1>2, <1>3
<1>6. \A k \in DOMAIN a : k \in DOMAIN s /\ s[k] = a[k] /\ k <= Len(a)
  BY <1>2, <1>3
<1>7. ASSUME NEW k \in DOMAIN b PROVE Len(a) + k \in DOMAIN s /\ s[Len(a) + k] = b[k]
  <2>1. k \in 1..Len(b)
    BY <1>2
  <2>2. /\ Len(a) + k \in 1..(Len(a) + Len(b)) /\ ~(Len(a) + k <= Len(a)) /\ (Len(a) + k) - Len(a) = k
    BY <1>2, <2>1
  <2>. QED
    BY <1>3, <2>2
<1>. QED
  BY <1>4, <1>5, <1>6, <1>7 DEF s, Joined

(* A message as a history has it.                                          *)
Said(m) ==
    /\ m.role \in {"system", "user", "assistant", "tool"} /\ m.text \in BOOLEAN
    /\ m.reasoning \in Seq(STRING)
    /\ m.calls \in Seq([id : STRING, name : STRING, item : STRING])
    /\ m.calls # <<>> => m.role = "assistant"
    /\ m.role # "tool" => m.answers = ""
    /\ m.role = "tool" => m.answers # ""

(* The items b that message m, the i-th, becomes on wire w.                *)
ItemsFit(w, mod, i, m, b) ==
    /\ IsSeq(b)
    /\ \A j \in DOMAIN b : b[j].of = i
    /\ \A j \in DOMAIN b : b[j].kind = "output" =>
         m.role = "tool" /\ b[j].id = m.answers /\ \A l \in DOMAIN b : l = j
    /\ \A c \in DOMAIN m.calls : m.calls[c].id # "" =>
         \E j \in DOMAIN b : b[j].kind = "call" /\ b[j].id = m.calls[c].id
    /\ \A j \in DOMAIN b : b[j].kind = "reasoning" => b[j].id = mod
    /\ \A j \in DOMAIN b : b[j].item # "" => \E l \in DOMAIN b : l < j /\ b[l].kind = "reasoning"
    /\ m.text \/ m.calls # <<>> \/ m.answers # "" =>
         (\E j : j \in DOMAIN b) \/ (w # "chat" /\ m.role = "system")

\* A system message has no items where the instructions carry it.
LEMMA SilentFit ==
  ASSUME NEW w, w # "chat", NEW mod, NEW i, NEW m, Said(m), m.role = "system"
  PROVE  ItemsFit(w, mod, i, m, <<>>)
<1>1. m.calls = <<>>
  BY DEF Said
<1>. QED
  BY <1>1, NoneIs DEF ItemsFit

\* A message that becomes one item.
LEMMA OneFits ==
  ASSUME NEW w, NEW mod, NEW i, NEW m, Said(m), m.calls = <<>>, NEW x, x.of = i, x.item = "",
         x.kind # "reasoning", x.kind = "output" => m.role = "tool" /\ x.id = m.answers
  PROVE  ItemsFit(w, mod, i, m, <<x>>)
<1> DEFINE b == <<x>>
<1>1. IsSeq(b) /\ DOMAIN b = {1} /\ b[1] = x
  BY OneIs
<1>2. \A k : k \notin DOMAIN m.calls
  BY NoneIs
<1> HIDE DEF b
<1>3. ItemsFit(w, mod, i, m, b)
  BY <1>1, <1>2 DEF ItemsFit
<1>. QED
  BY <1>3 DEF b

(* The parts of a turn of the model: reasoning, text and calls.            *)
Thoughts(r, mod, i) ==
    /\ IsSeq(r)
    /\ \A j \in DOMAIN r : r[j].kind = "reasoning" /\ r[j].of = i /\ r[j].id = mod /\ r[j].item = ""

Words(t, m, i) ==
    /\ IsSeq(t) /\ (m.text => \E j : j \in DOMAIN t)
    /\ \A j \in DOMAIN t : t[j].kind = "assistant" /\ t[j].of = i /\ t[j].item = ""

Asked(c, r, m, i) ==
    /\ IsSeq(c) /\ DOMAIN c = DOMAIN m.calls
    /\ \A j \in DOMAIN c : /\ c[j].kind = "call" /\ c[j].of = i
                           /\ m.calls[j].id # "" => c[j].id = m.calls[j].id
                           /\ c[j].item # "" => \E l : l \in DOMAIN r

\* A message with calls has a first one.
LEMMA SomeCall == ASSUME NEW m, Said(m), m.calls # <<>> PROVE \E j : j \in DOMAIN m.calls
<1> DEFINE S == [id : STRING, name : STRING, item : STRING]
           calls == m.calls
<1>1. calls \in Seq(S) /\ calls # <<>>
  BY DEF Said
<1> HIDE DEF S, calls
<1>2. Len(calls) # 0 /\ Len(calls) \in Nat /\ DOMAIN calls = 1..Len(calls)
  BY <1>1, LenProperties, EmptySeq
<1>3. 1 \in 1..Len(calls)
  BY <1>2
<1>4. \E j : j \in DOMAIN calls
  BY <1>2, <1>3
<1>. QED
  BY <1>4 DEF calls

\* A reply becomes its reasoning, its text and its calls, in that order.
LEMMA TurnFits ==
  ASSUME NEW w, NEW mod, NEW i, NEW m, Said(m), m.role = "assistant",
         NEW r, Thoughts(r, mod, i), NEW t, Words(t, m, i), NEW c, Asked(c, r, m, i)
  PROVE  ItemsFit(w, mod, i, m, (r \o t) \o c)
<1> DEFINE s == r \o t
           b == s \o c
<1>0. IsSeq(r) /\ IsSeq(t) /\ IsSeq(c)
  BY DEF Thoughts, Words, Asked
<1>1. Joined(s, r, t)
  BY <1>0, JoinIs
<1> HIDE DEF s
<1>2. Joined(b, s, c)
  <2>1. IsSeq(s)
    BY <1>1 DEF Joined
  <2>. QED
    BY <1>0, <2>1, JoinIs
<1> HIDE DEF b
<1>3. ASSUME NEW k \in DOMAIN b
      PROVE  \/ k \in DOMAIN r /\ b[k] = r[k]
             \/ k - Len(r) \in DOMAIN t /\ b[k] = t[k - Len(r)]
             \/ k > Len(s) /\ k - Len(s) \in DOMAIN c /\ b[k] = c[k - Len(s)]
  BY <1>1, <1>2 DEF Joined
<1>4. ASSUME NEW k \in DOMAIN b
      PROVE  /\ b[k].of = i /\ b[k].kind \in {"reasoning", "assistant", "call"}
             /\ b[k].kind = "reasoning" => b[k].id = mod
             /\ b[k].item # "" => k > Len(s) /\ \E l : l \in DOMAIN r
  <2>1. CASE k \in DOMAIN r /\ b[k] = r[k]
    BY <2>1 DEF Thoughts
  <2>2. CASE k - Len(r) \in DOMAIN t /\ b[k] = t[k - Len(r)]
    BY <2>2 DEF Words
  <2>3. CASE k > Len(s) /\ k - Len(s) \in DOMAIN c /\ b[k] = c[k - Len(s)]
    BY <2>3 DEF Asked
  <2>. QED
    BY <1>3, <2>1, <2>2, <2>3
<1>5. ASSUME NEW k \in DOMAIN b, b[k].item # "" PROVE \E l \in DOMAIN b : l < k /\ b[l].kind = "reasoning"
  <2>1. PICK l : l \in DOMAIN r
    BY <1>4, <1>5
  <2>2. l \in DOMAIN b /\ b[l] = r[l] /\ l <= Len(s)
    BY <1>1, <1>2, <2>1 DEF Joined
  <2>3. k > Len(s)
    BY <1>4, <1>5
  <2>4. k \in Int /\ l \in Int /\ Len(s) \in Int
    <3>1. IsSeq(b) /\ IsSeq(s)
      BY <1>1, <1>2 DEF Joined
    <3>2. DOMAIN b = 1..Len(b) /\ Len(b) \in Nat /\ Len(s) \in Nat
      BY <3>1, IsSeqIs
    <3>3. k \in 1..Len(b) /\ l \in 1..Len(b)
      BY <2>2, <3>2
    <3>. QED
      BY <3>2, <3>3
  <2>5. l < k
    BY <2>2, <2>3, <2>4
  <2>. QED
    BY <2>1, <2>2, <2>5 DEF Thoughts
<1>10. ASSUME NEW k \in DOMAIN m.calls PROVE k \in DOMAIN c /\ Len(s) + k \in DOMAIN b /\ b[Len(s) + k] = c[k]
  <2>1. k \in DOMAIN c
    BY DEF Asked
  <2>. QED
    BY <1>2, <2>1 DEF Joined
<1>6. ASSUME NEW k \in DOMAIN m.calls, m.calls[k].id # ""
      PROVE  \E j \in DOMAIN b : b[j].kind = "call" /\ b[j].id = m.calls[k].id
  <2>1. k \in DOMAIN c /\ Len(s) + k \in DOMAIN b /\ b[Len(s) + k] = c[k]
    BY <1>10
  <2>. QED
    BY <1>6, <2>1 DEF Asked
<1>7. m.text \/ m.calls # <<>> \/ m.answers # "" => \E j : j \in DOMAIN b
  <2>1. CASE m.text
    <3>1. PICK j : j \in DOMAIN t
      BY <2>1 DEF Words
    <3>2. Len(r) + j \in DOMAIN s
      BY <1>1, <3>1 DEF Joined
    <3>3. Len(r) + j \in DOMAIN b
      BY <1>2, <3>2 DEF Joined
    <3>. QED
      BY <3>3
  <2>2. CASE m.calls # <<>>
    <3>1. PICK k : k \in DOMAIN m.calls
      BY <2>2, SomeCall
    <3>. QED
      BY <1>10, <3>1
  <2>3. m.answers = ""
    BY DEF Said
  <2>. QED
    BY <2>1, <2>2, <2>3
<1>8. IsSeq(b)
  BY <1>2 DEF Joined
<1>9. ItemsFit(w, mod, i, m, b)
  BY <1>4, <1>5, <1>6, <1>7, <1>8 DEF ItemsFit
<1>. QED
  BY <1>9 DEF b, s

\* No reasoning goes with anything.
LEMMA NoThoughts == ASSUME NEW mod, NEW i PROVE Thoughts(<<>>, mod, i)
  BY NoneIs DEF Thoughts

\* The text of a reply is one item or none.
LEMMA WordsIs ==
  ASSUME NEW m, NEW i, NEW q, m.text => q
  PROVE  Words(IF q THEN <<Item("assistant", i, "", "")>> ELSE <<>>, m, i)
<1> DEFINE x == Item("assistant", i, "", "")
           t == IF q THEN <<x>> ELSE <<>>
<1>1. x.kind = "assistant" /\ x.of = i /\ x.item = ""
  BY DEF Item
<1> HIDE DEF x
<1>2. CASE q
  <2>1. t = <<x>>
    BY <1>2
  <2>2. IsSeq(t) /\ DOMAIN t = {1} /\ t[1] = x
    BY <2>1, OneIs
  <2> HIDE DEF t
  <2>3. Words(t, m, i)
    BY <1>1, <2>2 DEF Words
  <2>. QED
    BY <2>3 DEF t, x
<1>3. CASE ~q
  <2>1. t = <<>> /\ ~m.text
    BY <1>3
  <2> HIDE DEF t
  <2>2. Words(t, m, i)
    BY <2>1, NoneIs DEF Words
  <2>. QED
    BY <2>2 DEF t, x
<1>. QED
  BY <1>2, <1>3

\* A function on the first numbers is a sequence.
LEMMA NumberedSeq == ASSUME NEW n \in Nat, NEW V, NEW s \in [1..n -> V] PROVE s \in Seq(V)
  OBVIOUS

\* The calls of a reply, each with an id and, next to reasoning, an item id.
LEMMA AskedIs ==
  ASSUME NEW m, Said(m), NEW r, NEW i, NEW c, c = [j \in DOMAIN m.calls |-> c[j]],
         \A j \in DOMAIN m.calls : /\ c[j].kind = "call" /\ c[j].of = i
                                   /\ m.calls[j].id # "" => c[j].id = m.calls[j].id
                                   /\ c[j].item # "" => \E l : l \in DOMAIN r
  PROVE  Asked(c, r, m, i)
<1> DEFINE S == [id : STRING, name : STRING, item : STRING]
           calls == m.calls
           n == Len(calls)
           vs == {c[j] : j \in DOMAIN c}
<1>1. calls \in Seq(S)
  BY DEF Said
<1>2. n \in Nat /\ DOMAIN calls = 1..n
  <2> HIDE DEF S, calls
  <2>. QED
    BY <1>1, LenProperties
<1>3. c = [j \in 1..n |-> c[j]] /\ DOMAIN c = 1..n
  BY <1>2
<1>4. c \in [1..n -> vs]
  BY <1>3
<1> HIDE DEF n, vs
<1>5. c \in Seq(vs)
  BY <1>2, <1>4, NumberedSeq
<1>6. IsSeq(c) /\ DOMAIN c = DOMAIN m.calls
  BY <1>2, <1>3, <1>5 DEF IsSeq, vs
<1>. QED
  BY <1>6 DEF Asked

(* A reply without text: its calls only, and on the first two wires an     *)
(* empty text if there are none.                                           *)
LEMMA ReplyFits ==
  ASSUME NEW w, NEW mod, NEW i, NEW m, Said(m), m.role = "assistant", NEW q, m.text => q
  PROVE  ItemsFit(w, mod, i, m, (IF q THEN <<Item("assistant", i, "", "")>> ELSE <<>>)
                                  \o [j \in DOMAIN m.calls |-> Item("call", i, m.calls[j].id, "")])
<1> DEFINE t == IF q THEN <<Item("assistant", i, "", "")>> ELSE <<>>
           c == [j \in DOMAIN m.calls |-> Item("call", i, m.calls[j].id, "")]
<1>1. Words(t, m, i)
  BY WordsIs
<1>2. Asked(c, <<>>, m, i)
  <2>1. /\ c = [j \in DOMAIN m.calls |-> c[j]]
        /\ \A j \in DOMAIN m.calls : /\ c[j].kind = "call" /\ c[j].of = i /\ c[j].id = m.calls[j].id
                                     /\ c[j].item = ""
    BY DEF Item
  <2> HIDE DEF c
  <2>. QED
    BY <2>1, AskedIs
<1>3. <<>> \o t = t
  <2>1. IsSeq(t)
    BY <1>1 DEF Words
  <2> HIDE DEF t
  <2> DEFINE vs == {t[j] : j \in DOMAIN t}
  <2>2. t \in Seq(vs)
    BY <2>1 DEF IsSeq
  <2> HIDE DEF vs
  <2>. QED
    BY <2>2, ConcatEmptySeq
<1> HIDE DEF t, c
<1>4. ItemsFit(w, mod, i, m, (<<>> \o t) \o c)
  BY <1>1, <1>2, NoThoughts, TurnFits
<1>5. ItemsFit(w, mod, i, m, t \o c)
  BY <1>3, <1>4
<1>. QED
  BY <1>5 DEF t, c

\* Only the assistant calls.
LEMMA NoCalls == ASSUME NEW m, Said(m), m.role # "assistant" PROVE m.calls = <<>>
  BY DEF Said

(* toOpenAIMessages.                                                       *)
LEMMA ChatFits ==
  ASSUME NEW mod, NEW i, NEW m, Said(m) PROVE ItemsFit("chat", mod, i, m, ChatItems(i, m))
<1> DEFINE b == ChatItems(i, m)
<1>1. CASE m.role = "tool"
  <2> DEFINE x == Item("output", i, m.answers, "")
  <2>1. b = <<x>>
    BY <1>1 DEF ChatItems
  <2>2. x.of = i /\ x.item = "" /\ x.kind = "output" /\ x.id = m.answers
    BY DEF Item
  <2>3. m.calls = <<>>
    BY <1>1, NoCalls
  <2> HIDE DEF x
  <2>4. ItemsFit("chat", mod, i, m, <<x>>)
    BY <1>1, <2>2, <2>3, OneFits
  <2>. QED
    BY <2>1, <2>4
<1>2. CASE m.role = "assistant" /\ m.calls # <<>>
  <2>1. b = (IF m.text THEN <<Item("assistant", i, "", "")>> ELSE <<>>)
              \o [j \in DOMAIN m.calls |-> Item("call", i, m.calls[j].id, "")]
    BY <1>2 DEF ChatItems
  <2>2. ItemsFit("chat", mod, i, m, (IF m.text THEN <<Item("assistant", i, "", "")>> ELSE <<>>)
              \o [j \in DOMAIN m.calls |-> Item("call", i, m.calls[j].id, "")])
    BY <1>2, ReplyFits
  <2>. QED
    BY <2>1, <2>2
<1>3. CASE m.role # "tool" /\ ~(m.role = "assistant" /\ m.calls # <<>>)
  <2> DEFINE x == Item(m.role, i, "", "")
  <2>1. b = <<x>>
    BY <1>3 DEF ChatItems
  <2>2. x.of = i /\ x.item = "" /\ x.kind # "output" /\ x.kind # "reasoning"
    BY <1>3 DEF Item, Said
  <2>3. m.calls = <<>>
    BY <1>3, NoCalls
  <2> HIDE DEF x
  <2>4. ItemsFit("chat", mod, i, m, <<x>>)
    BY <2>2, <2>3, OneFits
  <2>. QED
    BY <2>1, <2>4
<1>. QED
  BY <1>1, <1>2, <1>3

(* toAnthropicMessages.                                                    *)
LEMMA AnthropicFits ==
  ASSUME NEW mod, NEW i, NEW m, Said(m) PROVE ItemsFit("anthropic", mod, i, m, AnthropicItems(i, m))
<1> DEFINE b == AnthropicItems(i, m)
<1>1. CASE m.role = "system"
  <2>1. b = <<>>
    BY <1>1 DEF AnthropicItems
  <2>2. ItemsFit("anthropic", mod, i, m, <<>>)
    BY <1>1, SilentFit
  <2>. QED
    BY <2>1, <2>2
<1>2. CASE m.role \in {"user", "tool"}
  <2> DEFINE x == IF m.role = "user" THEN Item("user", i, "", "") ELSE Item("output", i, m.answers, "")
  <2>1. b = <<x>>
    BY <1>2 DEF AnthropicItems
  <2>2. /\ x.of = i /\ x.item = "" /\ x.kind # "reasoning"
        /\ x.kind = "output" => m.role = "tool" /\ x.id = m.answers
    BY <1>2 DEF Item
  <2>3. m.calls = <<>>
    BY <1>2, NoCalls
  <2> HIDE DEF x
  <2>4. ItemsFit("anthropic", mod, i, m, <<x>>)
    BY <2>2, <2>3, OneFits
  <2>. QED
    BY <2>1, <2>4
<1>3. CASE m.role = "assistant"
  <2>1. b = (IF m.text \/ m.calls = <<>> THEN <<Item("assistant", i, "", "")>> ELSE <<>>)
              \o [j \in DOMAIN m.calls |-> Item("call", i, m.calls[j].id, "")]
    BY <1>3 DEF AnthropicItems
  <2>2. ItemsFit("anthropic", mod, i, m,
                 (IF m.text \/ m.calls = <<>> THEN <<Item("assistant", i, "", "")>> ELSE <<>>)
                    \o [j \in DOMAIN m.calls |-> Item("call", i, m.calls[j].id, "")])
    BY <1>3, ReplyFits
  <2>. QED
    BY <2>1, <2>2
<1>. QED
  BY <1>1, <1>2, <1>3 DEF Said

(* The reasoning of a message that came from a model.                      *)
LEMMA ThoughtsAre ==
  ASSUME NEW mod, NEW i, NEW m, Said(m), NEW own, own = ReasoningOf(mod, m)
  PROVE  /\ Thoughts([j \in DOMAIN own |-> Item("reasoning", i, own[j], "")], mod, i)
         /\ own # <<>> => \E l : l \in DOMAIN [j \in DOMAIN own |-> Item("reasoning", i, own[j], "")]
<1> DEFINE s == m.reasoning
           at == {k \in DOMAIN s : s[k] = mod}
           vs == {s[k] : k \in at}
           n == Len(own)
           r == [j \in DOMAIN own |-> Item("reasoning", i, own[j], "")]
           rs == {r[j] : j \in DOMAIN r}
<1>1. Len(s) \in Nat
  <2>1. s \in Seq(STRING)
    BY DEF Said
  <2> HIDE DEF s
  <2>. QED
    BY <2>1, LenProperties
<1>2. own = Listed(s, at, Len(s))
  BY DEF ReasoningOf, Picked
<1>3. Listed(s, at, Len(s)) \in Seq({s[k] : k \in at})
  <2> HIDE DEF at, s
  <2>. QED
    BY <1>1, ListedIs
<1>4. own \in Seq(vs) /\ \A x \in vs : x = mod
  BY <1>2, <1>3
<1> HIDE DEF vs
<1>5. n \in Nat /\ DOMAIN own = 1..n /\ \A j \in DOMAIN own : own[j] = mod
  BY <1>4, LenProperties, ElementOfSeq
<1>6. own # <<>> => 1 \in DOMAIN own
  <2>1. own # <<>> => n # 0
    BY <1>4, EmptySeq
  <2>. QED
    BY <1>5, <2>1
<1> HIDE DEF n
<1>7. /\ DOMAIN r = 1..n /\ r \in [1..n -> rs]
      /\ \A j \in DOMAIN r : r[j].kind = "reasoning" /\ r[j].of = i /\ r[j].id = mod /\ r[j].item = ""
  BY <1>5 DEF Item
<1>8. DOMAIN r = DOMAIN own
  BY <1>5, <1>7
<1> HIDE DEF rs, r
<1>9. r \in Seq(rs)
  BY <1>5, <1>7, NumberedSeq
<1>10. IsSeq(r)
  BY <1>9 DEF IsSeq, rs
<1>11. Thoughts(r, mod, i)
  BY <1>7, <1>10 DEF Thoughts
<1>12. own # <<>> => \E l : l \in DOMAIN r
  BY <1>6, <1>8
<1>. QED
  BY <1>11, <1>12 DEF r

(* toResponsesInput.                                                       *)
LEMMA ResponsesFits ==
  ASSUME NEW mod, NEW i, NEW m, Said(m) PROVE ItemsFit("responses", mod, i, m, ResponsesItems(mod, i, m))
<1> DEFINE b == ResponsesItems(mod, i, m)
<1>1. CASE m.role = "system"
  <2>1. b = <<>>
    BY <1>1 DEF ResponsesItems
  <2>2. ItemsFit("responses", mod, i, m, <<>>)
    BY <1>1, SilentFit
  <2>. QED
    BY <2>1, <2>2
<1>2. CASE m.role \in {"user", "tool"}
  <2> DEFINE x == IF m.role = "user" THEN Item("user", i, "", "")
                  ELSE Item("output", i, Default(m.answers, "call_unknown"), "")
  <2>1. b = <<x>>
    BY <1>2 DEF ResponsesItems
  <2>2. /\ x.of = i /\ x.item = "" /\ x.kind # "reasoning"
        /\ x.kind = "output" => m.role = "tool" /\ x.id = m.answers
    BY <1>2 DEF Item, Default, Said
  <2>3. m.calls = <<>>
    BY <1>2, NoCalls
  <2> HIDE DEF x
  <2>4. ItemsFit("responses", mod, i, m, <<x>>)
    BY <2>2, <2>3, OneFits
  <2>. QED
    BY <2>1, <2>4
<1>3. CASE m.role = "assistant"
  <2> DEFINE own == ReasoningOf(mod, m)
             r == [j \in DOMAIN own |-> Item("reasoning", i, own[j], "")]
             t == IF m.text THEN <<Item("assistant", i, "", "")>> ELSE <<>>
             c == [j \in DOMAIN m.calls |->
                     Item("call", i, Default(m.calls[j].id, "call_" \o m.calls[j].name),
                          IF m.calls[j].item # "" /\ own # <<>> THEN m.calls[j].item ELSE "")]
  <2>1. b = (r \o t) \o c
    BY <1>3 DEF ResponsesItems
  <2>2. Thoughts(r, mod, i) /\ (own # <<>> => \E l : l \in DOMAIN r)
    BY ThoughtsAre
  <2>3. Words(t, m, i)
    BY WordsIs
  <2>4. Asked(c, r, m, i)
    <3>2. ASSUME NEW j \in DOMAIN m.calls
          PROVE  /\ c[j].kind = "call" /\ c[j].of = i
                 /\ m.calls[j].id # "" => c[j].id = m.calls[j].id
                 /\ c[j].item # "" => own # <<>>
      <4> HIDE DEF own, r, t
      <4>. QED
        BY DEF Item, Default
    <3>3. c = [j \in DOMAIN m.calls |-> c[j]]
      OBVIOUS
    <3> HIDE DEF c, r, own
    <3>4. \A j \in DOMAIN m.calls : /\ c[j].kind = "call" /\ c[j].of = i
                                    /\ m.calls[j].id # "" => c[j].id = m.calls[j].id
                                    /\ c[j].item # "" => \E l : l \in DOMAIN r
      BY <2>2, <3>2
    <3>. QED
      BY <3>3, <3>4, AskedIs
  <2> HIDE DEF r, t, c
  <2>5. ItemsFit("responses", mod, i, m, (r \o t) \o c)
    BY <1>3, <2>2, <2>3, <2>4, TurnFits
  <2>. QED
    BY <2>1, <2>5
<1>. QED
  BY <1>1, <1>2, <1>3 DEF Said

\* Each message of a coherent history is well formed.
LEMMA CoherentSaid == ASSUME NEW msgs, Coherent(msgs) PROVE \A i \in DOMAIN msgs : Said(msgs[i])
  BY DEF Coherent, Said

(* Each message has its items, or its part in the instructions.            *)
Sent(w, msgs, items) ==
    /\ \A i \in DOMAIN msgs :
         msgs[i].text \/ msgs[i].calls # <<>> \/ msgs[i].answers # "" =>
           (\E k \in DOMAIN items : items[k].of = i) \/ (w # "chat" /\ msgs[i].role = "system")
    /\ \A j, k \in DOMAIN items : j < k => items[j].of <= items[k].of

(* What each of the items of a message is.                                 *)
LEMMA ItemIs ==
  ASSUME NEW w, NEW mod, NEW i, NEW m, NEW b, ItemsFit(w, mod, i, m, b), NEW j \in DOMAIN b
  PROVE  /\ b[j].of = i
         /\ b[j].kind = "output" => m.role = "tool" /\ b[j].id = m.answers /\ \A l \in DOMAIN b : l = j
         /\ b[j].kind = "reasoning" => b[j].id = mod
  BY DEF ItemsFit

(* An item id goes with reasoning before it.                               *)
Earlier(l, j) == l < j

\* The reasoning an item id goes with is of the same message.
LEMMA ItemGoesWith ==
  ASSUME NEW w, NEW mod, NEW i, NEW m, NEW b, ItemsFit(w, mod, i, m, b), NEW j \in DOMAIN b, b[j].item # ""
  PROVE  \E l \in DOMAIN b : Earlier(l, j) /\ b[l].kind = "reasoning"
  BY DEF ItemsFit, Earlier

CallAmong(b, id) == \E j \in DOMAIN b : b[j].kind = "call" /\ b[j].id = id

(* Every call of a message with an id is an item.                          *)
LEMMA CallIsItem ==
  ASSUME NEW w, NEW mod, NEW i, NEW m, NEW b, ItemsFit(w, mod, i, m, b), NEW c \in DOMAIN m.calls,
         m.calls[c].id # ""
  PROVE  CallAmong(b, m.calls[c].id)
  BY DEF ItemsFit, CallAmong

\* The items of a message are a sequence.
LEMMA ItemsSeq ==
  ASSUME NEW w, NEW mod, NEW i, NEW m, NEW b, ItemsFit(w, mod, i, m, b)
  PROVE  IsSeq(b)
  BY DEF ItemsFit

(* Every message of a history becomes its items.                           *)
AllFit(w, mod, n, msgs, B) == \A i \in 1..n : ItemsFit(w, mod, i, msgs[i], B[i])

\* The items of one of the messages.
LEMMA OneOfAll ==
  ASSUME NEW w, NEW mod, NEW n, NEW msgs, NEW B, AllFit(w, mod, n, msgs, B), NEW i \in 1..n
  PROVE  ItemsFit(w, mod, i, msgs[i], B[i])
  BY DEF AllFit

(* Items in the order of the messages they stand for.                      *)
LEMMA InTurn ==
  ASSUME NEW w, NEW mod, NEW n \in Nat, NEW msgs, DOMAIN msgs = 1..n, Coherent(msgs), NEW B, DOMAIN B = 1..n,
         AllFit(w, mod, n, msgs, B), NEW items, NEW len \in Nat, DOMAIN items = 1..len,
         NEW bl, NEW ps, Laid(items, B, n, bl, ps)
  PROVE  Paired(items) /\ ReasoningPaired(mod, items) /\ Sent(w, msgs, items)
<1>1. ASSUME NEW k \in DOMAIN items
      PROVE  /\ bl[k] \in 1..n /\ ps[k] \in DOMAIN B[bl[k]] /\ items[k] = B[bl[k]][ps[k]] /\ items[k].of = bl[k]
             /\ k \in Nat
  <2>1. bl[k] \in 1..n /\ ps[k] \in DOMAIN B[bl[k]] /\ items[k] = B[bl[k]][ps[k]]
    BY DEF Laid
  <2>2. ItemsFit(w, mod, bl[k], msgs[bl[k]], B[bl[k]])
    BY <2>1, OneOfAll
  <2>3. k \in Nat
    OBVIOUS
  <2>4. B[bl[k]][ps[k]].of = bl[k]
    BY <2>1, <2>2, ItemIs
  <2>. QED
    BY <2>1, <2>3, <2>4
<1>2. ASSUME NEW k \in DOMAIN items, NEW l \in DOMAIN items, k < l
      PROVE  bl[k] < bl[l] \/ (bl[k] = bl[l] /\ ps[k] < ps[l])
  BY <1>2 DEF Laid
<1>3. ASSUME NEW i \in 1..n PROVE \A j \in DOMAIN B[i] : j \in Nat
  <2>3. ItemsFit(w, mod, i, msgs[i], B[i])
    BY OneOfAll
  <2>1. IsSeq(B[i])
    BY <2>3, ItemsSeq
  <2>2. DOMAIN B[i] = 1..Len(B[i])
    BY <2>1, IsSeqIs
  <2>. QED
    BY <2>2
<1>4. ASSUME NEW k \in DOMAIN items, NEW l \in DOMAIN items,
             bl[l] < bl[k] \/ (bl[l] = bl[k] /\ ps[l] < ps[k])
      PROVE  l \in 1..(k - 1)
  <2>1. k \in Nat /\ l \in Nat /\ bl[k] \in Nat /\ bl[l] \in Nat /\ ps[k] \in Nat /\ ps[l] \in Nat
    BY <1>1, <1>3
  <2>2. ~(k < l)
    BY <1>2, <1>4, <2>1
  <2>3. k # l
    BY <1>4, <2>1
  <2>4. l \in 1..len
    OBVIOUS
  <2>. QED
    BY <2>1, <2>2, <2>3, <2>4
<1>5. ASSUME NEW k \in DOMAIN items, items[k].kind = "output"
      PROVE  /\ \E j \in 1..(k - 1) : items[j].kind = "call" /\ items[j].id = items[k].id
             /\ \A j \in 1..(k - 1) : items[j].kind = "output" => items[j].id # items[k].id
  <2> DEFINE a == bl[k]
             m == msgs[a]
  <2>1. a \in 1..n /\ ps[k] \in DOMAIN B[a] /\ items[k] = B[a][ps[k]]
    BY <1>1
  <2> HIDE DEF a
  <2>20. ItemsFit(w, mod, a, m, B[a])
    BY <2>1, OneOfAll
  <2> HIDE DEF m
  <2>2. m.role = "tool" /\ items[k].id = m.answers /\ \A l \in DOMAIN B[a] : l = ps[k]
    BY <1>5, <2>1, <2>20, ItemIs
  <2>3. /\ \E j \in 1..(a - 1) : \E c \in DOMAIN msgs[j].calls : msgs[j].calls[c].id = m.answers
        /\ \A j \in 1..(a - 1) : msgs[j].role = "tool" => msgs[j].answers # m.answers
    BY <2>1, <2>2 DEF Coherent, m
  <2>12. m.answers # ""
    <3>1. Said(msgs[a])
      BY <2>1, CoherentSaid
    <3>2. Said(m)
      BY <3>1 DEF m
    <3>. QED
      BY <2>2, <3>2 DEF Said
  <2>4. PICK i \in 1..(a - 1) : \E c \in DOMAIN msgs[i].calls : msgs[i].calls[c].id = m.answers
    BY <2>3
  <2>5. PICK c \in DOMAIN msgs[i].calls : msgs[i].calls[c].id = m.answers
    BY <2>4
  <2>6. i \in 1..n /\ i < a
    BY <2>1, <2>4
  <2>7. PICK j \in DOMAIN B[i] : B[i][j].kind = "call" /\ B[i][j].id = msgs[i].calls[c].id
    <3>1. ItemsFit(w, mod, i, msgs[i], B[i])
      BY <2>6, OneOfAll
    <3>2. msgs[i].calls[c].id # ""
      BY <2>5, <2>12
    <3> DEFINE mi == msgs[i]
               b == B[i]
    <3>3. ItemsFit(w, mod, i, mi, b) /\ c \in DOMAIN mi.calls /\ mi.calls[c].id # ""
      BY <3>1, <3>2
    <3> HIDE DEF mi, b
    <3>4. CallAmong(b, mi.calls[c].id)
      BY <3>3, CallIsItem
    <3>. QED
      BY <3>4 DEF mi, b, CallAmong
  <2>8. PICK l \in DOMAIN items : bl[l] = i /\ ps[l] = j
    BY <2>6 DEF Laid
  <2>9. items[l].kind = "call" /\ items[l].id = items[k].id
    BY <1>1, <2>2, <2>5, <2>7, <2>8
  <2>10. l \in 1..(k - 1)
    BY <1>4, <2>6, <2>8 DEF a
  <2>11. ASSUME NEW j1 \in 1..(k - 1), items[j1].kind = "output" PROVE items[j1].id # items[k].id
    <3> DEFINE e == bl[j1]
    <3>1. j1 \in DOMAIN items /\ j1 < k
      <4>1. k \in 1..len /\ len \in Nat
        OBVIOUS
      <4>2. j1 \in 1..len /\ j1 < k
        BY <4>1
      <4>. QED
        BY <4>2
    <3>2. e \in 1..n /\ ps[j1] \in DOMAIN B[e] /\ items[j1] = B[e][ps[j1]]
      BY <1>1, <3>1
    <3>3. e < a \/ (e = a /\ ps[j1] < ps[k])
      BY <1>2, <3>1 DEF a
    <3> HIDE DEF e
    <3>6. ItemsFit(w, mod, e, msgs[e], B[e])
      BY <3>2, OneOfAll
    <3>4. msgs[e].role = "tool" /\ items[j1].id = msgs[e].answers
      BY <2>11, <3>2, <3>6, ItemIs
    <3>5. e # a
      <4> SUFFICES ASSUME e = a PROVE FALSE
        OBVIOUS
      <4>1. ps[j1] = ps[k] /\ ps[j1] < ps[k]
        BY <2>1, <2>2, <3>2, <3>3
      <4>2. ps[j1] \in Nat
        BY <1>3, <3>2
      <4>. QED
        BY <4>1, <4>2
    <3>7. e \in 1..(a - 1)
      BY <2>1, <3>2, <3>3, <3>5
    <3>. QED
      BY <2>2, <2>3, <3>4, <3>7
  <2>. QED
    BY <2>9, <2>10, <2>11
<1>6. ASSUME NEW k \in DOMAIN items
      PROVE  /\ items[k].kind = "reasoning" => items[k].id = mod
             /\ items[k].item # "" =>
                  \E j \in 1..(k - 1) : items[j].kind = "reasoning" /\ items[j].of = items[k].of
  <2> DEFINE a == bl[k]
  <2>1. a \in 1..n /\ ps[k] \in DOMAIN B[a] /\ items[k] = B[a][ps[k]] /\ items[k].of = a
    BY <1>1
  <2> HIDE DEF a
  <2>4. ItemsFit(w, mod, a, msgs[a], B[a])
    BY <2>1, OneOfAll
  <2>2. items[k].kind = "reasoning" => items[k].id = mod
    BY <2>1, <2>4, ItemIs
  <2>3. ASSUME items[k].item # ""
        PROVE  \E j \in 1..(k - 1) : items[j].kind = "reasoning" /\ items[j].of = items[k].of
    <3>5. B[a][ps[k]].item # ""
      BY <2>1, <2>3
    <3>6. \E i \in DOMAIN B[a] : Earlier(i, ps[k]) /\ B[a][i].kind = "reasoning"
      <4> DEFINE b == B[a]
                 p == ps[k]
                 m == msgs[a]
      <4>1. ItemsFit(w, mod, a, m, b) /\ p \in DOMAIN b /\ b[p].item # ""
        BY <2>1, <2>4, <3>5
      <4> HIDE DEF b, p, m
      <4>2. \E l \in DOMAIN b : Earlier(l, p) /\ b[l].kind = "reasoning"
        BY <4>1, ItemGoesWith
      <4>. QED
        BY <4>2 DEF b, p
    <3>1. PICK i \in DOMAIN B[a] : i < ps[k] /\ B[a][i].kind = "reasoning"
      BY <3>6 DEF Earlier
    <3>2. PICK l \in DOMAIN items : bl[l] = a /\ ps[l] = i
      BY <2>1 DEF Laid
    <3>3. items[l].kind = "reasoning" /\ items[l].of = a
      BY <1>1, <3>1, <3>2
    <3>4. l \in 1..(k - 1)
      BY <1>4, <3>1, <3>2 DEF a
    <3>. QED
      BY <2>1, <3>3, <3>4
  <2>. QED
    BY <2>2, <2>3
<1>7. ASSUME NEW i \in DOMAIN msgs, msgs[i].text \/ msgs[i].calls # <<>> \/ msgs[i].answers # ""
      PROVE  (\E k \in DOMAIN items : items[k].of = i) \/ (w # "chat" /\ msgs[i].role = "system")
  <2>1. ItemsFit(w, mod, i, msgs[i], B[i]) /\ i \in 1..n
    BY OneOfAll
  <2>2. (\E j : j \in DOMAIN B[i]) \/ (w # "chat" /\ msgs[i].role = "system")
    BY <1>7, <2>1 DEF ItemsFit
  <2>3. CASE \E j : j \in DOMAIN B[i]
    <3>1. PICK j : j \in DOMAIN B[i]
      BY <2>3
    <3>2. PICK k \in DOMAIN items : bl[k] = i /\ ps[k] = j
      BY <2>1, <3>1 DEF Laid
    <3>. QED
      BY <1>1, <3>2
  <2>. QED
    BY <2>2, <2>3
<1>8. ASSUME NEW j \in DOMAIN items, NEW k \in DOMAIN items, j < k PROVE items[j].of <= items[k].of
  <2>1. bl[j] \in 1..n /\ bl[k] \in 1..n /\ items[j].of = bl[j] /\ items[k].of = bl[k]
    BY <1>1
  <2>2. bl[j] < bl[k] \/ bl[j] = bl[k]
    BY <1>2, <1>8
  <2>. QED
    BY <2>1, <2>2
<1>9. Paired(items)
  BY <1>5 DEF Paired
<1>10. ReasoningPaired(mod, items)
  BY <1>6 DEF ReasoningPaired
<1>. QED
  BY <1>7, <1>8, <1>9, <1>10 DEF Sent

(* The items of a history, whatever the wire.                              *)
LEMMA ConcatFits ==
  ASSUME NEW w, NEW mod, NEW n \in Nat, NEW msgs, DOMAIN msgs = 1..n, Coherent(msgs), NEW B, B = [i \in 1..n |-> B[i]],
         AllFit(w, mod, n, msgs, B)
  PROVE  /\ IsSeq(FlattenSeq(B))
         /\ Paired(FlattenSeq(B)) /\ ReasoningPaired(mod, FlattenSeq(B)) /\ Sent(w, msgs, FlattenSeq(B))
<1> DEFINE S == UNION {{B[i][j] : j \in DOMAIN B[i]} : i \in 1..n}
           items == FlattenSeq(B)
<1>1. ASSUME NEW i \in 1..n PROVE B[i] \in Seq(S)
  <2> DEFINE vs == {B[i][j] : j \in DOMAIN B[i]}
  <2>1. B[i] \in Seq(vs)
    <3>1. ItemsFit(w, mod, i, msgs[i], B[i])
      BY OneOfAll
    <3>2. IsSeq(B[i])
      BY <3>1, ItemsSeq
    <3>. QED
      BY <3>2 DEF IsSeq
  <2>2. vs \subseteq S
    OBVIOUS
  <2> HIDE DEF vs, S
  <2>. QED
    BY <2>1, <2>2, SeqWider
<1> HIDE DEF S
<1>2. B \in [1..n -> Seq(S)] /\ DOMAIN B = 1..n
  BY <1>1
<1> DEFINE Q == Seq(S)
<1>3. B \in Seq(Q)
  <2>1. B \in [1..n -> Q]
    BY <1>2
  <2> HIDE DEF Q
  <2>. QED
    BY <2>1, NumberedSeq
<1>4. Len(B) = n
  <2> HIDE DEF Q
  <2>. QED
    BY <1>2, <1>3, LenProperties
<1>5. items \in Seq(S) /\ \E bl, ps : Laid(items, B, n, bl, ps)
  <2>1. FlattenSeq(B) \in Seq(S) /\ \E bl, ps : Laid(FlattenSeq(B), B, Len(B), bl, ps)
    BY <1>3, FlattenIs
  <2>. QED
    BY <1>4, <2>1
<1> HIDE DEF items, Q
<1>6. PICK bl, ps : Laid(items, B, n, bl, ps)
  BY <1>5
<1>7. Len(items) \in Nat /\ DOMAIN items = 1..Len(items)
  BY <1>5, LenProperties
<1>8. Paired(items) /\ ReasoningPaired(mod, items) /\ Sent(w, msgs, items)
  BY <1>2, <1>6, <1>7, InTurn
<1>9. IsSeq(items)
  <2>1. items \in Seq({items[i] : i \in DOMAIN items})
    BY <1>5, OwnSeq
  <2>. QED
    BY <2>1 DEF IsSeq
<1>. QED
  BY <1>8, <1>9 DEF items

(* A request of the items of a history is one the provider takes.          *)
Sendable(w, mod, msgs, items) == Paired(items) /\ ReasoningPaired(mod, items) /\ Sent(w, msgs, items)

\* The request of the chat wire.
LEMMA ChatSendable ==
  ASSUME NEW mod, NEW n \in Nat, NEW msgs, DOMAIN msgs = 1..n, Coherent(msgs)
  PROVE  Sendable("chat", mod, msgs, Concat(ChatItems, msgs))
<1> DEFINE B == [i \in DOMAIN msgs |-> ChatItems(i, msgs[i])]
<1>1. AllFit("chat", mod, n, msgs, B)
  <2>1. ASSUME NEW i \in 1..n PROVE ItemsFit("chat", mod, i, msgs[i], B[i])
    <3>1. Said(msgs[i]) /\ B[i] = ChatItems(i, msgs[i])
      BY CoherentSaid
    <3>2. ItemsFit("chat", mod, i, msgs[i], ChatItems(i, msgs[i]))
      BY <3>1, ChatFits
    <3>. QED
      BY <3>1, <3>2
  <2> HIDE DEF B
  <2>. QED
    BY <2>1 DEF AllFit
<1>2. B = [i \in 1..n |-> B[i]]
  OBVIOUS
<1>3. Concat(ChatItems, msgs) = FlattenSeq(B)
  BY DEF Concat
<1> HIDE DEF B
<1>4. Paired(FlattenSeq(B)) /\ ReasoningPaired(mod, FlattenSeq(B)) /\ Sent("chat", msgs, FlattenSeq(B))
  BY <1>1, <1>2, ConcatFits
<1>. QED
  BY <1>3, <1>4 DEF Sendable

\* The request of the Anthropic wire.
LEMMA AnthropicSendable ==
  ASSUME NEW mod, NEW n \in Nat, NEW msgs, DOMAIN msgs = 1..n, Coherent(msgs)
  PROVE  Sendable("anthropic", mod, msgs, Concat(AnthropicItems, msgs))
<1> DEFINE B == [i \in DOMAIN msgs |-> AnthropicItems(i, msgs[i])]
<1>1. AllFit("anthropic", mod, n, msgs, B)
  <2>1. ASSUME NEW i \in 1..n PROVE ItemsFit("anthropic", mod, i, msgs[i], B[i])
    <3>1. Said(msgs[i]) /\ B[i] = AnthropicItems(i, msgs[i])
      BY CoherentSaid
    <3>2. ItemsFit("anthropic", mod, i, msgs[i], AnthropicItems(i, msgs[i]))
      BY <3>1, AnthropicFits
    <3>. QED
      BY <3>1, <3>2
  <2> HIDE DEF B
  <2>. QED
    BY <2>1 DEF AllFit
<1>2. B = [i \in 1..n |-> B[i]]
  OBVIOUS
<1>3. Concat(AnthropicItems, msgs) = FlattenSeq(B)
  BY DEF Concat
<1> HIDE DEF B
<1>4. Paired(FlattenSeq(B)) /\ ReasoningPaired(mod, FlattenSeq(B)) /\ Sent("anthropic", msgs, FlattenSeq(B))
  BY <1>1, <1>2, ConcatFits
<1>. QED
  BY <1>3, <1>4 DEF Sendable

\* The request of the responses wire, an empty input made a user turn.
LEMMA ResponsesSendable ==
  ASSUME NEW mod, NEW n \in Nat, NEW msgs, DOMAIN msgs = 1..n, Coherent(msgs)
  PROVE  Sendable("responses", mod, msgs, Request("responses", mod, msgs))
<1> DEFINE B == [i \in DOMAIN msgs |-> ResponsesItems(mod, i, msgs[i])]
           u == Item("user", 0, "", "")
<1>1. AllFit("responses", mod, n, msgs, B)
  <2>1. ASSUME NEW i \in 1..n PROVE ItemsFit("responses", mod, i, msgs[i], B[i])
    <3>1. Said(msgs[i]) /\ B[i] = ResponsesItems(mod, i, msgs[i])
      BY CoherentSaid
    <3>2. ItemsFit("responses", mod, i, msgs[i], ResponsesItems(mod, i, msgs[i]))
      BY <3>1, ResponsesFits
    <3>. QED
      BY <3>1, <3>2
  <2> HIDE DEF B
  <2>. QED
    BY <2>1 DEF AllFit
<1>2. B = [i \in 1..n |-> B[i]]
  OBVIOUS
<1>3. Request("responses", mod, msgs) = IF FlattenSeq(B) = <<>> THEN <<u>> ELSE FlattenSeq(B)
  BY DEF Concat, Request
<1> HIDE DEF B
<1>4. Paired(FlattenSeq(B)) /\ ReasoningPaired(mod, FlattenSeq(B)) /\ Sent("responses", msgs, FlattenSeq(B))
  BY <1>1, <1>2, ConcatFits
<1>5. CASE FlattenSeq(B) # <<>>
  BY <1>3, <1>4, <1>5 DEF Sendable
<1>6. CASE FlattenSeq(B) = <<>>
  <2>1. DOMAIN <<u>> = {1} /\ <<u>>[1] = u
    BY OneIs
  <2>2. u.kind = "user" /\ u.item = "" /\ u.of = 0
    BY DEF Item
  <2> HIDE DEF u
  <2>3. Paired(<<u>>)
    BY <2>1, <2>2 DEF Paired
  <2>4. ReasoningPaired(mod, <<u>>)
    BY <2>1, <2>2 DEF ReasoningPaired
  <2>5. Sent("responses", msgs, <<>>)
    BY <1>4, <1>6
  <2>6. \A k : k \notin DOMAIN <<>>
    BY NoneIs
  <2>7. \A j, k \in DOMAIN <<u>> : ~(j < k)
    BY <2>1
  <2>8. Sent("responses", msgs, <<u>>)
    BY <2>5, <2>6, <2>7 DEF Sent
  <2>. QED
    BY <1>3, <1>6, <2>3, <2>4, <2>8 DEF Sendable
<1>. QED
  BY <1>5, <1>6

(* The system texts of a history are its instructions.                     *)
Told(w, msgs, i) == \E k \in DOMAIN Instructions(w, msgs) : Instructions(w, msgs)[k] = i

\* Every system text has its place among the instructions.
LEMMA InstructionsAre ==
  ASSUME NEW w, w # "chat", NEW n \in Nat, NEW msgs, DOMAIN msgs = 1..n, Len(msgs) = n,
         NEW i \in DOMAIN msgs, msgs[i].role = "system"
  PROVE  Told(w, msgs, i)
<1> DEFINE f == [j \in DOMAIN msgs |-> j]
           at == {j \in DOMAIN msgs : msgs[j].role = "system"}
<1>1. Instructions(w, msgs) = Listed(f, at, Len(f))
  BY DEF Instructions, Picked
<1>2. Len(f) = n
  <2>1. f \in [1..n -> Nat]
    OBVIOUS
  <2> HIDE DEF f
  <2>2. f \in Seq(Nat)
    BY <2>1, NumberedSeq
  <2>. QED
    BY <2>1, <2>2, LenProperties
<1>3. i \in at /\ i \in 0..n /\ f[i] = i
  OBVIOUS
<1> HIDE DEF f, at
<1>4. /\ Listed(f, at, n) \in Seq({f[k] : k \in at})
      /\ \A k \in at : k \in 0..n => \E j \in DOMAIN Listed(f, at, n) : Listed(f, at, n)[j] = f[k]
  BY ListedIs
<1>5. \E j \in DOMAIN Listed(f, at, n) : Listed(f, at, n)[j] = f[i]
  BY <1>3, <1>4
<1>. QED
  BY <1>1, <1>2, <1>3, <1>5 DEF Told

(* Nothing of a history is left out of its request, on any wire.           *)
LEMMA RequestIs ==
  ASSUME NEW w \in Wires, NEW mod, NEW n \in Nat, NEW msgs, DOMAIN msgs = 1..n, Len(msgs) = n, Coherent(msgs)
  PROVE  /\ Paired(Request(w, mod, msgs)) /\ ReasoningPaired(mod, Request(w, mod, msgs))
         /\ Carried(msgs, Request(w, mod, msgs), Instructions(w, msgs))
<1> DEFINE items == Request(w, mod, msgs)
           ins == Instructions(w, msgs)
<1>1. Sendable(w, mod, msgs, items)
  <2>1. CASE w = "chat"
    <3>1. items = Concat(ChatItems, msgs)
      BY <2>1 DEF Request
    <3>. QED
      BY <2>1, <3>1, ChatSendable
  <2>2. CASE w = "anthropic"
    <3>1. items = Concat(AnthropicItems, msgs)
      BY <2>2 DEF Request
    <3>. QED
      BY <2>2, <3>1, AnthropicSendable
  <2>3. CASE w = "responses"
    BY <2>3, ResponsesSendable
  <2>. QED
    BY <2>1, <2>2, <2>3 DEF Wires
<1>2. ASSUME NEW i \in DOMAIN msgs, w # "chat", msgs[i].role = "system" PROVE \E k \in DOMAIN ins : ins[k] = i
  <2>1. Told(w, msgs, i)
    BY <1>2, InstructionsAre
  <2>. QED
    BY <2>1 DEF Told
<1> HIDE DEF items, ins
<1>3. Carried(msgs, items, ins)
  <2>1. ASSUME NEW i \in DOMAIN msgs, msgs[i].text \/ msgs[i].calls # <<>> \/ msgs[i].answers # ""
        PROVE  (\E k \in DOMAIN items : items[k].of = i) \/ (\E k \in DOMAIN ins : ins[k] = i)
    BY <1>1, <1>2, <2>1 DEF Sendable, Sent
  <2>2. \A j, k \in DOMAIN items : j < k => items[j].of <= items[k].of
    BY <1>1 DEF Sendable, Sent
  <2>. QED
    BY <2>1, <2>2 DEF Carried
<1>. QED
  BY <1>1, <1>3 DEF Sendable, items, ins

(* A history moved by the segments in front of it.                         *)
AnswersCall(s, i) ==
    /\ \E j \in 1..i - 1 : \E c \in DOMAIN s[j].calls : s[j].calls[c].id = s[i].answers
    /\ \A j \in 1..i - 1 : s[j].role = "tool" => s[j].answers # s[i].answers

Plain(m) == m = Msg(m.role, m.text, m.calls, m.answers, m.reasoning)

CoherentAt(s, i) == Plain(s[i]) /\ Said(s[i]) /\ (s[i].role = "tool" => AnswersCall(s, i))

\* A history is coherent if each of its messages is.
LEMMA CoherentAll == ASSUME NEW s, \A i \in DOMAIN s : CoherentAt(s, i) PROVE Coherent(s)
<1>1. ASSUME NEW i \in DOMAIN s
      PROVE  LET m == s[i] IN
             /\ m = Msg(m.role, m.text, m.calls, m.answers, m.reasoning)
             /\ m.role \in {"system", "user", "assistant", "tool"} /\ m.text \in BOOLEAN
             /\ m.reasoning \in Seq(STRING)
             /\ m.calls \in Seq([id : STRING, name : STRING, item : STRING])
             /\ m.calls # <<>> => m.role = "assistant"
             /\ m.role # "tool" => m.answers = ""
             /\ m.role = "tool" =>
                  /\ m.answers # ""
                  /\ \E j \in 1..i - 1 : \E c \in DOMAIN s[j].calls : s[j].calls[c].id = m.answers
                  /\ \A j \in 1..i - 1 : s[j].role = "tool" => s[j].answers # m.answers
  <2>1. Plain(s[i]) /\ Said(s[i]) /\ (s[i].role = "tool" => AnswersCall(s, i))
    BY DEF CoherentAt
  <2>2. s[i] = Msg(s[i].role, s[i].text, s[i].calls, s[i].answers, s[i].reasoning)
    BY <2>1 DEF Plain
  <2>3. /\ s[i].role \in {"system", "user", "assistant", "tool"} /\ s[i].text \in BOOLEAN
        /\ s[i].reasoning \in Seq(STRING)
        /\ s[i].calls \in Seq([id : STRING, name : STRING, item : STRING])
        /\ s[i].calls # <<>> => s[i].role = "assistant"
        /\ s[i].role # "tool" => s[i].answers = ""
        /\ s[i].role = "tool" => s[i].answers # ""
    BY <2>1 DEF Said
  <2>4. ASSUME s[i].role = "tool"
        PROVE  /\ \E j \in 1..i - 1 : \E c \in DOMAIN s[j].calls : s[j].calls[c].id = s[i].answers
               /\ \A j \in 1..i - 1 : s[j].role = "tool" => s[j].answers # s[i].answers
    BY <2>1, <2>4 DEF AnswersCall
  <2>. QED
    BY <2>2, <2>3, <2>4
<1>. QED
  BY <1>1 DEF Coherent

\* Each message of a coherent history.
LEMMA CoherentOne == ASSUME NEW s, Coherent(s), NEW i \in DOMAIN s PROVE CoherentAt(s, i)
<1>1. Plain(s[i])
  BY DEF Coherent, Plain
<1>2. Said(s[i])
  BY CoherentSaid
<1>3. ASSUME s[i].role = "tool" PROVE AnswersCall(s, i)
  BY <1>3 DEF Coherent, AnswersCall
<1>. QED
  BY <1>1, <1>2, <1>3 DEF CoherentAt

\* The message of a leading segment.
LEMMA SystemSaid == Plain(SystemMsg) /\ Said(SystemMsg) /\ SystemMsg.role # "tool"
<1>1. \A S : <<>> \in Seq(S)
  BY EmptySeq
<1>. QED
  BY <1>1 DEF Plain, Said, SystemMsg, Msg

Moved(pre, n, msgs, s) ==
    /\ DOMAIN s = 1..(pre + n)
    /\ \A i \in 1..pre : s[i] = SystemMsg
    /\ \A i \in 1..n : s[pre + i] = msgs[i]

\* A coherent history stays one behind leading segments.
LEMMA ShiftCoherent ==
  ASSUME NEW pre \in Nat, NEW n \in Nat, NEW msgs, DOMAIN msgs = 1..n, Coherent(msgs), NEW s,
         Moved(pre, n, msgs, s)
  PROVE  Coherent(s)
<1>0. /\ DOMAIN s = 1..(pre + n)
      /\ \A i \in 1..pre : s[i] = SystemMsg
      /\ \A i \in 1..n : s[pre + i] = msgs[i]
  BY DEF Moved
<1>1. ASSUME NEW i \in DOMAIN s
      PROVE  CoherentAt(s, i)
  <2>1. CASE i \in 1..pre
    BY <1>0, <2>1, SystemSaid DEF CoherentAt
  <2>2. CASE i \notin 1..pre
    <3> DEFINE a == i - pre
    <3>1. a \in 1..n /\ pre + a = i /\ i \in Nat
      BY <1>0, <2>2
    <3>2. s[i] = msgs[a]
      BY <1>0, <3>1
    <3>3. Plain(msgs[a]) /\ Said(msgs[a]) /\ (msgs[a].role = "tool" => AnswersCall(msgs, a))
      <4>1. CoherentAt(msgs, a)
        BY <3>1, CoherentOne
      <4>. QED
        BY <4>1 DEF CoherentAt
    <3>4. ASSUME msgs[a].role = "tool" PROVE AnswersCall(s, i)
      <4> HIDE DEF a
      <4>1. PICK j \in 1..a - 1 : \E c \in DOMAIN msgs[j].calls : msgs[j].calls[c].id = msgs[a].answers
        BY <3>3, <3>4 DEF AnswersCall
      <4>2. pre + j \in 1..i - 1 /\ s[pre + j] = msgs[j]
        <5>1. j \in 1..n /\ pre + j \in 1..i - 1
          BY <3>1, <4>1
        <5>. QED
          BY <1>0, <5>1
      <4>3. \E c \in DOMAIN s[pre + j].calls : s[pre + j].calls[c].id = s[i].answers
        BY <3>2, <4>1, <4>2
      <4>4. ASSUME NEW l \in 1..i - 1, s[l].role = "tool" PROVE s[l].answers # s[i].answers
        <5>1. l \notin 1..pre
          BY <1>0, <4>4, SystemSaid
        <5>2. l - pre \in 1..a - 1 /\ l - pre \in 1..n /\ pre + (l - pre) = l
          BY <3>1, <5>1
        <5>3. s[l] = msgs[l - pre]
          BY <1>0, <5>2
        <5>4. \A e \in 1..a - 1 : msgs[e].role = "tool" => msgs[e].answers # msgs[a].answers
          BY <3>3, <3>4 DEF AnswersCall
        <5>. QED
          BY <3>2, <4>4, <5>2, <5>3, <5>4
      <4>5. \E e \in 1..i - 1 : \E c \in DOMAIN s[e].calls : s[e].calls[c].id = s[i].answers
        BY <4>2, <4>3
      <4>. QED
        BY <4>4, <4>5 DEF AnswersCall
    <3>. QED
      BY <3>2, <3>3, <3>4 DEF CoherentAt
  <2>. QED
    BY <2>1, <2>2
<1>. QED
  BY <1>1, CoherentAll

(* The leading system segments only move the messages of a history.        *)
LEMMA PrefixCoherent ==
  ASSUME NEW w, NEW pre \in Nat, NEW msgs, NEW S, msgs \in Seq(S), Coherent(msgs)
  PROVE  /\ Coherent(WithSystemPrefix(w, pre, msgs))
         /\ \E M2 : WithSystemPrefix(w, pre, msgs) \in Seq(M2)
<1>1. CASE w = "anthropic"
  BY <1>1 DEF WithSystemPrefix
<1>2. CASE w # "anthropic"
  <2> DEFINE h == [i \in 1..pre |-> SystemMsg]
             s == h \o msgs
             S2 == S \cup {SystemMsg}
             n == Len(msgs)
  <2>1. WithSystemPrefix(w, pre, msgs) = s
    BY <1>2 DEF WithSystemPrefix
  <2>2. h \in Seq(S2) /\ Len(h) = pre
    <3>1. h \in [1..pre -> S2]
      OBVIOUS
    <3> HIDE DEF h, S2
    <3>2. h \in Seq(S2)
      BY <3>1, NumberedSeq
    <3>. QED
      BY <3>1, <3>2, LenProperties
  <2>3. msgs \in Seq(S2)
    <3>1. S \subseteq S2
      OBVIOUS
    <3> HIDE DEF S2
    <3>. QED
      BY <3>1, SeqWider
  <2>4. n \in Nat /\ DOMAIN msgs = 1..n
    BY LenProperties
  <2>5. \A i \in 1..pre : h[i] = SystemMsg
    OBVIOUS
  <2> HIDE DEF h, S2
  <2>6. /\ s \in Seq(S2) /\ Len(s) = pre + n
        /\ \A i \in 1..(pre + n) : s[i] = IF i <= pre THEN h[i] ELSE msgs[i - pre]
    BY <2>2, <2>3, ConcatProperties
  <2>7. DOMAIN s = 1..(pre + n)
    BY <2>6, LenProperties
  <2> HIDE DEF s
  <2>8. \A i \in 1..pre : i \in 1..(pre + n) /\ s[i] = SystemMsg
    BY <2>4, <2>5, <2>6
  <2>9. \A i \in 1..n : pre + i \in 1..(pre + n) /\ s[pre + i] = msgs[i]
    <3>1. ASSUME NEW i \in 1..n PROVE pre + i \in 1..(pre + n) /\ s[pre + i] = msgs[i]
      <4>1. pre + i \in 1..(pre + n) /\ ~(pre + i <= pre) /\ (pre + i) - pre = i
        BY <2>4
      <4>. QED
        BY <2>6, <4>1
    <3>. QED
      BY <3>1
  <2>10. Coherent(s)
    <3>1. Moved(pre, n, msgs, s)
      BY <2>7, <2>8, <2>9 DEF Moved
    <3> HIDE DEF n
    <3>. QED
      BY <2>4, <3>1, ShiftCoherent
  <2>. QED
    BY <2>1, <2>6, <2>10
<1>. QED
  BY <1>1, <1>2

-----------------------------------------------------------------------------
(* A call of the model from its history to its answer.                     *)

(* What is sent: a history with the segments in front.                     *)
Held ==
    /\ wire \in Wires /\ prefix \in Nat
    /\ (\E S : messages \in Seq(S)) /\ Coherent(messages)
    /\ RequestReplayable

(* What is read: a stream shows what it has parsed, before and without one *)
(* nothing was shown.                                                      *)
Streams ==
    /\ streaming /\ Going(wire, parse, log) /\ screen = parse.shown /\ log \in Seq(AllFrames)
    /\ log = <<>> => parse.shown = <<>>

Heard ==
    /\ phase \in {"enter", "http", "read", "body", "over"}
    /\ phase \in {"enter", "http", "body"} => screen = <<>>
    /\ phase = "body" => ~streaming /\ log = <<>>
    /\ phase = "read" => Streams

(* What is returned.                                                       *)
Returned ==
    /\ phase # "over" => reply.kind # "message"
    /\ ShownIsReturned /\ CompleteOnly /\ AnswerWhole(wire, reply)

CallInv == Held /\ Heard /\ Returned

\* The invariant holds when chatWithStream is called.
LEMMA CallInvInit == ASSUME CallAssumption, Init PROVE CallInv
<1>1. /\ wire \in Wires /\ prefix \in PrefixLens /\ history \in Histories /\ phase = "enter"
      /\ messages = history /\ reply = Pending /\ screen = <<>>
  BY DEF Init
<1>2. prefix \in Nat /\ messages \in Seq(ToSet(messages)) /\ Coherent(messages)
  BY <1>1 DEF CallAssumption
<1>3. Held
  BY <1>1, <1>2 DEF Held, RequestReplayable
<1>4. Heard
  BY <1>1 DEF Heard
<1>5. reply.kind # "message"
  BY <1>1 DEF Pending
<1>6. Returned
  BY <1>5 DEF Returned, ShownIsReturned, CompleteOnly, AnswerWhole
<1>. QED
  BY <1>3, <1>4, <1>6 DEF CallInv

(* The steps of the request loop, a silence and a cancel leave it alone.   *)
Unmoved ==
    UNCHANGED <<wire, model, streaming, prefix, phase, messages, request, parse, reply, screen, log>>

\* What leaves messages, reply and screen alone keeps it.
LEMMA UnmovedKeeps == ASSUME CallInv, Unmoved PROVE CallInv'
<1>1. Held' /\ Heard'
  BY DEF CallInv, Unmoved, Held, Heard, Streams, RequestReplayable
<1>2. Returned'
  BY DEF CallInv, Unmoved, Returned, ShownIsReturned, CompleteOnly
<1>. QED
  BY <1>1, <1>2 DEF CallInv

(* The history, with the segments in front, becomes the request.           *)
LEMMA EnterKeeps == ASSUME CallInv, Enter PROVE CallInv'
<1> DEFINE msgs == WithSystemPrefix(wire, prefix, messages)
<1>1. /\ phase = "enter" /\ phase' = "http" /\ messages' = msgs
      /\ request' = [items |-> Request(wire, model, messages'), instructions |-> Instructions(wire, messages')]
      /\ wire' = wire /\ model' = model /\ prefix' = prefix /\ streaming' = streaming
      /\ reply' = reply /\ screen' = screen
  BY DEF Enter, client
<1>2. wire \in Wires /\ prefix \in Nat /\ Coherent(messages)
  BY DEF CallInv, Held
<1>3. PICK S : messages \in Seq(S)
  BY DEF CallInv, Held
<1>4. Coherent(msgs) /\ \E S2 : msgs \in Seq(S2)
  BY <1>2, <1>3, PrefixCoherent
<1> HIDE DEF msgs
<1>5. PICK S2 : msgs \in Seq(S2)
  BY <1>4
<1>6. Len(msgs) \in Nat /\ DOMAIN msgs = 1..Len(msgs)
  BY <1>5, LenProperties
<1> DEFINE n == Len(msgs)
<1>7. n \in Nat /\ DOMAIN msgs = 1..n /\ Len(msgs) = n
  BY <1>6
<1> HIDE DEF n
<1>8. /\ Paired(Request(wire, model, msgs)) /\ ReasoningPaired(model, Request(wire, model, msgs))
      /\ Carried(msgs, Request(wire, model, msgs), Instructions(wire, msgs))
  BY <1>2, <1>4, <1>7, RequestIs
<1>9. RequestReplayable'
  BY <1>1, <1>8 DEF RequestReplayable
<1>10. Held'
  BY <1>1, <1>2, <1>4, <1>9 DEF Held
<1>11. Heard'
  BY <1>1 DEF CallInv, Heard
<1>12. reply'.kind # "message" /\ AnswerWhole(wire', reply')
  BY <1>1 DEF CallInv, Returned
<1>13. Returned'
  BY <1>12 DEF Returned, ShownIsReturned, CompleteOnly
<1>. QED
  BY <1>10, <1>11, <1>13 DEF CallInv

(* A parse of nothing.                                                     *)
LEMMA NothingRead == ASSUME NEW w PROVE Going(w, EmptyParse, <<>>)
<1>1. DOMAIN <<>> = {} /\ <<>> \in Seq(STRING)
  BY EmptySeq
<1>2. /\ EmptyParse.content = <<>> /\ EmptyParse.shown = <<>> /\ EmptyParse.tools = <<>>
      /\ EmptyParse.items = <<>> /\ EmptyParse.stop = "" /\ EmptyParse.terminal = FALSE
  BY DEF EmptyParse
<1>3. IsParse(EmptyParse)
  BY DEF IsParse, EmptyParse
<1>4. Bounded(<<>>)
  BY <1>1 DEF Bounded
<1>5. Sound(EmptyParse, <<>>)
  BY <1>1, <1>2, <1>3, <1>4 DEF Sound, ToolsWhole
<1>6. ToolsFit(EmptyParse)
  BY <1>1, <1>2, <1>4 DEF ToolsFit
<1>7. Announced(EmptyParse, <<>>)
  BY <1>1 DEF Announced
<1>. QED
  BY <1>2, <1>5, <1>6, <1>7 DEF Going

(* The request is answered: by a stream, a body or a failure.              *)
LEMMA AnswerKeeps == ASSUME CallInv, Answer PROVE CallInv'
<1>1. /\ phase = "http" /\ parse' = EmptyParse /\ log' = <<>> /\ screen' = screen
      /\ wire' = wire /\ model' = model /\ prefix' = prefix /\ streaming' = streaming
      /\ messages' = messages /\ request' = request
  BY DEF Answer, client
<1>2. \/ phase' = (IF streaming THEN "read" ELSE "body") /\ reply' = reply
      \/ phase' = "over" /\ reply' \in {Cancelled, Failed}
  BY DEF Answer, Over
<1>3. phase' # "http"
  BY <1>2
<1>4. Held'
  BY <1>1, <1>3 DEF CallInv, Held, RequestReplayable
<1>5. screen' = <<>> /\ reply.kind # "message"
  BY <1>1 DEF CallInv, Heard, Returned
<1>6. ASSUME phase' = "read" PROVE Streams'
  <2>1. streaming
    BY <1>2, <1>6
  <2>2. EmptyParse.shown = <<>>
    BY DEF EmptyParse
  <2>3. <<>> \in Seq(AllFrames)
    BY EmptySeq
  <2>4. Going(wire, EmptyParse, <<>>)
    BY NothingRead
  <2>. QED
    BY <1>1, <1>5, <2>1, <2>2, <2>3, <2>4 DEF Streams
<1>7. Heard'
  BY <1>1, <1>2, <1>5, <1>6 DEF Heard
<1>8. reply'.kind # "message"
  <2>1. Cancelled.kind # "message" /\ Failed.kind # "message"
    BY DEF Cancelled, Failed
  <2>. QED
    BY <1>2, <1>5, <2>1
<1>9. Returned'
  BY <1>8 DEF Returned, ShownIsReturned, CompleteOnly, AnswerWhole
<1>. QED
  BY <1>4, <1>7, <1>9 DEF CallInv

\* The text of a whole body.
LEMMA BodyText == ASSUME NEW w, NEW r, BodyFits(r) PROVE JSONReply(w, r).content \in Seq(STRING)
<1>1. r.text \in Seq(STRING) /\ <<>> \in Seq(STRING)
  BY EmptySeq DEF BodyFits
<1>2. JSONReply(w, r).content \in {<<>>, r.text}
  BY DEF JSONReply, Failed, FromResponse, Reply
<1>. QED
  BY <1>1, <1>2

(* A whole body is shown whole.                                            *)
LEMMA BodyKeeps == ASSUME CallAssumption, CallInv, ReadBody PROVE CallInv'
<1>1. PICK r \in Bodies : phase' = "over" /\ reply' = JSONReply(wire, r)
                          /\ screen' = (IF streaming THEN screen \o reply'.content ELSE screen)
  BY DEF ReadBody, Over
<1>2. /\ wire' = wire /\ model' = model /\ prefix' = prefix /\ streaming' = streaming
      /\ messages' = messages /\ request' = request /\ log' = log
  BY DEF ReadBody, client, readVars
<1>3. log = <<>> /\ screen = <<>>
  BY DEF ReadBody, CallInv, Heard, Streams
<1>4. BodyFits(r)
  BY DEF CallAssumption
<1>5. AnswerWhole(wire', reply')
  BY <1>1, <1>2, <1>4, BodyIs
<1>6. Held'
  BY <1>1, <1>2 DEF CallInv, Held, RequestReplayable
<1>7. Heard'
  BY <1>1 DEF Heard
<1>8. reply'.content \in Seq(STRING)
  BY <1>1, <1>4, BodyText
<1>9. screen \o reply'.content = reply'.content
  BY <1>3, <1>8, ConcatEmptySeq
<1>10. ShownIsReturned'
  BY <1>1, <1>2, <1>9 DEF ShownIsReturned
<1>11. CompleteOnly'
  BY <1>2, <1>3 DEF CompleteOnly
<1>12. Returned'
  BY <1>1, <1>5, <1>10, <1>11 DEF Returned
<1>. QED
  BY <1>6, <1>7, <1>12 DEF CallInv

-----------------------------------------------------------------------------
(* The end of a stream: it is sent again if nothing was shown, or returned *)
(* with what was.                                                          *)
Comes(p, seen) ==
    \/ phase' = "enter" /\ reply' = reply /\ p.shown = <<>>
    \/ /\ phase' = "over" /\ AnswerWhole(wire, reply')
       /\ reply'.kind = "message" => reply'.content = p.shown /\ Closed(seen)

\* A read that is given up returns no message.
LEMMA CancelledComes ==
  ASSUME NEW p, NEW seen, phase' = "over", reply' = Cancelled PROVE Comes(p, seen)
<1>1. reply'.kind # "message"
  BY DEF Cancelled
<1>. QED
  BY <1>1 DEF Comes, AnswerWhole

\* The end of a stream returns what was shown, or sends it again.
LEMMA ReadEnds ==
  ASSUME wire \in Wires, NEW p, NEW seen, Sound(p, seen), NEW how, EndRead(p, how)
  PROVE  Comes(p, seen)
<1> DEFINE e == EndOf(wire, p, how)
           m == IF wire = "chat" /\ ctx = "cancelled" THEN Cancelled ELSE e
<1>1. Return(p, m)
  BY DEF EndRead
<1>2. (e.kind = "message" => e.content = p.shown /\ Closed(seen)) /\ AnswerWhole(wire, e)
  BY EndIs
<1> HIDE DEF e
<1>3. (m.kind = "message" => m.content = p.shown /\ Closed(seen)) /\ AnswerWhole(wire, m)
  <2>1. CASE m = Cancelled
    <3>1. Cancelled.kind # "message"
      BY DEF Cancelled
    <3> HIDE DEF m
    <3>2. m.kind # "message"
      BY <2>1, <3>1
    <3>. QED
      BY <3>2 DEF AnswerWhole
  <2>2. CASE m = e
    <3> HIDE DEF m
    <3>. QED
      BY <1>2, <2>2
  <2>. QED
    BY <2>1, <2>2
<1> HIDE DEF m
<1>4. p.shown = p.content
  BY DEF Sound
<1>5. CASE phase' = "enter" /\ reply' = reply /\ RetryableIncomplete(p, m)
  BY <1>4, <1>5 DEF Comes, RetryableIncomplete
<1>6. CASE phase' = "over" /\ reply' = m
  BY <1>3, <1>6 DEF Comes
<1>. QED
  BY <1>1, <1>5, <1>6 DEF Return, Over

(* What a stream came to, when its words are on the screen.                *)
LEMMA ComesKeeps ==
  ASSUME CallInv, phase = "read", NEW p, Comes(p, log'), screen' = p.shown,
         UNCHANGED <<wire, model, streaming, prefix, messages, request>>
  PROVE  CallInv'
<1>1. phase' \in {"enter", "over"}
  BY DEF Comes
<1>2. Held'
  BY <1>1 DEF CallInv, Held, RequestReplayable
<1>3. Heard'
  BY <1>1 DEF Comes, Heard
<1>4. reply.kind # "message" /\ AnswerWhole(wire, reply)
  BY DEF CallInv, Returned
<1>5. CASE phase' = "enter" /\ reply' = reply
  <2>1. reply'.kind # "message"
    BY <1>4, <1>5
  <2>2. Returned'
    BY <1>4, <1>5, <2>1 DEF Returned, ShownIsReturned, CompleteOnly
  <2>. QED
    BY <1>2, <1>3, <2>2 DEF CallInv
<1>6. CASE /\ phase' = "over" /\ AnswerWhole(wire, reply')
           /\ reply'.kind = "message" => reply'.content = p.shown /\ Closed(log')
  <2>1. ShownIsReturned'
    BY <1>6 DEF ShownIsReturned
  <2>2. CompleteOnly'
    BY <1>6 DEF CompleteOnly, Closed, Closing
  <2>3. Returned'
    BY <1>6, <2>1, <2>2 DEF Returned
  <2>. QED
    BY <1>2, <1>3, <2>3 DEF CallInv
<1>. QED
  BY <1>5, <1>6 DEF Comes

\* The body ends, falls silent for too long or is given up.
LEMMA StreamEndKeeps ==
  ASSUME CallInv, phase = "read", NEW how, EndRead(parse, how) \/ (phase' = "over" /\ reply' = Cancelled),
         UNCHANGED <<wire, model, streaming, prefix, messages, request, parse, log, screen>>
  PROVE  CallInv'
<1>1. wire \in Wires /\ Sound(parse, log) /\ screen = parse.shown
  BY DEF CallInv, Held, Heard, Streams, Going
<1>2. Comes(parse, log)
  BY <1>1, ReadEnds, CancelledComes
<1>3. Comes(parse, log') /\ screen' = parse.shown
  BY <1>1, <1>2
<1>. QED
  BY <1>3, ComesKeeps

(* What was shown, and the rest.                                           *)
LEMMA RestShown ==
  ASSUME NEW s \in Seq(STRING), NEW d, \E x \in Seq(STRING) : d = s \o x
  PROVE  s \o SubSeq(d, Len(s) + 1, Len(d)) = d
<1>1. PICK x \in Seq(STRING) : d = s \o x
  OBVIOUS
<1>2. /\ d \in Seq(STRING) /\ Len(s) \in Nat /\ Len(x) \in Nat /\ Len(d) = Len(s) + Len(x)
      /\ \A i \in 1..Len(s) : d[i] = s[i]
  BY <1>1, ConcatProperties, LenProperties
<1>3. IsPrefix(s, d)
  <2>1. SubSeq(s, 1, Len(s)) = SubSeq(d, 1, Len(s))
    BY <1>2
  <2>. QED
    BY <1>2, <2>1 DEF IsPrefix
<1>. QED
  BY <1>2, <1>3, PrefixRest

(* One more frame.                                                         *)
LEMMA FrameStepKeeps == ASSUME CallAssumption, CallInv, ReadFrame PROVE CallInv'
<1>1. /\ phase = "read" /\ wire \in Wires /\ streaming /\ Going(wire, parse, log)
      /\ screen = parse.shown /\ log \in Seq(AllFrames)
  BY DEF ReadFrame, CallInv, Held, Heard, Streams
<1>2. PICK f \in Frames(wire) :
        LET p == Frame(wire, parse, f) IN
        /\ CanSend(f)
        /\ parse' = p
        /\ log' = Append(log, f)
        /\ screen' = screen \o SubSeq(p.shown, Len(parse.shown) + 1, Len(p.shown))
        /\ IF StopsReading(wire, p, f) THEN EndRead(p, "stopped")
           ELSE UNCHANGED <<phase, reply, again>>
  BY DEF ReadFrame
<1>3. UNCHANGED <<wire, model, streaming, prefix, messages, request>>
  BY DEF ReadFrame, client
<1> DEFINE q == Frame(wire, parse, f)
           seen == Append(log, f)
<1>4. Reads(wire, parse, log, f, q)
  BY <1>1, <1>2, FrameKeeps
<1>5. /\ CanSend(f) /\ parse' = q /\ log' = seen
      /\ screen' = screen \o SubSeq(q.shown, Len(parse.shown) + 1, Len(q.shown))
      /\ \/ StopsReading(wire, q, f) /\ EndRead(q, "stopped")
         \/ ~StopsReading(wire, q, f) /\ phase' = phase /\ reply' = reply
  BY <1>2
<1> HIDE DEF q
<1>6. /\ Sound(q, seen) /\ (\E x \in Seq(STRING) : q.shown = parse.shown \o x)
      /\ (wire = "responses" /\ q.terminal) \/ Going(wire, q, seen)
  BY <1>4 DEF Reads
<1>7. parse.shown \in Seq(STRING)
  BY <1>1 DEF Going, Sound
<1>8. screen' = q.shown
  BY <1>1, <1>5, <1>6, <1>7, RestShown
<1>9. seen \in Seq(AllFrames) /\ seen # <<>>
  <2>1. f \in AllFrames
    BY <1>1 DEF AllFrames
  <2>. QED
    BY <1>1, <2>1, AppendProperties
<1> HIDE DEF seen
<1>10. CASE StopsReading(wire, q, f) /\ EndRead(q, "stopped")
  <2>1. Comes(q, seen)
    BY <1>1, <1>6, <1>10, ReadEnds
  <2>2. Comes(q, log')
    BY <1>5, <2>1
  <2>. QED
    BY <1>1, <1>3, <1>8, <2>2, ComesKeeps
<1>11. CASE ~StopsReading(wire, q, f) /\ phase' = phase /\ reply' = reply
  <2>1. Going(wire, q, seen)
    BY <1>6, <1>11 DEF StopsReading
  <2>2. Streams'
    BY <1>1, <1>3, <1>5, <1>8, <1>9, <2>1 DEF Streams
  <2>3. Heard'
    BY <1>1, <1>11, <2>2 DEF Heard
  <2>4. Held'
    BY <1>1, <1>3, <1>11 DEF CallInv, Held, RequestReplayable
  <2>5. reply'.kind # "message" /\ AnswerWhole(wire, reply')
    BY <1>1, <1>11 DEF CallInv, Returned
  <2>6. Returned'
    BY <1>3, <2>5 DEF Returned, ShownIsReturned, CompleteOnly
  <2>. QED
    BY <2>3, <2>4, <2>6 DEF CallInv
<1>. QED
  BY <1>5, <1>10, <1>11

(* Every step of a call.                                                   *)
LEMMA CallInvStep == ASSUME CallAssumption, CallInv, [Next]_vars PROVE CallInv'
<1>1. CASE Enter
  BY <1>1, EnterKeeps
<1>2. CASE HTTPStep
  <2>1. Unmoved
    BY <1>2 DEF HTTPStep, Unmoved, client, readVars
  <2>. QED
    BY <2>1, UnmovedKeeps
<1>3. CASE Answer
  BY <1>3, AnswerKeeps
<1>4. CASE ReadBody
  BY <1>4, BodyKeeps
<1>5. CASE ReadFrame
  BY <1>5, FrameStepKeeps
<1>6. CASE ReadEnd \/ IdleTimeout
  <2>1. PICK how : EndRead(parse, how)
    BY <1>6 DEF ReadEnd, IdleTimeout
  <2>2. phase = "read" /\ UNCHANGED <<wire, model, streaming, prefix, messages, request, parse, log, screen>>
    BY <1>6 DEF ReadEnd, IdleTimeout, client, readVars
  <2>. QED
    BY <2>1, <2>2, StreamEndKeeps
<1>7. CASE ReadCancelled
  <2>1. phase = "read" /\ phase' = "over" /\ reply' = Cancelled
    BY <1>7 DEF ReadCancelled, Over
  <2>2. UNCHANGED <<wire, model, streaming, prefix, messages, request, parse, log, screen>>
    BY <1>7 DEF ReadCancelled, client, readVars
  <2>. QED
    BY <2>1, <2>2, StreamEndKeeps
<1>8. CASE FallSilent \/ Cancel \/ UNCHANGED vars
  <2>1. Unmoved
    BY <1>8 DEF FallSilent, Cancel, vars, Unmoved, client, readVars
  <2>. QED
    BY <2>1, UnmovedKeeps
<1>. QED
  BY <1>1, <1>2, <1>3, <1>4, <1>5, <1>6, <1>7, <1>8 DEF Next, CallStep

\* Fragments of a call are its own.
LEMMA ArgsOwn ==
  ASSUME NEW id, NEW args \in FragmentsOf(id) PROVE \A j \in DOMAIN args : args[j] = id
  BY DEF FragmentsOf

\* The invariant implies the property.
LEMMA CallInvShows == ASSUME CallInv PROVE ExchangeWhole
<1>1. ShownIsReturned /\ CompleteOnly /\ AnswerWhole(wire, reply) /\ RequestReplayable
  BY DEF CallInv, Held, Returned
<1>2. ASSUME reply.kind = "message", NEW i \in DOMAIN reply.calls
      PROVE  /\ wire = "responses" => reply.calls[i].id # "" /\ reply.calls[i].name # ""
             /\ reply.calls[i].id # "" =>
                  \A j \in DOMAIN reply.calls[i].args : reply.calls[i].args[j] = reply.calls[i].id
  <2> DEFINE c == reply.calls[i]
  <2>1. (wire = "responses" => c.id # "" /\ c.name # "") /\ WholeCall(c)
    BY <1>1, <1>2 DEF AnswerWhole
  <2> HIDE DEF c
  <2>2. c.id # "" => \A j \in DOMAIN c.args : c.args[j] = c.id
    BY <2>1, ArgsOwn DEF WholeCall
  <2>. QED
    BY <2>1, <2>2 DEF c
<1>3. CallsWhole
  BY <1>2 DEF CallsWhole
<1>. QED
  BY <1>1, <1>3 DEF ExchangeWhole, RepliesWhole

(* Whatever is sent, and whatever becomes of the streams, the exchange     *)
(* with the model is whole.                                                *)
THEOREM ExchangeStaysWhole == MCSpec => []ExchangeWhole
<1>1. MCInit => CallInv
  BY CallInvInit, CallAssumption DEF MCInit
<1>2. CallInv /\ [MCNext]_all => CallInv'
  <2> SUFFICES ASSUME CallInv, [MCNext]_all PROVE CallInv'
    OBVIOUS
  <2>1. [Next]_vars
    BY DEF MCNext, all
  <2>. QED
    BY <2>1, CallInvStep, CallAssumption
<1>3. CallInv => ExchangeWhole
  BY CallInvShows
<1>. QED
  BY <1>1, <1>2, <1>3, PTL DEF MCSpec
=============================================================================
