------------------------------ MODULE LLMRetry ------------------------------
(***************************************************************************)
(* The request loop of an LLM call: doWithRetry in internal/llm/retry.go   *)
(* for a stream, doJSON in internal/llm/jsonhttp.go for a whole body.  A   *)
(* failure that may pass is tried again after a wait; a refused connection *)
(* (the gateway is restarting) has a longer budget of its own, which the   *)
(* other failures neither use up nor extend.  The caller may cancel.       *)
(*                                                                         *)
(* What the server does with a request is its answer: "ok", "busy" (429,   *)
(* 408, 5xx), "bad" (another status), "overload" (200 with an error that   *)
(* may pass in its body), "refused", "reset" (another network error),      *)
(* "permanent" (unknown host, bad certificate), "headers" (no first byte   *)
(* in time) or "stall" (the cap of one attempt ran out).  How long a wait  *)
(* lasts is left out.                                                      *)
(***************************************************************************)
EXTENDS Integers, Sequences

CONSTANTS
    MaxHTTPAttempts,        \* requests, the refused ones not counted
    MaxConnRefusedAttempts  \* refused connections that are tried again

RetryAssumption ==
    /\ MaxHTTPAttempts \in Nat \ {0}
    /\ MaxConnRefusedAttempts \in Nat
ASSUME RetryAssumption

VARIABLES
    ctx,       \* "live" or "cancelled": the caller's context
    path,      \* "stream" or "json"
    pc,        \* "idle", "send", "wait" (backing off) or "answered"
    tries,     \* the ordinal of the request: attempt, or i + 1
    refused,   \* refused
    answer,    \* what the loop returned, "none" before
    last,      \* history: the server's last answer in this loop
    refusals,  \* history: refused answers in this loop
    failures   \* history: other answers in this loop

retryVars == <<path, pc, tries, refused, answer, last, refusals, failures>>

Answers(p) ==
    {"ok", "busy", "bad", "refused", "reset", "permanent"}
        \cup (IF p = "stream" THEN {"headers"} ELSE {"stall", "overload"})

RetryInit ==
    /\ path = "stream"
    /\ pc = "idle"
    /\ tries = 0
    /\ refused = 0
    /\ answer = "none"
    /\ last = "none"
    /\ refusals = 0
    /\ failures = 0

(* The loop is entered for a new request.                                  *)
BeginRequest(p) ==
    /\ path' = p
    /\ pc' = "send"
    /\ tries' = 1
    /\ refused' = 0
    /\ answer' = "none"
    /\ last' = "none"
    /\ refusals' = 0
    /\ failures' = 0

(* The loop's variables are gone when it has returned.                     *)
EndRequest ==
    /\ pc' = "idle"
    /\ tries' = 0
    /\ refused' = 0
    /\ answer' = "none"
    /\ last' = "none"
    /\ refusals' = 0
    /\ failures' = 0
    /\ UNCHANGED path

(* Fault: a wait for the first byte that timed out is tried again.         *)
RetryableNetErrHeaders == {"reset", "stall", "headers"}

(* Errors and replies that are worth another request.  Waiting for the     *)
(* first byte is never repeated.                                           *)
RetryableNetErr == {"reset", "stall"}
RetryableReply == {"busy", "overload"}

(* Fault: refused connections eat the generic budget.                      *)
GenericShared == tries

(* The generic attempt: refused connections must not eat this budget.      *)
Generic == tries - refused

Answered(a) == pc' = "answered" /\ answer' = a
Backoff == pc' = "wait" /\ UNCHANGED answer

Refuse ==
    /\ last' = "refused"
    /\ refused' = refused + 1
    /\ refusals' = refusals + 1
    /\ UNCHANGED failures
    /\ IF refused' > MaxConnRefusedAttempts THEN Answered("refused") ELSE Backoff

(* Anything but a refused connection.                                      *)
Respond(a) ==
    /\ last' = a
    /\ failures' = failures + 1
    /\ UNCHANGED <<refused, refusals>>
    /\ IF a \in RetryableNetErr \cup RetryableReply /\ Generic < MaxHTTPAttempts
       THEN Backoff ELSE Answered(a)

(* One request and what comes of it.                                       *)
Attempt ==
    /\ pc = "send"
    /\ ctx = "live"
    /\ \/ Refuse
       \/ \E a \in Answers(path) \ {"refused"} : Respond(a)
    /\ UNCHANGED <<ctx, path, tries>>

(* The wait ends.  The JSON loop is bounded by both budgets together.      *)
Resume ==
    /\ pc = "wait"
    /\ ctx = "live"
    /\ tries' = tries + 1
    /\ IF path = "json" /\ tries' > MaxHTTPAttempts + MaxConnRefusedAttempts
       THEN Answered("tail")
       ELSE pc' = "send" /\ UNCHANGED answer
    /\ UNCHANGED <<ctx, path, refused, last, refusals, failures>>

(* The context is checked before a request, during a wait and by the       *)
(* request itself.                                                         *)
GiveUp ==
    /\ pc \in {"send", "wait"}
    /\ ctx = "cancelled"
    /\ Answered("cancelled")
    /\ UNCHANGED <<ctx, path, tries, refused, last, refusals, failures>>

RetryNext == Attempt \/ Resume \/ GiveUp

-----------------------------------------------------------------------------
(* What the two budgets promise, whatever the order in which the failures  *)
(* come: a gateway that stays down is given up after its own budget and    *)
(* not before, a gateway that keeps failing after its own, a wait for the  *)
(* first byte ends the loop, and the tail of doJSON is never reached.      *)
BudgetsSeparate ==
    /\ answer = "refused" => refusals = MaxConnRefusedAttempts + 1
    /\ answer \in RetryableReply \cup {"reset", "stall"} => failures = MaxHTTPAttempts
    /\ failures <= MaxHTTPAttempts
    /\ refusals <= MaxConnRefusedAttempts + 1
    /\ last = "headers" => pc = "answered"
    /\ answer # "tail"
=============================================================================
