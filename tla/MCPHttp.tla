------------------------------ MODULE MCPHttp ------------------------------
(***************************************************************************)
(* An MCP server over HTTP, the tokens its calls carry, and the login that *)
(* `mow mcp login` saves (ext/mcp/http.go, auth.go, oauth.go).  Every      *)
(* engine has a token source of its own with a mutex; the saved grant is   *)
(* one file.  A source reads it once and then keeps what it read.          *)
(*                                                                         *)
(* The resource server and the authorization server are external.  A token *)
(* is its number, and its refresh token has the same one.                  *)
(*                                                                         *)
(* An operator whose comment starts with "Fault:" is a wrong version of    *)
(* the definition below it, used to see that a property notices.           *)
(***************************************************************************)
EXTENDS Integers, Sequences, FiniteSets

CONSTANTS
    Calls,        \* the calls, 1..n
    MaxTokens,    \* bound: tokens the authorization server issues
    MaxExpiries,  \* bound: tokens that come near their expiry
    MaxRevokes    \* bound: tokens the servers stop accepting

VARIABLES
    kind,    \* auth.type: "static", "client", "login" or "oauth"
    shared,  \* the calls are of one engine
    file,    \* the saved grant
    src,     \* the token sources
    call,    \* the calls
    cli,     \* `mow mcp login`
    issued,  \* tokens issued so far
    live,    \* access tokens the resource server accepts
    good,    \* refresh tokens the authorization server accepts
    refused, \* how often it refused each refresh token
    ran,     \* how often the server ran each call
    left     \* what is left of the bounds

vars == <<kind, shared, file, src, call, cli, issued, live, good, refused, ran, left>>
servers == <<issued, live, good, refused>>

None == 0
Foreign == MaxTokens + 1   \* a grant for the server of another URL
Tokens == 1..Foreign

\* kind "login" is oauth2_device_code and oauth2_auth_code, which ask a person;
\* "client" is oauth2_client_credentials; "static" a bearer token.
Kinds == {"static", "client", "login", "oauth"}

NoGrant == [at |-> "none", tok |-> None, ref |-> None, fresh |-> FALSE]
Saved(at, t) == [at |-> at, tok |-> t, ref |-> t, fresh |-> TRUE]

\* newTokenSource: nothing is loaded, nobody holds the mutex.
Source == [mu |-> None, has |-> FALSE, tok |-> None, ref |-> None, fresh |-> FALSE]
Of(c) == IF shared THEN 1 ELSE c

Init ==
    /\ kind \in Kinds /\ shared \in BOOLEAN
    /\ file \in (IF kind = "oauth" THEN {NoGrant, Saved("mine", 1), Saved("other", Foreign)} ELSE {NoGrant})
    /\ src = [s \in Calls |-> Source]
    /\ call = [c \in Calls |-> [pc |-> "idle", try |-> 1, tok |-> None, bad |-> None, res |-> "none"]]
    /\ cli = "idle"
    /\ issued = 1 /\ live = {1} /\ good = {1}
    /\ refused = [t \in Tokens |-> 0]
    /\ ran = [c \in Calls |-> 0]
    /\ left = [expiries |-> MaxExpiries, revokes |-> MaxRevokes]

Goto(c, pc) == call' = [call EXCEPT ![c].pc = pc]
Finish(c, r) ==
    call' = [call EXCEPT ![c] = [pc |-> "done", try |-> 1, tok |-> None, bad |-> None, res |-> r]]

\* The deferred unlock of the mutex.
\* Fault: a call that fails keeps it.
KeepsLock(s) == src
Unlocked(s) == [src EXCEPT ![s].mu = None]

\* newRequest has its token: the request may go.
Carry(c, t) == call' = [call EXCEPT ![c].pc = "send", ![c].tok = t]

(***************************************************************************)
(* tokenSource                                                             *)
(***************************************************************************)

\* apply: a static token needs no mutex.
Apply(c) ==
    /\ call[c].pc = "auth"
    /\ IF kind = "static" THEN Carry(c, 1) /\ src' = src
       ELSE /\ src[Of(c)].mu = None
            /\ src' = [src EXCEPT ![Of(c)].mu = c]
            /\ Goto(c, "token")
    /\ UNCHANGED <<kind, shared, file, cli, servers, ran, left>>

\* normalizeServerURL of the grant and of the server.
\* Fault: the grant is used whatever server it is of.
AnyGrant(g) == g.at # "none"
Pinned(g) == g.at = "mine"

\* The source as the call finds it: the first use of an oauth source reads the
\* file.
Loaded(s) ==
    IF kind = "oauth" /\ ~src[s].has
    THEN [src[s] EXCEPT !.has = TRUE, !.tok = file.tok, !.ref = file.ref, !.fresh = file.fresh]
    ELSE src[s]

\* Without a usable token, where the next one comes from.
Wanted(r) ==
    CASE kind = "client" -> "grant"
      [] kind # "client" /\ r.ref # None -> "refresh"
      [] kind = "login" /\ r.ref = None -> "person"
      [] OTHER -> "error"

Token(c) ==
    LET s == Of(c)
        r == Loaded(s)
    IN  /\ call[c].pc = "token"
        /\ IF kind = "oauth" /\ ~src[s].has /\ ~Pinned(file)
           THEN Finish(c, "error") /\ src' = Unlocked(s)
           ELSE IF r.tok # None /\ r.fresh
           THEN Carry(c, r.tok) /\ src' = [src EXCEPT ![s] = [r EXCEPT !.mu = None]]
           ELSE IF Wanted(r) = "error"
           THEN Finish(c, "error") /\ src' = [src EXCEPT ![s] = [r EXCEPT !.mu = None]]
           ELSE Goto(c, Wanted(r)) /\ src' = [src EXCEPT ![s] = r]
        /\ UNCHANGED <<kind, shared, file, cli, servers, ran, left>>

\* The authorization server answers with token t.
Issue(t, old, rotates) ==
    /\ issued < MaxTokens /\ t = issued + 1 /\ issued' = t
    /\ live' = live \cup {t}
    /\ good' = IF rotates THEN (good \ {old}) \cup {t} ELSE good
    /\ refused' = refused

\* store, and what oauthAccessToken does of it: a refresh token that was not
\* rotated is kept.
Stored(r, t, rotates) ==
    [r EXCEPT !.tok = t, !.fresh = TRUE, !.ref = IF rotates THEN t ELSE @]

\* saveOAuthStore after a refresh.
\* Fault: the file keeps the refresh token it had.
KeepsOld(r) == [file EXCEPT !.tok = r.tok, !.fresh = TRUE]
Written(r) == [at |-> "mine", tok |-> r.tok, ref |-> r.ref, fresh |-> r.fresh]

\* client_credentials, the person of a device or browser login, or a refresh is
\* answered with a token.
Granted(c, rotates) ==
    LET s == Of(c)
        r == Stored(src[s], issued + 1, rotates)
    IN  /\ \/ call[c].pc = "grant" /\ ~rotates
           \/ call[c].pc = "person"
           \/ call[c].pc = "refresh" /\ src[s].ref \in good
        /\ Issue(issued + 1, src[s].ref, rotates)
        /\ src' = [src EXCEPT ![s] = [r EXCEPT !.mu = None]]
        /\ \/ Carry(c, r.tok) /\ file' = IF kind = "oauth" THEN Written(r) ELSE file
           \/ kind = "oauth" /\ file' = file /\ Finish(c, "error")   \* the save failed
        /\ UNCHANGED <<kind, shared, cli, ran, left>>

\* tryRefresh forgets a refresh token that was refused.
\* Fault: it is kept for the next expiry.
KeepRefresh(s) == src[s].ref
AfterRefusal(s) == IF kind = "login" THEN None ELSE src[s].ref

\* tryRefresh falls back to the person, oauthAccessToken asks for a new login.
Refused(c) ==
    LET s == Of(c)
    IN  /\ call[c].pc = "refresh" /\ src[s].ref \notin good
        /\ refused' = [refused EXCEPT ![src[s].ref] = @ + 1]
        /\ IF kind = "login" THEN Goto(c, "person") ELSE Finish(c, "error")
        /\ src' = [src EXCEPT ![s].ref = AfterRefusal(s), ![s].mu = IF kind = "login" THEN @ ELSE None]
        /\ UNCHANGED <<kind, shared, file, cli, issued, live, good, ran, left>>

\* The refresh did not reach the server or its answer was lost.
RefreshLost(c) ==
    LET s == Of(c)
    IN  /\ call[c].pc = "refresh"
        /\ IF kind = "login" THEN Goto(c, "person") /\ src' = src
           ELSE Finish(c, "error") /\ src' = Unlocked(s)
        /\ \/ UNCHANGED servers
           \/ good' = good \ {src[s].ref} /\ UNCHANGED <<issued, live, refused>>
        /\ UNCHANGED <<kind, shared, file, cli, ran, left>>

\* The login is refused, expires, or the call's time is over; the token endpoint
\* answers client_credentials with an error.
LoginFails(c) ==
    /\ call[c].pc \in {"grant", "person"}
    /\ Finish(c, "error") /\ src' = Unlocked(Of(c))
    /\ UNCHANGED <<kind, shared, file, cli, servers, ran, left>>

(***************************************************************************)
(* httpTransport.call                                                      *)
(***************************************************************************)

Call(c) ==
    /\ call[c].pc = "idle" /\ Goto(c, "auth")
    /\ UNCHANGED <<kind, shared, file, src, cli, servers, ran, left>>

\* idMatch
\* Fault: the first message of the stream is the answer.
AnyId(f, c) == TRUE
IdMatch(f, c) == f.id = c

\* readSSEResult: the first message with the call's id, or the stream ends.
ReadSSE(stream, c) ==
    LET mine == {i \in DOMAIN stream : IdMatch(stream[i], c)}
        first == CHOOSE i \in mine : \A j \in mine : i <= j
    IN  CASE mine = {} -> "error"
          [] mine # {} /\ stream[first].kind = "reply" -> "own"
          [] OTHER -> "foreign"

\* What the server may put before its answer.  Its own requests count from
\* another start than the calls do.
Streams(c) ==
    LET note == [kind |-> "note", id |-> None]
        ask == [kind |-> "request", id |-> -1]
        own == [kind |-> "reply", id |-> c]
    IN  {<<own>>, <<note, own>>, <<ask, own>>, <<note>>}

\* The request is accepted and run.
Runs(c) ==
    /\ call[c].pc = "send" /\ call[c].tok \in live
    /\ ran' = [ran EXCEPT ![c] = @ + 1]
    /\ Goto(c, "sent")
    /\ UNCHANGED <<kind, shared, file, src, cli, servers, left>>

\* The answer comes as JSON or as a stream, is an error status, or is lost.
Answer(c) ==
    /\ call[c].pc = "sent"
    /\ \/ \E r \in {"own", "error"} : Finish(c, r)
       \/ \E stream \in Streams(c) : Finish(c, ReadSSE(stream, c))
       \/ Goto(c, "http500")
    /\ UNCHANGED <<kind, shared, file, src, cli, servers, ran, left>>

\* The request is refused before it runs.
Unauthorized(c) ==
    /\ call[c].pc = "send" /\ call[c].tok \notin live
    /\ Goto(c, "http401")
    /\ UNCHANGED <<kind, shared, file, src, cli, servers, ran, left>>

Unsent(c) ==
    /\ call[c].pc = "send" /\ Finish(c, "error")
    /\ UNCHANGED <<kind, shared, file, src, cli, servers, ran, left>>

\* Only a request that did not run is sent again, and once.
\* Fault: any error status is.
ResendAny(c) == call[c].pc \in {"http401", "http500"} /\ call[c].try = 1
Resend(c) == call[c].pc = "http401" /\ call[c].try = 1

\* The expiry is forced under the mutex of the source.
\* Fault: the second request takes the token there is.
ForceNothing(s) == src
Forced(s) == [src EXCEPT ![s].fresh = FALSE]

Again(c) ==
    /\ Resend(c) /\ src[Of(c)].mu = None
    /\ src' = Forced(Of(c))
    /\ call' = [call EXCEPT ![c].pc = "auth", ![c].try = 2, ![c].bad = call[c].tok]
    /\ UNCHANGED <<kind, shared, file, cli, servers, ran, left>>

Status(c) ==
    /\ call[c].pc \in {"http401", "http500"} /\ ~Resend(c)
    /\ Finish(c, "error")
    /\ UNCHANGED <<kind, shared, file, src, cli, servers, ran, left>>

(***************************************************************************)
(* mow mcp login                                                           *)
(***************************************************************************)

\* discoverOAuth: the server must ask for a token; its metadata, if it has any,
\* must be about this server; the authorization server must be documented, or
\* the server is of the protocol version that had fixed endpoints, and must not
\* exclude PKCE.
Discovered(d) ==
    /\ d.asks
    /\ d.resource # "other"
    /\ d.server = "pkce" \/ (d.server = "undocumented" /\ d.resource = "none")
Found == [asks : BOOLEAN, resource : {"none", "mine", "other"}, server : {"pkce", "plain", "undocumented"}]

LoginStarts ==
    /\ cli = "idle" /\ kind = "oauth"
    /\ \E d \in Found, registered \in BOOLEAN :
          cli' = IF Discovered(d) /\ registered THEN "browser" ELSE "failed"
    /\ UNCHANGED <<kind, shared, file, src, call, servers, ran, left>>

\* The callback handler: the first outcome counts, and only a request with the
\* state of this login carries its code.
\* Fault: the state is not looked at.
AnyState(q) == IF q.denied THEN "failed" ELSE IF q.code THEN "exchange" ELSE "failed"
Outcome(q) == IF q.state # "mine" THEN "failed" ELSE IF q.denied \/ ~q.code THEN "failed" ELSE "exchange"

Queries == [state : {"mine", "other"}, denied : BOOLEAN, code : BOOLEAN]
Callback ==
    /\ cli = "browser"
    /\ \/ \E q \in Queries : cli' = IF Outcome(q) = "exchange" /\ q.state = "other" THEN "strange" ELSE Outcome(q)
       \/ cli' = "failed"      \* ten minutes, or interrupted
    /\ UNCHANGED <<kind, shared, file, src, call, servers, ran, left>>

\* The code is exchanged and the grant saved, whatever engines are running.
LoginEnds ==
    /\ cli \in {"exchange", "strange"}
    /\ \/ /\ Issue(issued + 1, None, TRUE)
          /\ file' = Saved("mine", issued + 1)
          /\ cli' = IF cli = "strange" THEN "wrong" ELSE "done"
       \/ cli' = "failed" /\ UNCHANGED <<issued, live, good, refused, file>>
    /\ UNCHANGED <<kind, shared, src, call, ran, left>>

\* mow mcp logout
Logout ==
    /\ cli = "idle" /\ file.at # "none"
    /\ cli' = "done" /\ file' = NoGrant
    /\ UNCHANGED <<kind, shared, src, call, servers, ran, left>>

(***************************************************************************)
(* The environment                                                         *)
(***************************************************************************)

\* A token comes near its expiry.
Expire(t) ==
    /\ left.expiries > 0 /\ t \in live
    /\ left' = [left EXCEPT !.expiries = @ - 1]
    /\ src' = [s \in Calls |-> [src[s] EXCEPT !.fresh = @ /\ src[s].tok # t]]
    /\ file' = [file EXCEPT !.fresh = @ /\ file.tok # t]
    /\ UNCHANGED <<kind, shared, call, cli, servers, ran>>

\* An access token is withdrawn, with its refresh token or without.
Revoke(t) ==
    /\ left.revokes > 0 /\ t \in live
    /\ left' = [left EXCEPT !.revokes = @ - 1]
    /\ live' = live \ {t}
    /\ \/ good' = good
       \/ good' = good \ {t}
    /\ UNCHANGED <<kind, shared, file, src, call, cli, issued, refused, ran>>

Steps(c) ==
    \/ Apply(c) \/ Token(c) \/ Refused(c) \/ RefreshLost(c) \/ LoginFails(c)
    \/ Runs(c) \/ Answer(c) \/ Unauthorized(c) \/ Unsent(c) \/ Again(c) \/ Status(c)
    \/ \E rotates \in BOOLEAN : Granted(c, rotates)

Next ==
    \/ \E c \in Calls : Call(c) \/ Steps(c)
    \/ LoginStarts \/ Callback \/ LoginEnds \/ Logout
    \/ \E t \in Tokens : Expire(t) \/ Revoke(t)

\* A goroutine runs on, and every request has a timeout.
Spec == Init /\ [][Next]_vars /\ WF_vars(\E c \in Calls : Steps(c))

(***************************************************************************)
(* Properties                                                              *)
(***************************************************************************)

TypeOK ==
    /\ file.at \in {"none", "mine", "other"} /\ file.tok \in {None} \cup Tokens
    /\ \A s \in Calls : src[s].mu \in Calls \cup {None} /\ src[s].tok \in {None} \cup Tokens
    /\ cli \in {"idle", "browser", "exchange", "strange", "wrong", "done", "failed"}
    /\ live \subseteq 1..issued /\ good \subseteq 1..issued

\* A request carries a token of its own server: a grant saved for another URL
\* under the same name never leaves the machine.
TokenIsTheServers == \A c \in Calls : call[c].tok # Foreign

\* A call that the server may have run is not sent again: a tool over HTTP runs
\* at most once.
RunsOnce == \A c \in Calls : ran[c] <= 1

\* The second request of a refused call does not carry the refused token again,
\* whatever the other calls of the engine did meanwhile.
RetryIsFresh ==
    \A c \in Calls : (call[c].pc = "send" /\ call[c].bad # None /\ kind # "static") => call[c].tok # call[c].bad

\* What an engine keeps can be found again by the next one: while nobody logs in
\* or out beside it, the file holds the refresh token the engine would use next,
\* unless the save failed, which ended a call with an error.
FileKeepsUp ==
    (kind = "oauth" /\ shared /\ cli \notin {"done"} /\ src[1].has /\ \A c \in Calls : call[c].res # "error")
    => file.ref = src[1].ref

\* A refresh token that was refused is not tried again before the person is
\* asked (tryRefresh: "so the next expiry does not retry a dead refresh").
DeadRefreshOnce == kind = "login" => \A t \in Tokens : refused[t] <= 1

\* A grant is saved for the code of this login's own callback only.
LoginIsMine == cli # "wrong"

\* Every call ends, also one that waits for another's refresh or login.
CallsEnd == \A c \in Calls : call[c].pc = "auth" ~> call[c].pc = "done"

\* What a caller sees of the calls.
Phases == [c \in Calls |-> IF call[c].pc \in {"idle", "done"} THEN call[c].pc ELSE "running"]
Results == [c \in Calls |-> call[c].res]

\* The HTTP transport keeps the promise of every transport.
T == INSTANCE ToolTransport WITH phase <- Phases, result <- Results
TransportSpec == T!Spec
=============================================================================
