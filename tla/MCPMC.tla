-------------------------------- MODULE MCPMC --------------------------------
(***************************************************************************)
(* The run of ext/mcp and of the grants that are kept in files: MCPStdio   *)
(* and MCPHttp, the two transports of a server's tools, and Grants, the    *)
(* remembered approvals and the trusted workspaces.  A behaviour is one of *)
(* the three; the variables of the others stay as they start.              *)
(***************************************************************************)
EXTENDS MCPStdio

CONSTANTS MaxTokens, MaxExpiries, MaxRevokes, Callers, Processes, Keys, Workspaces, MaxCrashes

VARIABLES part,
          kind, shared, file, src, post, cli, issued, live, good, refused, posted, budget,
          about, home, op, rules, trusted, secure, mu, flock, crashes

httpVars == <<kind, shared, file, src, post, cli, issued, live, good, refused, posted, budget>>
grantVars == <<about, home, op, rules, trusted, secure, mu, flock, crashes>>
all == <<part, vars, httpVars, grantVars>>

H == INSTANCE MCPHttp WITH call <- post, ran <- posted, left <- budget
G == INSTANCE Grants

\* Calls are numbers, of which 1 stands for the engine that calls share; nobody is no
\* caller.
ASSUME MCPAssumption ==
    /\ Calls \subseteq Nat \ {0} /\ 1 \in Calls
    /\ MaxStarts \in Nat /\ MaxTokens \in Nat \ {0}
    /\ G!Nobody \notin Callers

(***************************************************************************)
(* One of the three                                                        *)
(***************************************************************************)

NoHttp == H!Init /\ kind = "static" /\ shared = TRUE

NoGrants ==
    /\ G!Init /\ about = "approvals"
    /\ \A c \in Callers : home[c] = CHOOSE p \in Processes : TRUE

NoStdio == Init /\ timed = TRUE

MCInit ==
    \/ part = "stdio" /\ Init /\ NoHttp /\ NoGrants
    \/ part = "http" /\ NoStdio /\ H!Init /\ NoGrants
    \/ part = "grants" /\ NoStdio /\ NoHttp /\ G!Init

MCNext ==
    /\ UNCHANGED part
    /\ \/ part = "stdio" /\ Next /\ UNCHANGED <<httpVars, grantVars>>
       \/ part = "http" /\ H!Next /\ UNCHANGED <<vars, grantVars>>
       \/ part = "grants" /\ G!Next /\ UNCHANGED <<vars, httpVars>>

MCSpec ==
    /\ MCInit /\ [][MCNext]_all
    /\ WF_vars(part = "stdio" /\ ((\E c \in Calls : Steps(c)) \/ \E p \in Procs : Serves(p)))
    /\ WF_httpVars(part = "http" /\ \E c \in Calls : H!Steps(c))

\* A stdio server: no process runs but the one in use, none starts after Close, and a
\* process has one call between its request and its answer.  Over HTTP: no token leaves
\* for another server, nothing the server may have run is sent again, the second try has
\* another token, a dead refresh token is not tried twice, the file keeps up with the
\* engine and a login takes its own callback only.  A lock of the approvals is held
\* only by a call that is inside.
ServersKept ==
    /\ OneProcess /\ OneExchange
    /\ part = "http" =>
         /\ H!TokenIsTheServers /\ H!RunsOnce /\ H!RetryIsFresh /\ H!FileKeepsUp
         /\ H!DeadRefreshOnce /\ H!LoginIsMine
    /\ part = "grants" => G!LocksHeld

\* Both transports keep the promise of every transport: a call ends once, with its own
\* answer or an error.
Transports == TransportSpec /\ H!TransportSpec

\* What a person remembered stays until somebody decides about that very call.
RulesKept == G!RulesKept

\* Every call of a tool ends: the server dies, is silent or asks first; another call
\* holds the process or the mutex of the tokens.
EveryCallEnds ==
    []<>(/\ \A c \in Calls : call[c].pc \in {"idle", "done"}
         /\ \A c \in Calls : post[c].pc \in {"idle", "done"})
=============================================================================
