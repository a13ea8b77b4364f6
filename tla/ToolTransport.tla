---------------------------- MODULE ToolTransport ----------------------------
(***************************************************************************)
(* What a transport of ext/mcp promises its callers (the interface         *)
(* toolTransport, callTool): a call ends once, with the answer the server  *)
(* gave to this call or with an error, and no answer comes from a server   *)
(* that did not run the call.  A call may run twice, because a transport   *)
(* sends it again when its connection broke.                               *)
(***************************************************************************)
EXTENDS Naturals

CONSTANT Calls
VARIABLES
    phase,   \* for each call "idle", "running" or "done"
    result,  \* "none", "own" or "error"
    ran      \* how often the server ran it

vars == <<phase, result, ran>>

Init ==
    /\ phase = [c \in Calls |-> "idle"]
    /\ result = [c \in Calls |-> "none"]
    /\ ran = [c \in Calls |-> 0]

CallTool(c) ==
    /\ phase[c] = "idle"
    /\ phase' = [phase EXCEPT ![c] = "running"]
    /\ UNCHANGED <<result, ran>>

\* A server may run a call whose caller has given up.
Run(c) ==
    /\ phase[c] # "idle" /\ ran[c] < 2
    /\ ran' = [ran EXCEPT ![c] = @ + 1]
    /\ UNCHANGED <<phase, result>>

Return(c) ==
    /\ phase[c] = "running"
    /\ \E r \in {"own", "error"} :
          /\ r = "own" => ran[c] > 0
          /\ result' = [result EXCEPT ![c] = r]
    /\ phase' = [phase EXCEPT ![c] = "done"]
    /\ UNCHANGED ran

Next == \E c \in Calls : CallTool(c) \/ Run(c) \/ Return(c)

Spec == Init /\ [][Next]_vars
=============================================================================
