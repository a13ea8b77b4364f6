------------------------------ MODULE EngineRunMC ------------------------------
(***************************************************************************)
(* The run of EngineRun.  What a host may do is split into three uses, which *)
(* keeps the graph small enough for the temporal properties: it steers a run *)
(* and cancels runs, steers one run twice, or closes the engine twice, gives *)
(* up on a prompt of its own and registers a cleanup late.                   *)
(***************************************************************************)
EXTENDS EngineRun

CONSTANTS p1, p2, s1, s2

VARIABLE use

Calm ==
  UNCHANGED <<kpc, fpc>> /\ \A p \in Prompts : cause'[p] # "parent" /\ res'[p] # "overflow"

\* A run answers, or its batch ends it, in its first turn.
OneTurn == \A p \in Prompts : turns'[p] = 0

Within(kind) ==
  CASE kind = "steering" -> Calm /\ OneTurn /\ spc'[s2] = "idle"
    [] kind = "queueing" ->
         /\ Calm /\ UNCHANGED cpc /\ pc'[p2] = "idle"
         /\ spc'[s2] # "idle" => spc[s1] # "idle"
    [] kind = "closing"  -> OneTurn /\ UNCHANGED <<spc, cpc>>

MCInit == Init /\ use \in {"steering", "queueing", "closing"}

MCNext == Next /\ UNCHANGED use /\ res'[p2] # "tools" /\ Within(use)

MCSpec == MCInit /\ [][MCNext]_<<vars, use>> /\ Fairness

\* What was begun ends: a cancelled run, whatever call or batch is in flight, and
\* after Close every cleanup that was registered.
RunsEnd == CancelEndsRun /\ CleanupsRun
================================================================================
