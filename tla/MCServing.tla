------------------------------ MODULE MCServing ------------------------------
(***************************************************************************)
(* What runs inside the event loop of the API and must come to an end, for *)
(* TLC: an orchestrator invocation, the live demo streams, the database    *)
(* pool.  They share no state: a behaviour is one of a single component,   *)
(* which `running` names, while the others stay as they were parked.       *)
(***************************************************************************)
EXTENDS MCOrchestrator, LiveDemo, Pools

VARIABLE running

servingVars == <<running, vars, liveVars, poolVars>>

\* The orchestrator is parked with an empty plan; the others begin in one state.
ServingInit ==
  /\ running \in {"orchestrator", "demo", "pools"}
  /\ Init
  /\ running # "orchestrator" => mode = "stream" /\ plan.size = 0 /\ total = 2
  /\ LiveInit
  /\ PoolInit

ServingNext ==
  /\ UNCHANGED running
  /\ \/ running = "orchestrator" /\ Next /\ UNCHANGED <<liveVars, poolVars>>
     \/ running = "demo" /\ LiveNext /\ UNCHANGED <<vars, poolVars>>
     \/ running = "pools" /\ PoolNext /\ UNCHANGED <<vars, liveVars>>

\* Each component's own fairness; a parked one is not due to move.
ServingSpec ==
  /\ ServingInit
  /\ [][ServingNext]_servingVars
  /\ WF_vars(running = "orchestrator" /\ LoopStep)
  /\ LiveFairness
  /\ PoolFairness
===============================================================================
