---------------------------- MODULE MCSupervisor ----------------------------
(* Supervisor for TLC.  In the chain, step 2 waits for step 1, and the last  *)
(* step runs only if the first completed.  Backwards, the first step waits   *)
(* for the last and runs only if that completed: plan order and dependency   *)
(* order differ.  The dependent step may fail without failing the plan.      *)
EXTENDS Supervisor, TLC

ChainDependsOn == [s \in Step |-> IF s = 2 THEN {1} ELSE {}]
LastNeedsFirst == [s \in Step |-> IF s = NumSteps THEN 1 ELSE 0]
LastOnly == {NumSteps}

BackwardsDependsOn == [s \in Step |-> IF s = 1 THEN {NumSteps} ELSE {}]
FirstNeedsLast == [s \in Step |-> IF s = 1 THEN NumSteps ELSE 0]
FirstOnly == {1}

RunnerSymmetry == Permutations(Runners)
=============================================================================
