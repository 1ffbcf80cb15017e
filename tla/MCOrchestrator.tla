---------------------------- MODULE MCOrchestrator ----------------------------
(* Orchestrator for TLC: every graph on three sub-tasks, cyclic ones too,    *)
(* with equal and with mixed tiers; the empty plan; and a chain of four that *)
(* is cut to three.                                                          *)
EXTENDS Orchestrator

Equal == [t \in Tasks |-> "standard"]
Mixed == [t \in Tasks |-> IF t = 1 THEN "premium" ELSE IF t = 2 THEN "free" ELSE "standard"]
Chain == [t \in Tasks |-> IF t = 4 THEN {3} ELSE IF t = 1 THEN {4} ELSE {t - 1}]
Graphs == {g \in [Tasks -> SUBSET (1..3)] : g[4] = {} /\ \A t \in 1..3 : t \notin g[t]}

SmallPlans ==
  [size : {3}, dependsOn : Graphs, tier : {Equal, Mixed}]
    \cup [size : {4}, dependsOn : {Chain}, tier : {Mixed}]
    \cup [size : {0}, dependsOn : {Chain}, tier : {Equal}]
===============================================================================
