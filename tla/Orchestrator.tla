----------------------------- MODULE Orchestrator -----------------------------
(***************************************************************************)
(* mantis/orchestrator: one invoke() or stream() of OrchestratorRuntime.    *)
(* The sub-tasks of a plan run in stages; those of a stage run together     *)
(* and share a BudgetTracker, whose lock is never contended: its methods    *)
(* do not suspend.  A step is the code between two awaits.                  *)
(*                                                                          *)
(* Money is counted in units of _FLOOR_USD, one cent.  What a child answers *)
(* is its status and its cost; outputs and iterations are left out.  The    *)
(* retry loop of _execute_sub_task runs once: no RetryMiddleware is in the  *)
(* chain that invoke builds.                                                *)
(***************************************************************************)
EXTENDS Naturals, FiniteSets, Tally

CONSTANTS
  MaxPlanned,    \* model bound: sub-tasks of a plan before the cap
  Plans,         \* the plans it may return: [size, dependsOn, tier]
  MaxSubTasks,   \* max_sub_tasks
  Budgets,       \* values of budget_limit_usd
  MaxOverrun     \* by how much a child may exceed the budget it was given

Tasks == 1..MaxPlanned  \* the ids a decomposer gives, in its order
Tiers == {"free", "standard", "premium"}

ASSUME OrchestratorAssumption ==
  /\ MaxPlanned \in Nat
  /\ Plans \subseteq [size : 0..MaxPlanned, dependsOn : [Tasks -> SUBSET Tasks], tier : [Tasks -> Tiers]]
  /\ MaxSubTasks \in Nat
  /\ Budgets \subseteq Nat
  /\ MaxOverrun \in Nat

VARIABLES
  mode,      \* "invoke" or "stream"
  plan,      \* what the decomposer returned
  total,     \* BudgetTracker.total_usd
  spent,     \* BudgetTracker._spent_usd: settled spend and open reservations
  pc,        \* "start", "between" two stages, in a "stage", "done", "raised"
  sorted,    \* the sub-tasks that plan.stages has put into a wave
  past,      \* the sub-tasks of the stages that are over
  stage,     \* the sub-tasks of the current stage
  sub,       \* where each sub-task is
  cost,      \* cost_usd of the result a sub-task ended with
  results    \* all_results: the status reported of each sub-task, or "none"

runVars == <<pc, sorted, past, stage, results>>
inputVars == <<mode, plan, total>>
vars == <<inputVars, spent, runVars, sub, cost>>

\* The cap on sub-tasks; a dependency on one that was cut off is ignored.
SubTasks == {t \in 1..plan.size : t <= MaxSubTasks}
DependsOn(t) == plan.dependsOn[t] \cap SubTasks

-------------------------------------------------------------------------------
(***************************************************************************)
(* allocate_budget: 90% of the total in proportion to the tiers' weights    *)
(* (0.5, 2 and 5), and one cent at least.                                   *)
(***************************************************************************)
OfTier(k) == {t \in SubTasks : plan.tier[t] = k}
Weight(t) == CASE plan.tier[t] = "free" -> 1 [] plan.tier[t] = "premium" -> 10 [] OTHER -> 4
TotalWeight ==
  Cardinality(OfTier("free")) + 4 * Cardinality(OfTier("standard"))
    + 10 * Cardinality(OfTier("premium"))
Share(t) == (9 * total * Weight(t)) \div (10 * TotalWeight)
Allocated(t) == IF Share(t) > 1 THEN Share(t) ELSE 1

-------------------------------------------------------------------------------
(***************************************************************************)
(* OrchestrationPlan.stages, Kahn's algorithm in waves.                     *)
(***************************************************************************)
\* Mutated form of Wave: one dependency that is done is enough.
WaveHasty(done) ==
  {t \in SubTasks \ done : DependsOn(t) = {} \/ DependsOn(t) \cap done # {}}

Wave(done) == {t \in SubTasks \ done : DependsOn(t) \subseteq done}

Init ==
  /\ mode \in {"invoke", "stream"}
  /\ plan \in Plans
  /\ total \in Budgets
  /\ spent = 0
  /\ pc = "start"
  /\ sorted = {}
  /\ past = {}
  /\ stage = {}
  /\ sub = [t \in Tasks |-> "waiting"]
  /\ cost = [t \in Tasks |-> 0]
  /\ results = [t \in Tasks |-> "none"]

-------------------------------------------------------------------------------
(***************************************************************************)
(* The loop over the stages.                                                *)
(***************************************************************************)
PlaceWave ==
  /\ pc = "start"
  /\ Wave(sorted) # {}
  /\ sorted' = sorted \cup Wave(sorted)
  /\ UNCHANGED <<inputVars, spent, pc, past, stage, results, sub, cost>>

\* On a cycle plan.stages raises ValueError, before anything has run.
ComputeStages ==
  /\ pc = "start"
  /\ Wave(sorted) = {}
  /\ pc' = IF sorted = SubTasks THEN "between" ELSE "raised"
  /\ UNCHANGED <<inputVars, spent, sorted, past, stage, results, sub, cost>>

BeginStage ==
  /\ pc = "between"
  /\ Wave(past) # {}
  /\ stage' = Wave(past)
  /\ pc' = "stage"
  /\ UNCHANGED <<inputVars, spent, sorted, past, results, sub, cost>>

Over(t) == sub[t] \notin {"waiting", "running"}

\* gather returns; the results of the stage are extended to all_results.
EndStage ==
  /\ pc = "stage"
  /\ \A t \in stage : Over(t)
  /\ results' = [t \in Tasks |-> IF t \in stage THEN sub[t] ELSE results[t]]
  /\ past' = past \cup stage
  /\ stage' = {}
  /\ pc' = "between"
  /\ UNCHANGED <<inputVars, spent, sorted, sub, cost>>

Aggregate ==
  /\ pc = "between"
  /\ Wave(past) = {}
  /\ pc' = "done"
  /\ UNCHANGED <<inputVars, spent, sorted, past, stage, results, sub, cost>>

CancelStage == sub' = [t \in Tasks |-> IF t \in stage /\ ~Over(t) THEN "cancelled" ELSE sub[t]]

\* Mutated forms of StageTimeout: the cancelled stage gets no rows; only the
\* first stage is under the timeout.
StageTimeoutSilent ==
  /\ mode = "invoke"
  /\ pc = "stage"
  /\ CancelStage
  /\ pc' = "done"
  /\ UNCHANGED <<inputVars, spent, sorted, past, stage, results, cost>>

StageTimeoutFirstOnly ==
  /\ mode = "invoke"
  /\ pc = "stage"
  /\ past = {}
  /\ CancelStage
  /\ results' = [t \in Tasks |-> IF t \in stage THEN "timeout" ELSE results[t]]
  /\ pc' = "done"
  /\ UNCHANGED <<inputVars, spent, sorted, past, stage, cost>>

\* invoke only.  Every sub-task of the stage is reported as timed out, those
\* that had completed too; the reservations of the cancelled stay.
StageTimeout ==
  /\ mode = "invoke"
  /\ pc = "stage"
  /\ CancelStage
  /\ results' = [t \in Tasks |-> IF t \in stage THEN "timeout" ELSE results[t]]
  /\ pc' = "done"
  /\ UNCHANGED <<inputVars, spent, sorted, past, stage, cost>>

\* The caller's timeout (a supervisor step's) or a client that is gone.
CallerCancels ==
  /\ pc = "stage"
  /\ CancelStage
  /\ pc' = "raised"
  /\ UNCHANGED <<inputVars, spent, sorted, past, stage, results, cost>>

-------------------------------------------------------------------------------
(***************************************************************************)
(* One sub-task.                                                            *)
(***************************************************************************)
\* gather runs the first steps in the order of the stage, by priority.
IsNextToStart(t) ==
  /\ t \in stage
  /\ sub[t] = "waiting"
  /\ \A u \in stage : u < t => sub[u] # "waiting"

\* Mutated form of CanReserve: what the sub-task asks for is not counted.
CanReserveHasty(amount) == spent <= total

CanReserve(amount) == spent + amount <= total

\* BudgetMiddleware.before, try_reserve; stream has no middleware.
StartSubTask(t) ==
  /\ IsNextToStart(t)
  /\ mode = "stream" \/ CanReserve(Allocated(t))
  /\ sub' = [sub EXCEPT ![t] = "running"]
  /\ spent' = IF mode = "invoke" THEN spent + Allocated(t) ELSE spent
  /\ UNCHANGED <<inputVars, runVars, cost>>

RefuseSubTask(t) ==
  /\ IsNextToStart(t)
  /\ mode = "invoke"
  /\ ~CanReserve(Allocated(t))
  /\ sub' = [sub EXCEPT ![t] = "failed"]
  /\ UNCHANGED <<inputVars, spent, runVars, cost>>

\* get_runtime raises on an unknown runtime type, or one that cannot be imported:
\* nothing catches that, the run ends, and the sub-tasks beside it run on.
FactoryRaises(t) ==
  /\ IsNextToStart(t)
  /\ mode = "stream" \/ CanReserve(Allocated(t))
  /\ sub' = [sub EXCEPT ![t] = "cancelled"]
  /\ spent' = IF mode = "invoke" THEN spent + Allocated(t) ELSE spent
  /\ pc' = "raised"
  /\ UNCHANGED <<inputVars, sorted, past, stage, results, cost>>

\* Mutated forms of Settled: the reservation is released whatever was spent,
\* and then once more; the reservation stays.
SettledTwice(t, actual) ==
  IF mode = "invoke" THEN spent - 2 * Allocated(t) + actual ELSE spent + actual

SettledOnTop(t, actual) == spent + actual

\* BudgetMiddleware.after, settle: release the reservation, add what was spent.
Settled(t, actual) ==
  IF mode = "invoke" THEN (spent - Allocated(t)) + actual ELSE spent + actual

End(t, status, actual) ==
  /\ sub' = [sub EXCEPT ![t] = status]
  /\ cost' = [cost EXCEPT ![t] = actual]
  /\ spent' = Settled(t, actual)

\* The child returns an AgentResult; in stream, also after the stream is gone.
ChildReturns(t) ==
  /\ sub[t] = "running"
  /\ \E status \in {"completed", "failed"}, c \in 0..(Allocated(t) + MaxOverrun) : End(t, status, c)
  /\ UNCHANGED <<inputVars, runVars>>

\* The child raises: a failed result that costs nothing, whatever it had spent.
ChildRaises(t) ==
  /\ sub[t] = "running"
  /\ End(t, "failed", 0)
  /\ UNCHANGED <<inputVars, runVars>>

\* stream catches five kinds of exceptions; any other leaves through gather,
\* ends the stream, and the other sub-tasks run on.
StreamBreaks(t) ==
  /\ mode = "stream"
  /\ sub[t] = "running"
  /\ End(t, "failed", 0)
  /\ pc' = "raised"
  /\ UNCHANGED <<inputVars, sorted, past, stage, results>>

-------------------------------------------------------------------------------
LoopStep == PlaceWave \/ ComputeStages \/ BeginStage \/ EndStage \/ Aggregate \/ StageTimeout

Next ==
  \/ LoopStep
  \/ CallerCancels
  \/ \E t \in Tasks :
       \/ StartSubTask(t) \/ RefuseSubTask(t) \/ FactoryRaises(t)
       \/ ChildReturns(t) \/ ChildRaises(t) \/ StreamBreaks(t)

Spec == Init /\ [][Next]_vars

\* The event loop runs the orchestrator and its timers; no child need answer.
FairSpec == Spec /\ WF_vars(LoopStep)

-------------------------------------------------------------------------------
(***************************************************************************)
(* Properties.                                                              *)
(***************************************************************************)
States == {"waiting", "running", "completed", "failed", "cancelled"}

\* Every variable keeps its type; what the tracker says was spent never becomes
\* negative, however reservations and settlements interleave.
TypeOK ==
  /\ mode \in {"invoke", "stream"}
  /\ plan \in Plans
  /\ total \in Budgets
  /\ spent \in Nat
  /\ pc \in {"start", "between", "stage", "done", "raised"}
  /\ sorted \subseteq SubTasks
  /\ past \subseteq SubTasks
  /\ stage \subseteq SubTasks
  /\ sub \in [Tasks -> States]
  /\ cost \in [Tasks -> Nat]
  /\ results \in [Tasks -> {"none", "completed", "failed", "timeout"}]

\* A sub-task runs only after every sub-task it depends on has ended, in a stage
\* before its own, whatever graph the decomposer returned; of a graph with a
\* cycle nothing runs.
DependenciesFirst ==
  \A t \in SubTasks : sub[t] # "waiting" => \A d \in DependsOn(t) : d \in past /\ Over(d)

Ended == {t \in SubTasks : sub[t] \in {"completed", "failed"}}

\* Sub-tasks that run together never reserve more than the budget: the account
\* exceeds it only by what children spent beyond what they were given.
BudgetHeld == mode = "invoke" => spent <= total + MaxOverrun * Cardinality(Ended)

ReportedStatus ==
  LET reported == {results[t] : t \in {u \in SubTasks : results[u] # "none"}}
  IN  IF reported \subseteq {"completed"} THEN "completed"
      ELSE IF reported \subseteq {"failed", "timeout"} THEN "failed" ELSE "partial_failure"

\* An invocation that is reported as completed has completed every sub-task:
\* a timed-out stage, the stages after it and a refused reservation all show.
CompletedMeansAll ==
  pc = "done" /\ ReportedStatus = "completed" => \A t \in SubTasks : sub[t] = "completed"

Reported == {t \in SubTasks : results[t] \in {"completed", "failed"}}

\* The sum of the reported costs, cent by cent.
ReportedCost == Total(Reported, cost)

\* The cost that is reported is what the tracker holds when every reservation
\* was settled, and never more; it is less only if a stage timed out.
CostReported ==
  pc = "done" /\ mode = "invoke" =>
    /\ ReportedCost <= spent
    /\ (\A t \in SubTasks : results[t] # "timeout") => ReportedCost = spent

\* invoke ends, though no child ever answers.
InvokeEnds == mode = "invoke" ~> pc \in {"done", "raised"}

\* The result's money, in every state of the type above.
ReportSound == TypeOK /\ CostReported
===============================================================================
