-------------------------- MODULE OrchestratorProofs --------------------------
(***************************************************************************)
(* Theorems about Orchestrator, for every plan, budget and overrun.         *)
(***************************************************************************)
EXTENDS Orchestrator, Sums

\* The actions of a sub-task leave the sets of the loop alone.
SubTaskStep(t) ==
  \/ StartSubTask(t) \/ RefuseSubTask(t) \/ FactoryRaises(t)
  \/ ChildReturns(t) \/ ChildRaises(t) \/ StreamBreaks(t)

-------------------------------------------------------------------------------
(***************************************************************************)
(* Order: sub-tasks are over once their stage is, stages follow the graph.  *)
(***************************************************************************)
Shape ==
  /\ plan \in Plans
  /\ sub \in [Tasks -> States]
  /\ pc \in {"start", "between", "stage", "done", "raised"}
  /\ pc \in {"start", "between"} => stage = {}
  /\ stage \subseteq SubTasks
  /\ past \subseteq SubTasks

Order ==
  /\ \A t \in past : Over(t)
  /\ \A t \in Tasks : sub[t] # "waiting" => t \in past \cup stage
  /\ \A t \in past \cup stage : DependsOn(t) \subseteq past

OrderInv == Shape /\ Order

\* The cap only removes: a sub-task is one of the tasks of the plan.
LEMMA SubTasksAreTasks == ASSUME plan \in Plans PROVE SubTasks \subseteq Tasks
BY OrchestratorAssumption DEF SubTasks, Tasks

LEMMA InitOrder == Init => OrderInv
BY SubTasksAreTasks DEF Init, OrderInv, Shape, Order, States

\* plan never changes, so neither do the sub-tasks and their dependencies.
LEMMA SamePlan ==
  ASSUME plan' = plan
  PROVE  /\ SubTasks' = SubTasks
         /\ \A t : DependsOn(t)' = DependsOn(t)
         /\ \A S : Wave(S)' = Wave(S)
BY DEF SubTasks, DependsOn, Wave

LEMMA OrderStep == OrderInv /\ [Next]_vars => OrderInv'
<1> SUFFICES ASSUME OrderInv, [Next]_vars PROVE OrderInv'
  OBVIOUS
<1> USE SubTasksAreTasks DEF OrderInv, Shape, Order, Over, States
<1>0. plan' = plan
  BY DEF Next, LoopStep, vars, inputVars, PlaceWave, ComputeStages, BeginStage, EndStage,
         Aggregate, StageTimeout, CallerCancels, StartSubTask, RefuseSubTask, FactoryRaises,
         ChildReturns, ChildRaises, StreamBreaks
<1>s. SubTasks' = SubTasks /\ \A t : DependsOn(t)' = DependsOn(t)
  BY <1>0, SamePlan
<1>1. CASE UNCHANGED vars
  BY <1>0, <1>1, <1>s DEF vars, runVars
<1>2. CASE PlaceWave
  BY <1>0, <1>2, <1>s DEF PlaceWave
<1>3. CASE ComputeStages
  BY <1>0, <1>3, <1>s DEF ComputeStages
<1>4. CASE BeginStage
  <2>1. /\ stage' = Wave(past) /\ past' = past /\ sub' = sub /\ pc' = "stage" /\ stage = {}
    BY <1>4 DEF BeginStage
  <2>2. \A t \in Wave(past) : t \in SubTasks /\ DependsOn(t) \subseteq past
    BY DEF Wave
  <2> QED BY <1>0, <1>s, <2>1, <2>2
<1>5. CASE EndStage
  BY <1>0, <1>5, <1>s DEF EndStage
<1>6. CASE Aggregate
  BY <1>0, <1>6, <1>s DEF Aggregate
<1>7. CASE StageTimeout \/ CallerCancels
  <2>1. /\ CancelStage /\ past' = past /\ stage' = stage /\ pc' \in {"done", "raised"}
    BY <1>7 DEF StageTimeout, CallerCancels
  <2>2. sub' \in [Tasks -> States] /\ \A t \in Tasks : sub'[t] = sub[t] \/ t \in stage
    BY <2>1 DEF CancelStage
  <2>3. \A t \in past : sub'[t] \notin {"waiting", "running"}
    BY <2>1 DEF CancelStage
  <2> QED BY <1>0, <1>s, <2>1, <2>2, <2>3
<1>8. ASSUME NEW t \in Tasks, SubTaskStep(t) PROVE OrderInv'
  <2>1. /\ past' = past /\ stage' = stage /\ pc' \in {pc, "raised"}
    BY <1>8 DEF SubTaskStep, StartSubTask, RefuseSubTask, FactoryRaises, ChildReturns,
                ChildRaises, StreamBreaks, runVars
  <2>2. sub[t] = "running" \/ (t \in stage /\ sub[t] = "waiting")
    BY <1>8 DEF SubTaskStep, StartSubTask, RefuseSubTask, FactoryRaises, ChildReturns,
                ChildRaises, StreamBreaks, IsNextToStart
  <2>3. sub' \in {[sub EXCEPT ![t] = s] : s \in States}
    <3>1. CASE StartSubTask(t)
      BY <3>1 DEF StartSubTask
    <3>2. CASE RefuseSubTask(t)
      BY <3>2 DEF RefuseSubTask
    <3>3. CASE FactoryRaises(t)
      BY <3>3 DEF FactoryRaises
    <3>4. CASE ChildReturns(t)
      <4>1. PICK s \in {"completed", "failed"} : sub' = [sub EXCEPT ![t] = s]
        BY <3>4 DEF ChildReturns, End
      <4> QED BY <4>1
    <3>5. CASE ChildRaises(t) \/ StreamBreaks(t)
      BY <3>5 DEF ChildRaises, StreamBreaks, End
    <3> QED BY <1>8, <3>1, <3>2, <3>3, <3>4, <3>5 DEF SubTaskStep
  <2>4. /\ sub' \in [Tasks -> States]
        /\ \A u \in Tasks : u # t => sub'[u] = sub[u]
    BY <2>3
  <2>5. t \notin past
    BY <2>2
  <2>6. t \in stage
    BY <2>2
  <2> QED BY <1>0, <1>s, <2>1, <2>4, <2>5, <2>6
<1> QED
  BY <1>1, <1>2, <1>3, <1>4, <1>5, <1>6, <1>7, <1>8 DEF Next, LoopStep, SubTaskStep

\* DependenciesFirst for every dependency graph: no sub-task runs before what it
\* depends on has ended in an earlier stage.
THEOREM DependenciesComeFirst == Spec => []DependenciesFirst
<1>1. OrderInv => DependenciesFirst
  BY SubTasksAreTasks DEF OrderInv, Shape, Order, DependenciesFirst
<1> QED BY InitOrder, OrderStep, <1>1, PTL DEF Spec
-------------------------------------------------------------------------------
(***************************************************************************)
(* The budget: an account that only a settled sub-task can overdraw.        *)
(***************************************************************************)
BudgetInv == spent \in Int /\ total \in Nat /\ BudgetHeld

LEMMA WeightsAddUp ==
  ASSUME plan \in Plans, NEW t \in SubTasks
  PROVE  TotalWeight \in Nat /\ TotalWeight >= 1
<1>1. IsFiniteSet(SubTasks)
  <2>1. IsFiniteSet(Tasks)
    BY OrchestratorAssumption, FS_Interval DEF Tasks
  <2> QED BY <2>1, SubTasksAreTasks, FS_Subset
<1>2. \A k : IsFiniteSet(OfTier(k)) /\ Cardinality(OfTier(k)) \in Nat
  BY <1>1, FS_Subset, FS_CardinalityType DEF OfTier
<1>3. plan.tier[t] \in Tiers /\ t \in OfTier(plan.tier[t])
  BY SubTasksAreTasks, OrchestratorAssumption DEF OfTier
<1>4. Cardinality(OfTier(plan.tier[t])) # 0
  BY <1>2, <1>3, FS_EmptySet
<1> QED BY <1>2, <1>3, <1>4 DEF TotalWeight, Tiers

LEMMA AllocatedIsNat ==
  ASSUME plan \in Plans, total \in Nat, NEW t \in SubTasks
  PROVE  Allocated(t) \in Nat
<1>1. Weight(t) \in Nat
  BY DEF Weight
<1>2. 9 * total * Weight(t) \in Nat /\ 10 * TotalWeight \in Nat /\ 10 * TotalWeight > 0
  BY <1>1, WeightsAddUp
<1>3. \A a, b \in Nat : b > 0 => a \div b \in Nat
  OBVIOUS
<1>4. Share(t) \in Nat
  BY <1>2, <1>3 DEF Share
<1> QED BY <1>4 DEF Allocated

\* One more sub-task that has ended may have overrun once more.
LEMMA Overrun ==
  ASSUME NEW k \in Nat
  PROVE  MaxOverrun * k \in Nat /\ MaxOverrun * (k + 1) = MaxOverrun * k + MaxOverrun
BY OrchestratorAssumption

LEMMA EndedIsFinite ==
  ASSUME plan \in Plans PROVE IsFiniteSet(Ended) /\ Cardinality(Ended) \in Nat
<1>1. IsFiniteSet(Tasks)
  BY OrchestratorAssumption, FS_Interval DEF Tasks
<1>2. Ended \subseteq Tasks
  BY SubTasksAreTasks DEF Ended
<1> QED BY <1>1, <1>2, FS_Subset, FS_CardinalityType

\* A sub-task that ends adds itself, and only itself.
LEMMA EndedGrows ==
  ASSUME OrderInv, NEW t \in SubTasks, NEW s \in {"completed", "failed"}, plan' = plan,
         sub' = [sub EXCEPT ![t] = s], t \notin Ended
  PROVE  /\ Cardinality(Ended') = Cardinality(Ended) + 1
         /\ Cardinality(Ended) \in Nat
<1>1. Ended' = Ended \cup {t}
  BY SubTasksAreTasks, SamePlan DEF Ended, OrderInv, Shape
<1> QED BY <1>1, EndedIsFinite, FS_AddElement DEF OrderInv, Shape

LEMMA BudgetStep == OrderInv /\ BudgetInv /\ [Next]_vars => BudgetInv'
<1> SUFFICES ASSUME OrderInv, BudgetInv, [Next]_vars PROVE BudgetInv'
  OBVIOUS
<1>p. plan \in Plans
  BY DEF OrderInv, Shape
<1>i. plan' = plan /\ total' = total /\ mode' = mode
  BY DEF Next, LoopStep, vars, inputVars, PlaceWave, ComputeStages, BeginStage, EndStage,
         Aggregate, StageTimeout, CallerCancels, StartSubTask, RefuseSubTask, FactoryRaises,
         ChildReturns, ChildRaises, StreamBreaks
<1>s. SubTasks' = SubTasks
  BY <1>i, SamePlan
<1>1. ASSUME spent' = spent, Ended' = Ended PROVE BudgetInv'
  BY <1>1, <1>i DEF BudgetInv, BudgetHeld
<1>2. CASE UNCHANGED vars
  BY <1>1, <1>2, <1>s DEF vars, Ended
<1>3. CASE PlaceWave \/ ComputeStages \/ BeginStage \/ EndStage \/ Aggregate
  BY <1>1, <1>3, <1>s DEF PlaceWave, ComputeStages, BeginStage, EndStage, Aggregate, Ended
<1>4. CASE StageTimeout \/ CallerCancels
  <2>1. spent' = spent /\ CancelStage
    BY <1>4 DEF StageTimeout, CallerCancels
  <2>2. Ended' = Ended
    BY <1>s, <1>p, <2>1, SubTasksAreTasks DEF CancelStage, Ended, Over
  <2> QED BY <1>1, <2>1, <2>2
<1>5. ASSUME NEW t \in Tasks, SubTaskStep(t) PROVE BudgetInv'
  <2>1. t \in SubTasks /\ sub[t] \in {"running", "waiting"}
    BY <1>5 DEF SubTaskStep, StartSubTask, RefuseSubTask, FactoryRaises, ChildReturns,
                ChildRaises, StreamBreaks, IsNextToStart, OrderInv, Shape, Order
  <2>2. Allocated(t) \in Nat /\ t \notin Ended
    BY <2>1, <1>p, AllocatedIsNat DEF BudgetInv, Ended
  <2>3. Cardinality(Ended) \in Nat
    BY <1>p, EndedIsFinite
  <2>4. ASSUME NEW s \in {"running", "cancelled"}, sub' = [sub EXCEPT ![t] = s]
        PROVE  Ended' = Ended
    BY <2>1, <2>4, <1>s, <1>p, SubTasksAreTasks DEF Ended, OrderInv, Shape
  <2>5. CASE StartSubTask(t) \/ FactoryRaises(t)
    <3>1. Ended' = Ended
      BY <2>4, <2>5 DEF StartSubTask, FactoryRaises
    <3>2. mode = "invoke" => spent' = spent + Allocated(t) /\ spent' <= total
      BY <2>5 DEF StartSubTask, FactoryRaises, CanReserve
    <3>3. mode # "invoke" => spent' = spent
      BY <2>5 DEF StartSubTask, FactoryRaises
    <3>4. MaxOverrun * Cardinality(Ended) \in Nat
      BY <2>3, Overrun
    <3> QED BY <3>1, <3>2, <3>3, <3>4, <2>2, <1>i DEF BudgetInv, BudgetHeld
  <2>6. ASSUME NEW s \in {"completed", "failed"}, sub' = [sub EXCEPT ![t] = s],
               spent' \in Int, mode = "invoke" => spent' <= spent + MaxOverrun
        PROVE  BudgetInv'
    <3>1. Cardinality(Ended') = Cardinality(Ended) + 1
      BY <2>1, <2>2, <2>6, <1>i, EndedGrows
    <3>2. MaxOverrun * Cardinality(Ended') = MaxOverrun * Cardinality(Ended) + MaxOverrun
      BY <3>1, <2>3, Overrun
    <3>3. MaxOverrun \in Nat /\ MaxOverrun * Cardinality(Ended) \in Nat
      BY <2>3, Overrun, OrchestratorAssumption
    <3>4. mode = "invoke" => spent' <= total + MaxOverrun * Cardinality(Ended')
      BY <2>6, <3>2, <3>3 DEF BudgetInv, BudgetHeld
    <3> QED BY <2>6, <3>4, <1>i DEF BudgetInv, BudgetHeld
  <2>7. CASE RefuseSubTask(t)
    BY <2>6, <2>7, OrchestratorAssumption DEF RefuseSubTask, BudgetInv
  <2>8. ASSUME NEW s \in {"completed", "failed"}, NEW c \in 0..(Allocated(t) + MaxOverrun),
               End(t, s, c)
        PROVE  BudgetInv'
    <3>1. sub' = [sub EXCEPT ![t] = s] /\ spent' = Settled(t, c)
      BY <2>8 DEF End
    <3>2. spent' \in Int /\ (mode = "invoke" => spent' <= spent + MaxOverrun)
      BY <3>1, <2>2, <2>8, OrchestratorAssumption DEF Settled, BudgetInv
    <3> QED BY <2>6, <3>1, <3>2
  <2>9. CASE ChildReturns(t)
    BY <2>8, <2>9 DEF ChildReturns
  <2>10. CASE ChildRaises(t) \/ StreamBreaks(t)
    <3>1. 0 \in 0..(Allocated(t) + MaxOverrun)
      BY <2>2, OrchestratorAssumption
    <3> QED BY <2>8, <2>10, <3>1 DEF ChildRaises, StreamBreaks
  <2> QED BY <1>5, <2>5, <2>7, <2>9, <2>10 DEF SubTaskStep
<1> QED
  BY <1>2, <1>3, <1>4, <1>5 DEF Next, LoopStep, SubTaskStep

LEMMA InitBudget == Init => BudgetInv
<1> SUFFICES ASSUME Init PROVE BudgetInv
  OBVIOUS
<1>1. plan \in Plans /\ spent = 0 /\ total \in Nat
  BY OrchestratorAssumption DEF Init
<1>2. MaxOverrun * Cardinality(Ended) \in Nat
  BY <1>1, EndedIsFinite, Overrun
<1> QED BY <1>1, <1>2 DEF BudgetInv, BudgetHeld

\* BudgetHeld for every budget and every allocation: concurrent sub-tasks never
\* reserve more than the total.
THEOREM BudgetIsHeld == Spec => []BudgetHeld
<1>1. BudgetInv => BudgetHeld
  BY DEF BudgetInv
<1> QED BY InitOrder, OrderStep, InitBudget, BudgetStep, <1>1, PTL DEF Spec

-------------------------------------------------------------------------------
(***************************************************************************)
(* The report: what ends an invocation is the last stage or a timeout.      *)
(***************************************************************************)
\* Every sub-task of S waits for another one of S.
Stuck(S) == \A t \in S : DependsOn(t) \cap S # {}

ReportInv ==
  /\ \A S \in SUBSET SubTasks : Stuck(S) => S \cap sorted = {}
  /\ sorted \subseteq SubTasks
  /\ pc \in {"between", "stage", "done"} => sorted = SubTasks
  /\ pc = "stage" => stage # {}
  /\ stage \cap past = {}
  /\ results \in [Tasks -> {"none", "timeout"} \cup States]
  /\ \A t \in past : results[t] = sub[t]
  /\ pc = "done" => past = SubTasks \/ \E t \in SubTasks : results[t] = "timeout"

LEMMA InitReport == Init => ReportInv
BY DEF Init, ReportInv, States

\* When no wave is left, the stages had room for every sub-task.
LEMMA NothingLeft ==
  ASSUME OrderInv, ReportInv, pc = "between", Wave(past) = {} PROVE past = SubTasks
<1>1. SubTasks \ past \in SUBSET SubTasks /\ Stuck(SubTasks \ past)
  BY DEF Stuck, Wave, DependsOn
<1>2. (SubTasks \ past) \cap sorted = {} /\ sorted = SubTasks
  BY <1>1 DEF ReportInv
<1> QED BY <1>2 DEF OrderInv, Shape

LEMMA ReportStep == OrderInv /\ ReportInv /\ [Next]_vars => ReportInv'
<1> SUFFICES ASSUME OrderInv, ReportInv, [Next]_vars PROVE ReportInv'
  OBVIOUS
<1> USE SubTasksAreTasks DEF OrderInv, Shape, ReportInv, States
<1>0. plan' = plan
  BY DEF Next, LoopStep, vars, inputVars, PlaceWave, ComputeStages, BeginStage, EndStage,
         Aggregate, StageTimeout, CallerCancels, StartSubTask, RefuseSubTask, FactoryRaises,
         ChildReturns, ChildRaises, StreamBreaks
<1>s. SubTasks' = SubTasks /\ \A S : Stuck(S)' <=> Stuck(S)
  BY <1>0, SamePlan DEF Stuck
<1>1. CASE UNCHANGED vars
  BY <1>1, <1>s DEF vars, runVars
<1>2. CASE PlaceWave
  <2>1. sorted' = sorted \cup Wave(sorted) /\ UNCHANGED <<pc, past, stage, results, sub>>
    BY <1>2 DEF PlaceWave
  <2>2. ASSUME NEW S \in SUBSET SubTasks, Stuck(S) PROVE S \cap Wave(sorted) = {}
    BY <2>2 DEF Stuck, Wave
  <2>3. Wave(sorted) \subseteq SubTasks /\ pc = "start"
    BY <1>2 DEF Wave, PlaceWave
  <2> QED BY <1>s, <2>1, <2>2, <2>3
<1>3. CASE ComputeStages
  BY <1>3, <1>s DEF ComputeStages
<1>4. CASE BeginStage
  <2>1. stage' = Wave(past) /\ Wave(past) # {} /\ pc' = "stage" /\ pc = "between"
        /\ UNCHANGED <<sorted, past, results, sub>>
    BY <1>4 DEF BeginStage
  <2>2. Wave(past) \cap past = {}
    BY DEF Wave
  <2> QED BY <1>s, <2>1, <2>2
<1>5. CASE EndStage
  BY <1>5, <1>s DEF EndStage
<1>6. CASE Aggregate
  <2>1. past = SubTasks
    BY <1>6, NothingLeft DEF Aggregate
  <2> QED BY <1>6, <1>s, <2>1 DEF Aggregate
<1>7. ASSUME CancelStage PROVE \A t \in past : sub'[t] = sub[t]
  BY <1>7 DEF CancelStage
<1>8. CASE StageTimeout
  <2>1. \A t \in stage : results'[t] = "timeout"
    BY <1>8 DEF StageTimeout
  <2> QED BY <1>7, <1>8, <1>s, <2>1 DEF StageTimeout
<1>9. CASE CallerCancels
  BY <1>7, <1>9, <1>s DEF CallerCancels
<1>10. ASSUME NEW t \in Tasks, SubTaskStep(t) PROVE ReportInv'
  <2>1. UNCHANGED <<sorted, past, stage, results>> /\ pc' \in {pc, "raised"}
    BY <1>10 DEF SubTaskStep, StartSubTask, RefuseSubTask, FactoryRaises, ChildReturns,
                 ChildRaises, StreamBreaks, runVars
  <2>2. sub[t] \in {"running", "waiting"}
    BY <1>10 DEF SubTaskStep, StartSubTask, RefuseSubTask, FactoryRaises, ChildReturns,
                 ChildRaises, StreamBreaks, IsNextToStart
  <2>3. \A u \in Tasks : u # t => sub'[u] = sub[u]
    BY <1>10 DEF SubTaskStep, StartSubTask, RefuseSubTask, FactoryRaises, ChildReturns,
                 ChildRaises, StreamBreaks, End
  <2>4. \A u \in past : sub'[u] = sub[u]
    BY <2>2, <2>3 DEF Order, Over
  <2> QED BY <1>s, <2>1, <2>4
<1> QED
  BY <1>1, <1>2, <1>3, <1>4, <1>5, <1>6, <1>8, <1>9, <1>10 DEF Next, LoopStep, SubTaskStep

\* CompletedMeansAll for every plan: no timeout, refusal or stage that never ran
\* hides behind the status "completed".
THEOREM CompletedIsHonest == Spec => []CompletedMeansAll
<1>1. OrderInv /\ ReportInv => CompletedMeansAll
  <2> SUFFICES ASSUME OrderInv, ReportInv, pc = "done", ReportedStatus = "completed",
                      NEW t \in SubTasks
               PROVE  sub[t] = "completed"
    BY DEF CompletedMeansAll
  <2>1. {results[u] : u \in {v \in SubTasks : results[v] # "none"}} \subseteq {"completed"}
    BY DEF ReportedStatus
  <2>2. \A u \in SubTasks : results[u] \in {"none", "completed"}
    BY <2>1
  <2>3. past = SubTasks
    BY <2>2 DEF ReportInv
  <2>4. results[t] = sub[t] /\ sub[t] \in States
    BY <2>3, SubTasksAreTasks DEF ReportInv, OrderInv, Shape
  <2> QED BY <2>2, <2>4 DEF States
<1> QED BY InitOrder, OrderStep, InitReport, ReportStep, <1>1, PTL DEF Spec

-------------------------------------------------------------------------------
(***************************************************************************)
(* The money of an invocation.  The tracker holds what the running          *)
(* sub-tasks reserved and what the others cost; a reservation that nobody   *)
(* will settle is one of a cancelled sub-task, and those show.              *)
(***************************************************************************)
Held == [t \in SubTasks |-> IF sub[t] = "running" THEN Allocated(t) ELSE cost[t]]

NoneCancelled == \A t \in SubTasks : sub[t] # "cancelled"

Timed == \E t \in SubTasks : results[t] = "timeout"

PurseInv ==
  /\ mode \in {"invoke", "stream"} /\ total \in Budgets
  /\ cost \in [Tasks -> Nat]
  /\ results \in [Tasks -> {"none", "completed", "failed", "timeout"}]
  /\ \A t \in Tasks : sub[t] \notin {"completed", "failed"} => cost[t] = 0
  /\ NoneCancelled \/ pc = "raised" \/ (pc = "done" /\ Timed)

AccountInv ==
  /\ spent \in Nat
  /\ mode = "invoke" =>
       /\ Total(SubTasks, Held) <= spent
       /\ NoneCancelled => Total(SubTasks, Held) = spent

\* What a sub-task does to the money: it reserves, it is refused, it ends.
Reserves(t, s) ==
  /\ sub[t] = "waiting" /\ sub' = [sub EXCEPT ![t] = s] /\ cost' = cost
  /\ spent' = (IF mode = "invoke" THEN spent + Allocated(t) ELSE spent)

Refused(t) ==
  /\ sub[t] = "waiting" /\ sub' = [sub EXCEPT ![t] = "failed"]
  /\ cost' = cost /\ spent' = spent

Ends(t) ==
  /\ sub[t] = "running"
  /\ \E s \in {"completed", "failed"}, c \in Nat : End(t, s, c)

LEMMA MoneySteps ==
  ASSUME OrderInv, total \in Nat, NEW t \in Tasks, SubTaskStep(t)
  PROVE  /\ t \in SubTasks
         /\ pc' \in {pc, "raised"} /\ results' = results
         /\ \/ Reserves(t, "running")
            \/ Reserves(t, "cancelled") /\ pc' = "raised"
            \/ Refused(t)
            \/ Ends(t)
<1>1. t \in SubTasks
  BY DEF SubTaskStep, StartSubTask, RefuseSubTask, FactoryRaises, ChildReturns, ChildRaises,
         StreamBreaks, IsNextToStart, OrderInv, Shape, Order
<1>2. Allocated(t) + MaxOverrun \in Nat
  BY <1>1, AllocatedIsNat, OrchestratorAssumption DEF OrderInv, Shape
<1>3. CASE StartSubTask(t)
  BY <1>1, <1>3 DEF StartSubTask, IsNextToStart, Reserves, runVars
<1>4. CASE FactoryRaises(t)
  BY <1>1, <1>4 DEF FactoryRaises, IsNextToStart, Reserves
<1>5. CASE RefuseSubTask(t)
  BY <1>1, <1>5 DEF RefuseSubTask, IsNextToStart, Refused, runVars
<1>6. CASE ChildReturns(t)
  BY <1>1, <1>2, <1>6 DEF ChildReturns, Ends, runVars
<1>7. CASE ChildRaises(t) \/ StreamBreaks(t)
  BY <1>1, <1>7 DEF ChildRaises, StreamBreaks, Ends, runVars
<1> QED
  BY <1>3, <1>4, <1>5, <1>6, <1>7 DEF SubTaskStep

LEMMA InputsStay == [Next]_vars => UNCHANGED inputVars
BY DEF Next, LoopStep, vars, inputVars, PlaceWave, ComputeStages, BeginStage, EndStage,
       Aggregate, StageTimeout, CallerCancels, StartSubTask, RefuseSubTask, FactoryRaises,
       ChildReturns, ChildRaises, StreamBreaks

\* A cancelled sub-task leaves a trace: the invocation raises or reports a timeout.
LEMMA PurseStep == OrderInv /\ BudgetInv /\ ReportInv /\ PurseInv /\ [Next]_vars => PurseInv'
<1> SUFFICES ASSUME OrderInv, BudgetInv, ReportInv, PurseInv, [Next]_vars PROVE PurseInv'
  OBVIOUS
<1>i. plan' = plan /\ total' = total /\ mode' = mode
  BY InputsStay DEF inputVars
<1>s. SubTasks' = SubTasks /\ SubTasks \subseteq Tasks
  BY <1>i, SamePlan, SubTasksAreTasks DEF OrderInv, Shape
<1> USE DEF PurseInv, NoneCancelled, Timed
<1>1. CASE UNCHANGED vars
  BY <1>1, <1>s DEF vars, runVars, inputVars
<1>2. CASE PlaceWave \/ ComputeStages \/ BeginStage
  BY <1>2, <1>i, <1>s DEF PlaceWave, ComputeStages, BeginStage
<1>3. CASE Aggregate
  BY <1>3, <1>i, <1>s DEF Aggregate
<1>4. CASE EndStage
  <2>1. /\ sub' = sub /\ cost' = cost /\ pc = "stage" /\ pc' = "between"
        /\ results' = [t \in Tasks |-> IF t \in stage THEN sub[t] ELSE results[t]]
    BY <1>4 DEF EndStage
  <2>2. \A t \in stage : sub[t] \in {"completed", "failed"}
    BY <1>4, <1>s DEF EndStage, Over, OrderInv, Shape, States
  <2> QED
    BY <1>i, <1>s, <2>1, <2>2
<1>5. CASE StageTimeout \/ CallerCancels
  <2>1. /\ CancelStage /\ cost' = cost
        /\ \/ results' = [t \in Tasks |-> IF t \in stage THEN "timeout" ELSE results[t]] /\ pc' = "done"
           \/ results' = results /\ pc' = "raised"
        /\ stage # {} /\ stage \subseteq SubTasks
    BY <1>5 DEF StageTimeout, CallerCancels, ReportInv, OrderInv, Shape
  <2>2. \A t \in Tasks : sub'[t] \in {"completed", "failed"} <=> sub[t] \in {"completed", "failed"}
    BY <2>1 DEF CancelStage, Over
  <2> QED
    BY <1>i, <1>s, <2>1, <2>2
<1>6. ASSUME NEW t \in Tasks, SubTaskStep(t) PROVE PurseInv'
  <2>0. sub \in [Tasks -> States]
    BY DEF OrderInv, Shape
  <2>1. /\ t \in SubTasks /\ pc' \in {pc, "raised"} /\ results' = results
        /\ Reserves(t, "running") \/ (Reserves(t, "cancelled") /\ pc' = "raised") \/ Refused(t) \/ Ends(t)
    BY <1>6, MoneySteps DEF BudgetInv
  <2>2. CASE Reserves(t, "running")
    BY <1>i, <1>s, <2>0, <2>1, <2>2 DEF Reserves
  <2>3. CASE Reserves(t, "cancelled") /\ pc' = "raised"
    BY <1>i, <1>s, <2>0, <2>1, <2>3 DEF Reserves
  <2>4. CASE Refused(t)
    BY <1>i, <1>s, <2>0, <2>1, <2>4 DEF Refused
  <2>5. CASE Ends(t)
    <3>1. PICK s \in {"completed", "failed"}, c \in Nat :
            sub' = [sub EXCEPT ![t] = s] /\ cost' = [cost EXCEPT ![t] = c]
      BY <2>5 DEF Ends, End
    <3> QED
      BY <1>i, <1>s, <2>0, <2>1, <3>1
  <2> QED
    BY <2>1, <2>2, <2>3, <2>4, <2>5
<1> QED
  BY <1>1, <1>2, <1>3, <1>4, <1>5, <1>6 DEF Next, LoopStep, SubTaskStep

LEMMA HeldIsNumber ==
  ASSUME OrderInv, PurseInv
  PROVE  IsFiniteSet(SubTasks) /\ \A t \in SubTasks : Held[t] \in Nat
<1>1. SubTasks \subseteq Tasks /\ plan \in Plans /\ total \in Nat
  BY SubTasksAreTasks, OrchestratorAssumption DEF OrderInv, Shape, PurseInv
<1>2. IsFiniteSet(SubTasks)
  <2>1. IsFiniteSet(Tasks)
    BY OrchestratorAssumption, FS_Interval DEF Tasks
  <2> QED
    BY <1>1, <2>1, FS_Subset
<1>3. ASSUME NEW t \in SubTasks PROVE Held[t] \in Nat
  BY <1>1, AllocatedIsNat DEF Held, PurseInv
<1> QED
  BY <1>2, <1>3

HeldNumbers == IsFiniteSet(SubTasks) /\ \A t \in SubTasks : Held[t] \in Nat

LEMMA HeldAreNumbers == OrderInv /\ PurseInv => HeldNumbers
BY HeldIsNumber DEF HeldNumbers

\* The arithmetic of one sub-task: h and g are what it held and holds, T and U
\* the sums, x and y the account.
LEMMA Balance ==
  ASSUME NEW T \in Nat, NEW U \in Nat, NEW h \in Nat, NEW g \in Nat, NEW x \in Nat,
         NEW y, y = (x - h) + g, T + g = U + h, T <= x
  PROVE  y \in Nat /\ U <= y /\ (T = x => U = y)
OBVIOUS

\* What is reserved adds to the account, what ends is settled at its cost: the
\* account keeps covering what the sub-tasks hold.
LEMMA AccountStep ==
  ASSUME OrderInv, BudgetInv, ReportInv, PurseInv, AccountInv, [Next]_vars, OrderInv', PurseInv'
  PROVE  AccountInv'
<1> DEFINE T == Total(SubTasks, Held)
           U == Total(SubTasks, Held')
<1>i. plan' = plan /\ total' = total /\ mode' = mode
  BY InputsStay DEF inputVars
<1>s. /\ SubTasks' = SubTasks /\ SubTasks \subseteq Tasks
      /\ \A t : Allocated(t)' = Allocated(t)
  BY <1>i, SamePlan, SubTasksAreTasks
     DEF OrderInv, Shape, Allocated, Share, TotalWeight, Weight, OfTier
<1>h. /\ \A t \in SubTasks : Held[t] = (IF sub[t] = "running" THEN Allocated(t) ELSE cost[t])
      /\ \A t \in SubTasks : Held'[t] = (IF sub'[t] = "running" THEN Allocated(t) ELSE cost'[t])
  BY <1>s DEF Held
<1>n. HeldNumbers /\ HeldNumbers'
  <2>1. HeldNumbers
    BY HeldAreNumbers
  <2>2. HeldNumbers'
    BY HeldAreNumbers, PTL
  <2> QED
    BY <2>1, <2>2
<1>f. /\ IsFiniteSet(SubTasks)
      /\ \A t \in SubTasks : Held[t] \in Nat
      /\ \A t \in SubTasks : Held'[t] \in Nat
  BY <1>n, <1>s DEF HeldNumbers
<1>t. T \in Nat /\ U \in Nat
  BY <1>f, TotalIsNat
<1>g. AccountInv' <=> /\ spent' \in Nat
                      /\ mode = "invoke" => U <= spent' /\ (NoneCancelled' => U = spent')
  BY <1>i, <1>s DEF AccountInv
<1>a. spent \in Nat /\ (mode = "invoke" => T <= spent /\ (NoneCancelled => T = spent))
  BY DEF AccountInv
<1>1. ASSUME sub' = sub, cost' = cost, spent' = spent PROVE AccountInv'
  <2>1. \A t \in SubTasks : Held'[t] = Held[t]
    BY <1>1, <1>h
  <2>2. U = T
    BY <2>1, SameTotal
  <2> QED
    BY <1>1, <1>g, <1>a, <1>s, <2>2 DEF NoneCancelled
<1>2. CASE UNCHANGED vars
  BY <1>1, <1>2 DEF vars
<1>3. CASE PlaceWave \/ ComputeStages \/ BeginStage \/ EndStage \/ Aggregate
  BY <1>1, <1>3 DEF PlaceWave, ComputeStages, BeginStage, EndStage, Aggregate
<1>4. CASE StageTimeout \/ CallerCancels
  <2>1. spent' = spent /\ cost' = cost /\ CancelStage
    BY <1>4 DEF StageTimeout, CallerCancels
  <2>2. \A t \in SubTasks : sub'[t] = sub[t] \/ (sub'[t] = "cancelled" /\ ~Over(t))
    BY <1>s, <2>1 DEF CancelStage
  <2>3. \A t \in SubTasks : ~Over(t) => cost[t] = 0
    BY <1>s DEF PurseInv, Over
  <2>4. \A t \in SubTasks : Held'[t] <= Held[t]
    BY <1>h, <1>f, <2>1, <2>2, <2>3
  <2>5. U <= T
    BY <1>f, <2>4, TotalIsMonotone
  <2>6. ASSUME NoneCancelled' PROVE U = T /\ NoneCancelled
    <3>1. \A t \in SubTasks : sub'[t] = sub[t]
      BY <1>s, <2>2, <2>6 DEF NoneCancelled
    <3>2. \A t \in SubTasks : Held'[t] = Held[t]
      BY <1>h, <2>1, <3>1
    <3> QED
      BY <1>s, <2>6, <3>1, <3>2, SameTotal DEF NoneCancelled
  <2> QED
    BY <1>g, <1>a, <1>t, <2>1, <2>5, <2>6
<1>5. ASSUME NEW t \in Tasks, SubTaskStep(t) PROVE AccountInv'
  <2>0. sub \in [Tasks -> States] /\ cost \in [Tasks -> Nat]
    BY DEF OrderInv, Shape, PurseInv
  <2>1. /\ t \in SubTasks
        /\ Reserves(t, "running") \/ (Reserves(t, "cancelled") /\ pc' = "raised") \/ Refused(t) \/ Ends(t)
    BY <1>5, MoneySteps DEF BudgetInv
  <2>2. Allocated(t) \in Nat
    BY <2>1, AllocatedIsNat DEF BudgetInv, OrderInv, Shape
  <2>3. cost[t] = 0 \/ sub[t] \in {"completed", "failed"}
    BY DEF PurseInv
  <2>4. ASSUME \A u \in SubTasks \ {t} : sub'[u] = sub[u] /\ cost'[u] = cost[u]
        PROVE  T + Held'[t] = U + Held[t]
    <3>1. \A u \in SubTasks \ {t} : Held[u] = Held'[u]
      BY <1>h, <2>4
    <3> QED
      BY <1>f, <2>1, <3>1, TotalMoves
  <2>5. ASSUME \A u \in SubTasks \ {t} : sub'[u] = sub[u] /\ cost'[u] = cost[u],
               sub[t] # "cancelled", spent' \in Nat,
               mode = "invoke" => spent' = (spent - Held[t]) + Held'[t]
        PROVE  AccountInv'
    <3>1. NoneCancelled' => NoneCancelled
      BY <1>s, <2>5 DEF NoneCancelled
    <3>2. T + Held'[t] = U + Held[t]
      BY <2>4, <2>5
    <3>3. mode = "invoke" => U <= spent' /\ (T = spent => U = spent')
      BY <1>t, <1>f, <1>a, <2>1, <2>5, <3>2, Balance
    <3> QED
      BY <1>g, <1>a, <2>5, <3>1, <3>3
  <2>6. CASE Reserves(t, "running")
    <3>1. sub'[t] = "running" /\ cost' = cost /\ \A u \in SubTasks \ {t} : sub'[u] = sub[u]
      BY <1>s, <2>0, <2>1, <2>6 DEF Reserves
    <3>2. Held[t] = 0 /\ Held'[t] = Allocated(t)
      BY <1>h, <2>1, <2>3, <2>6, <3>1 DEF Reserves
    <3> QED
      BY <1>a, <2>2, <2>5, <2>6, <3>1, <3>2 DEF Reserves
  <2>7. CASE Reserves(t, "cancelled") /\ pc' = "raised"
    <3>1. sub'[t] = "cancelled" /\ cost' = cost /\ \A u \in SubTasks \ {t} : sub'[u] = sub[u]
      BY <1>s, <2>0, <2>1, <2>7 DEF Reserves
    <3>2. Held[t] = 0 /\ Held'[t] = 0
      BY <1>h, <2>1, <2>3, <2>7, <3>1 DEF Reserves
    <3>3. U = T
      BY <1>t, <2>4, <3>1, <3>2
    <3>4. ~NoneCancelled'
      BY <1>s, <2>1, <3>1 DEF NoneCancelled
    <3> QED
      BY <1>g, <1>a, <1>t, <2>2, <2>7, <3>3, <3>4 DEF Reserves
  <2>8. CASE Refused(t)
    <3>1. sub'[t] = "failed" /\ cost' = cost /\ \A u \in SubTasks \ {t} : sub'[u] = sub[u]
      BY <1>s, <2>0, <2>1, <2>8 DEF Refused
    <3>2. Held[t] = 0 /\ Held'[t] = 0
      BY <1>h, <2>1, <2>3, <2>8, <3>1 DEF Refused
    <3> QED
      BY <1>a, <2>5, <2>8, <3>1, <3>2 DEF Refused
  <2>9. CASE Ends(t)
    <3>1. PICK s \in {"completed", "failed"}, c \in Nat : End(t, s, c)
      BY <2>9 DEF Ends
    <3>2. /\ sub'[t] = s /\ cost'[t] = c /\ sub[t] = "running"
          /\ \A u \in SubTasks \ {t} : sub'[u] = sub[u] /\ cost'[u] = cost[u]
      BY <1>s, <2>0, <2>1, <2>9, <3>1 DEF End, Ends
    <3>3. Held[t] = Allocated(t) /\ Held'[t] = c
      BY <1>h, <2>1, <3>2
    <3>4. spent' = (IF mode = "invoke" THEN (spent - Allocated(t)) + c ELSE spent + c)
      BY <3>1 DEF End, Settled
    <3>5. mode = "invoke" => spent' \in Nat
      <4>1. T + c = U + Allocated(t)
        BY <2>4, <3>2, <3>3
      <4> QED
        BY <1>t, <1>a, <2>2, <3>4, <4>1, Balance
    <3> QED
      BY <1>a, <2>2, <2>5, <3>2, <3>3, <3>4, <3>5
  <2> QED
    BY <2>1, <2>6, <2>7, <2>8, <2>9
<1> QED
  BY <1>2, <1>3, <1>4, <1>5 DEF Next, LoopStep, SubTaskStep

\* The report's money, for every plan, budget and overrun: no status, timeout or
\* cancellation makes the reported cost exceed the account, and it is the whole
\* account when no stage timed out.
THEOREM ReportIsSound == Spec => []ReportSound
<1> DEFINE AllInv == OrderInv /\ BudgetInv /\ ReportInv /\ PurseInv /\ AccountInv
<1>1. Init => AllInv
  <2> SUFFICES ASSUME Init PROVE AllInv
    OBVIOUS
  <2>1. PurseInv
    BY SubTasksAreTasks DEF Init, PurseInv, NoneCancelled
  <2>2. Total(SubTasks, Held) = 0
    BY SubTasksAreTasks, TotalOfZeros DEF Init, Held
  <2>3. AccountInv
    BY <2>2 DEF Init, AccountInv
  <2> QED
    BY <2>1, <2>3, InitOrder, InitBudget, InitReport
<1>2. AllInv /\ [Next]_vars => AllInv'
  <2> SUFFICES ASSUME AllInv, [Next]_vars PROVE AllInv'
    OBVIOUS
  <2>1. OrderInv' /\ BudgetInv' /\ ReportInv' /\ PurseInv'
    BY OrderStep, BudgetStep, ReportStep, PurseStep
  <2> QED
    BY <2>1, AccountStep
<1>3. AllInv => TypeOK
  BY DEF OrderInv, Shape, ReportInv, PurseInv, AccountInv, TypeOK
<1>4. AllInv => CostReported
  <2> SUFFICES ASSUME AllInv, pc = "done", mode = "invoke"
               PROVE  /\ ReportedCost <= spent
                      /\ (\A t \in SubTasks : results[t] # "timeout") => ReportedCost = spent
    BY DEF CostReported
  <2>1. /\ SubTasks \subseteq Tasks /\ IsFiniteSet(SubTasks)
        /\ \A t \in SubTasks : Held[t] \in Nat /\ cost[t] \in Nat
    BY HeldIsNumber, SubTasksAreTasks DEF OrderInv, Shape, PurseInv
  <2>2. ReportedCost = Total(Reported, cost) /\ Reported \in SUBSET SubTasks
    BY DEF ReportedCost, Reported, Total, Units
  <2>3. \A t \in Reported : cost[t] \in Nat /\ cost[t] <= Held[t]
    BY <2>1, <2>2 DEF Held, PurseInv
  <2>4. Total(Reported, cost) <= Total(SubTasks, Held)
    BY <2>1, <2>2, <2>3, TotalIsMonotone
  <2>5. Total(SubTasks, Held) \in Nat /\ Total(Reported, cost) \in Nat
    BY <2>1, <2>2, <2>3, TotalIsNat, FS_Subset
  <2>6. ReportedCost <= spent
    BY <2>2, <2>4, <2>5 DEF AccountInv
  <2>7. ASSUME \A t \in SubTasks : results[t] # "timeout" PROVE ReportedCost = spent
    <3>1. NoneCancelled
      BY <2>7 DEF PurseInv, Timed
    <3>2. \A t \in SubTasks : results[t] = sub[t] /\ Over(t)
      BY <2>7 DEF ReportInv, OrderInv, Order
    <3>3. \A t \in SubTasks : sub[t] \in {"completed", "failed"}
      BY <2>1, <3>1, <3>2 DEF NoneCancelled, OrderInv, Shape, States, Over
    <3>4. Reported = SubTasks
      BY <3>2, <3>3 DEF Reported
    <3>5. \A t \in SubTasks : cost[t] = Held[t]
      BY <3>3 DEF Held
    <3> QED
      BY <2>2, <3>1, <3>4, <3>5, SameTotal DEF AccountInv
  <2> QED
    BY <2>6, <2>7
<1> QED
  BY <1>1, <1>2, <1>3, <1>4, PTL DEF Spec, ReportSound
===============================================================================
