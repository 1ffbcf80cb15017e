--------------------------- MODULE SupervisorProofs ---------------------------
(***************************************************************************)
(* Proofs about Supervisor, for any plan, any number of runners and        *)
(* cancellers and any bounds.                                              *)
(***************************************************************************)
EXTENDS Supervisor, TLAPS

USE DEF Step

LEMMA Constants == AllPending \in Plans /\ Blank \in Contexts /\ NoRow \in Rows
BY DEF AllPending, Blank, NoRow, NoCheckpoint, Plans, StepStatus, Contexts, Checkpoints, Rows

(***************************************************************************)
(* The row changes by a write of a runner or a canceller, or not at all.   *)
(***************************************************************************)
RowStep ==
  \/ UNCHANGED row
  \/ row.status = "absent" /\ row' = [NoRow EXCEPT !.status = "pending"]
  \/ \E r \in Runners : pc[r] = "checkpointing" /\ WriteCheckpoint(r)
  \/ \E r \in Runners : pc[r] = "saving" /\ WriteSession(r)
  \/ \E c \in Cancellers :
       row' = [row EXCEPT !.status = "cancelled", !.steps = view[c].steps,
                          !.context = view[c].context, !.cost = view[c].cost]

LEMMA NextIsRowStep == [Next]_vars => RowStep
<1> SUFFICES ASSUME [Next]_vars PROVE RowStep
  OBVIOUS
<1> USE DEF RowStep
<1>1. ASSUME NEW r \in Runners, RunnerStep(r) PROVE RowStep
  <2>1. CASE LoopStep(r) \/ RetryAgain(r) \/ StepTimeout(r) \/ ChildReturns(r) \/ Resume(r)
    BY <2>1 DEF LoopStep, SkipStep, BudgetGate, StartStep, LeaveLoop, RetryAgain,
                StepTimeout, ChildReturns, ChildSucceeds, ChildFails, GiveUp, RecordStep,
                EndStep, Resume
  <2>2. CASE \/ Create(r) \/ Checkpoint(r) \/ Save(r) \/ CheckpointLost(r) \/ RunFails(r)
             \/ StepRefused(r)
    BY <2>2 DEF Create, Checkpoint, Save, CheckpointLost, RunFails, StepRefused
  <2> QED
    BY <1>1, <2>1, <2>2 DEF RunnerStep, RunStep
<1>2. ASSUME NEW c \in Cancellers, CancelRead(c) \/ CancelWrite(c) PROVE RowStep
  BY <1>2 DEF CancelRead, CancelWrite
<1>3. CASE Crash \/ UNCHANGED vars
  BY <1>3 DEF Crash, vars
<1> QED
  BY <1>1, <1>2, <1>3 DEF Next

(***************************************************************************)
(* A canceller's view is the row it read, or nothing.                      *)
(***************************************************************************)
LEMMA ViewStep ==
  ASSUME view \in [Cancellers -> Rows], [Next]_vars
  PROVE  \/ UNCHANGED view
         \/ \E c \in Cancellers : view' = [view EXCEPT ![c] = row]
         \/ \E c \in Cancellers : view' = [view EXCEPT ![c] = NoRow]
         \/ view' = [c \in Cancellers |-> NoRow]
<1>1. ASSUME NEW r \in Runners, RunnerStep(r) PROVE UNCHANGED view
  BY <1>1 DEF RunnerStep, RunStep, LoopStep, SkipStep, BudgetGate, StartStep, LeaveLoop,
     RetryAgain, StepTimeout, ChildReturns, ChildSucceeds, ChildFails, GiveUp, RecordStep,
     EndStep, Resume, Create, Checkpoint, Save, CheckpointLost, RunFails, StepRefused
<1>2. ASSUME NEW c \in Cancellers, CancelRead(c) \/ CancelWrite(c)
      PROVE  view' \in {[view EXCEPT ![c] = row], [view EXCEPT ![c] = NoRow]}
  BY <1>2 DEF CancelRead, CancelWrite
<1>3. CASE Crash \/ UNCHANGED vars
  BY <1>3 DEF Crash, vars
<1> QED
  BY <1>1, <1>2, <1>3 DEF Next

(***************************************************************************)
(* A runner's step; every other runner keeps its copy.                     *)
(***************************************************************************)
RunTypeOK ==
  /\ pc \in [Runners -> {"idle", "ready", "invoking", "backoff", "checkpointing", "saving"}]
  /\ plan \in [Runners -> Plans]
  /\ context \in [Runners -> Contexts]
  /\ spent \in [Runners -> Nat]
  /\ current \in [Runners -> 0..NumSteps]
  /\ attempt \in [Runners -> 0..MaxRetries]

LEMMA EndRunsTypes ==
  ASSUME RunTypeOK, NEW R, EndRuns(R)
  PROVE  RunTypeOK'
BY SupervisorAssumption, Constants DEF RunTypeOK, EndRuns

LEMMA RunTypes == TypeOK /\ [Next]_vars => RunTypeOK'
<1> SUFFICES ASSUME TypeOK, [Next]_vars PROVE RunTypeOK'
  OBVIOUS
<1> USE SupervisorAssumption DEF RunTypeOK
<1>0. RunTypeOK /\ row \in Rows
  BY DEF TypeOK
<1>1. ASSUME NEW r \in Runners, Create(r) \/ Resume(r) PROVE RunTypeOK'
  <2>1. RestoredContext \in Contexts /\ row.steps \in Plans
    BY <1>0 DEF RestoredContext, Rows, Checkpoints
  <2>2. PICK steps \in Plans, ctx \in Contexts : Begin(r, steps, ctx)
    BY <1>1, <2>1, Constants DEF Create, Resume
  <2>3. pc' \in [Runners -> {"idle", "ready", "invoking", "backoff", "checkpointing", "saving"}]
    BY <1>0, <2>2 DEF Begin
  <2>4. plan' \in [Runners -> Plans] /\ context' \in [Runners -> Contexts]
    BY <1>0, <2>2 DEF Begin
  <2> QED
    BY <1>0, <2>2, <2>3, <2>4 DEF Begin
<1>2. ASSUME NEW r \in Runners, LoopStep(r) PROVE RunTypeOK'
  <2> USE <1>0 DEF Plans, StepStatus
  <2>1. CASE SkipStep(r)
    BY <2>1 DEF SkipStep
  <2>2. CASE BudgetGate(r)
    BY <2>2 DEF BudgetGate
  <2>3. CASE StartStep(r)
    BY <2>3 DEF StartStep
  <2>4. CASE LeaveLoop(r)
    BY <2>4 DEF LeaveLoop
  <2> QED
    BY <1>2, <2>1, <2>2, <2>3, <2>4 DEF LoopStep
<1>3. ASSUME NEW r \in Runners, NEW st \in {"completed", "failed", "skipped"}, EndStep(r, st)
      PROVE  /\ pc' \in [Runners -> {"idle", "ready", "invoking", "backoff",
                                     "checkpointing", "saving"}]
             /\ plan' \in [Runners -> Plans]
             /\ current' \in [Runners -> 0..NumSteps]
             /\ attempt' \in [Runners -> 0..MaxRetries]
  <2>1. plan[r] \in Plans /\ [plan[r] EXCEPT ![current[r]] = st] \in Plans
    BY <1>0 DEF Plans, StepStatus
  <2>2. plan' \in [Runners -> Plans]
    BY <1>0, <1>3, <2>1 DEF EndStep
  <2> QED
    BY <1>0, <1>3, <2>2 DEF EndStep
<1>4. ASSUME NEW r \in Runners, NEW st \in {"completed", "failed", "skipped"},
             RecordStep(r, st), spent' \in [Runners -> Nat]
      PROVE  RunTypeOK'
  <2>1. context' \in [Runners -> Contexts]
    BY <1>0, <1>4 DEF RecordStep, Contexts
  <2> QED
    BY <1>3, <1>4, <2>1 DEF RecordStep
<1>5. ASSUME NEW r \in Runners, ChildReturns(r) \/ StepTimeout(r) \/ RetryAgain(r)
      PROVE  RunTypeOK'
  <2>1. CASE ChildSucceeds(r)
    <3>1. spent' \in [Runners -> Nat]
      BY <1>0, <2>1 DEF ChildSucceeds
    <3> QED
      BY <1>4, <2>1, <3>1 DEF ChildSucceeds
  <2>2. CASE GiveUp(r)
    BY <1>0, <1>4, <2>2 DEF GiveUp
  <2>3. CASE ChildFails(r)
    BY <1>0, <2>3 DEF ChildFails
  <2>4. CASE StepTimeout(r)
    BY <1>0, <1>3, <2>4 DEF StepTimeout
  <2>5. CASE RetryAgain(r)
    BY <1>0, <2>5 DEF RetryAgain
  <2> QED
    BY <1>5, <2>1, <2>2, <2>3, <2>4, <2>5 DEF ChildReturns
<1>6. ASSUME NEW r \in Runners, Checkpoint(r) \/ CheckpointLost(r) PROVE RunTypeOK'
  BY <1>0, <1>6 DEF Checkpoint, CheckpointLost
<1>7. ASSUME NEW r \in Runners, Save(r) \/ RunFails(r) \/ StepRefused(r) PROVE RunTypeOK'
  BY <1>0, <1>7, EndRunsTypes DEF Save, RunFails, StepRefused
<1>8. CASE Crash
  BY <1>0, <1>8, EndRunsTypes DEF Crash
<1>9. ASSUME NEW c \in Cancellers, CancelRead(c) \/ CancelWrite(c) PROVE UNCHANGED runVars
  BY <1>9 DEF CancelRead, CancelWrite
<1>10. CASE UNCHANGED runVars
  BY <1>0, <1>10 DEF runVars
<1> QED
  BY <1>1, <1>2, <1>5, <1>6, <1>7, <1>8, <1>9, <1>10 DEF Next, RunnerStep, RunStep, vars

LEMMA OverallIsStatus ==
  ASSUME NEW p
  PROVE  OverallStatus(p) \in {"pending", "running", "failed", "completed"}
BY DEF OverallStatus

LEMMA RowTypes == TypeOK /\ [Next]_vars => row' \in Rows
<1> SUFFICES ASSUME TypeOK, RowStep PROVE row' \in Rows
  BY NextIsRowStep
<1> USE DEF TypeOK
<1>1. CASE row' = [NoRow EXCEPT !.status = "pending"]
  BY <1>1, Constants DEF Rows
<1>2. ASSUME NEW r \in Runners, WriteCheckpoint(r) PROVE row' \in Rows
  BY <1>2 DEF WriteCheckpoint, Rows, Checkpoints
<1>3. ASSUME NEW r \in Runners, WriteSession(r) PROVE row' \in Rows
  BY <1>3, OverallIsStatus DEF WriteSession, Rows
<1>4. ASSUME NEW c \in Cancellers,
             row' = [row EXCEPT !.status = "cancelled", !.steps = view[c].steps,
                                !.context = view[c].context, !.cost = view[c].cost]
      PROVE  row' \in Rows
  BY <1>4 DEF Rows
<1> QED
  BY <1>1, <1>2, <1>3, <1>4 DEF RowStep

LEMMA FaultTypes ==
  TypeOK /\ [Next]_vars => crashes' \in 0..MaxCrashes /\ dbErrors' \in 0..MaxDbErrors
<1> SUFFICES ASSUME TypeOK, [Next]_vars
             PROVE  crashes' \in 0..MaxCrashes /\ dbErrors' \in 0..MaxDbErrors
  OBVIOUS
<1> USE SupervisorAssumption DEF TypeOK, faultVars
<1>1. ASSUME NEW r \in Runners, RunnerStep(r)
      PROVE  crashes' = crashes /\ (dbErrors' = dbErrors \/ DbError)
  BY <1>1 DEF RunnerStep, RunStep, LoopStep, SkipStep, BudgetGate, StartStep, LeaveLoop,
     RetryAgain, StepTimeout, ChildReturns, ChildSucceeds, ChildFails, GiveUp, RecordStep,
     EndStep, Resume, Create, Checkpoint, Save, CheckpointLost, RunFails, StepRefused
<1>2. ASSUME NEW c \in Cancellers, CancelRead(c) \/ CancelWrite(c) PROVE UNCHANGED faultVars
  BY <1>2 DEF CancelRead, CancelWrite
<1>3. CASE Crash
  BY <1>3 DEF Crash
<1>4. CASE UNCHANGED vars
  BY <1>4 DEF vars
<1> QED
  BY <1>1, <1>2, <1>3, <1>4 DEF Next, DbError

LEMMA TypePreserved == TypeOK /\ [Next]_vars => TypeOK'
<1> SUFFICES ASSUME TypeOK, [Next]_vars PROVE TypeOK'
  OBVIOUS
<1>1. view' \in [Cancellers -> Rows]
  BY ViewStep, Constants DEF TypeOK
<1> QED
  BY <1>1, RunTypes, RowTypes, FaultTypes DEF TypeOK, RunTypeOK

\* Every variable keeps its type, and no step is tried more than MaxRetries + 1
\* times in a run, for any plan and any number of concurrent runners.
THEOREM TypeCorrect == Spec => []TypeOK
<1>1. Init => TypeOK
  BY SupervisorAssumption, Constants DEF Init, TypeOK
<1> QED
  BY <1>1, TypePreserved, PTL DEF Spec

-------------------------------------------------------------------------------
(***************************************************************************)
(* NoStepStranded is inductive with the types: a plan reaches the DB only  *)
(* from a runner that is not executing a step.                             *)
(***************************************************************************)
NoneRunning(p) == \A s \in Step : p[s] # "running"

RunningIsCurrent ==
  \A r \in Runners, s \in Step :
    plan[r][s] = "running" <=> Executing(r) /\ s = current[r]

LEMMA NothingRunsAtFirst == NoneRunning(AllPending)
BY DEF NoneRunning, AllPending

LEMMA BeginRunsNothing ==
  ASSUME TypeOK, RunningIsCurrent, NEW r \in Runners,
         NEW steps \in Plans, NoneRunning(steps), NEW ctx, Begin(r, steps, ctx)
  PROVE  RunningIsCurrent'
BY DEF TypeOK, RunningIsCurrent, NoneRunning, Begin, Executing

LEMMA EndRunsRunsNothing ==
  ASSUME TypeOK, RunningIsCurrent, NEW R, EndRuns(R)
  PROVE  RunningIsCurrent'
BY NothingRunsAtFirst DEF TypeOK, RunningIsCurrent, NoneRunning, EndRuns, Executing

LEMMA EndStepRunsNothing ==
  ASSUME TypeOK, RunningIsCurrent, NEW r \in Runners,
         NEW st \in {"completed", "failed", "skipped"}, EndStep(r, st)
  PROVE  RunningIsCurrent'
<1>1. plan[r] \in Plans /\ plan \in [Runners -> Plans]
  BY DEF TypeOK
<1>2. pc'[r] = "checkpointing"
  BY DEF TypeOK, EndStep
<1>3. ASSUME NEW s \in Step PROVE plan'[r][s] # "running"
  <2>1. plan'[r] = [plan[r] EXCEPT ![current[r]] = st]
    BY <1>1 DEF EndStep
  <2>2. s # current[r] => plan'[r][s] = plan[r][s] /\ plan[r][s] # "running"
    BY <1>1, <2>1 DEF RunningIsCurrent, Plans
  <2>3. s = current[r] => plan'[r][s] = st
    BY <1>1, <2>1 DEF Plans
  <2> QED
    BY <2>2, <2>3
<1>4. ASSUME NEW q \in Runners, q # r
      PROVE  plan'[q] = plan[q] /\ current'[q] = current[q] /\ pc'[q] = pc[q]
  BY <1>4 DEF EndStep, TypeOK
<1> QED
  BY <1>1, <1>2, <1>3, <1>4 DEF RunningIsCurrent, Executing

LEMMA CurrentPreserved ==
  TypeOK /\ NoStepStranded /\ [Next]_vars => RunningIsCurrent'
<1> SUFFICES ASSUME TypeOK, NoStepStranded, [Next]_vars PROVE RunningIsCurrent'
  OBVIOUS
<1>0. RunningIsCurrent /\ NoneRunning(row.steps)
  BY DEF NoStepStranded, RunningIsCurrent, NoneRunning
<1>1. ASSUME NEW r \in Runners, Create(r) \/ Resume(r) PROVE RunningIsCurrent'
  <2>1. row.steps \in Plans
    BY DEF TypeOK, Rows
  <2>2. CASE Begin(r, AllPending, Blank)
    BY <1>0, <2>2, NothingRunsAtFirst, Constants, BeginRunsNothing
  <2>3. CASE Begin(r, row.steps, RestoredContext)
    BY <1>0, <2>1, <2>3, BeginRunsNothing
  <2> QED
    BY <1>1, <2>2, <2>3 DEF Create, Resume
<1>2. ASSUME NEW r \in Runners, LoopStep(r) PROVE RunningIsCurrent'
  <2> USE <1>0 DEF TypeOK, RunningIsCurrent, Executing
  <2>1. CASE SkipStep(r) \/ BudgetGate(r)
    <3>1. \E s \in Step : \E st \in {"skipped", "failed"} : plan' = [plan EXCEPT ![r][s] = st]
      BY <2>1 DEF SkipStep, BudgetGate
    <3>2. UNCHANGED current /\ pc[r] = "ready" /\ pc' \in {pc, [pc EXCEPT ![r] = "saving"]}
      BY <2>1 DEF SkipStep, BudgetGate
    <3> QED
      BY <3>1, <3>2 DEF Plans
  <2>2. CASE StartStep(r)
    <3>1. PICK s \in Step : /\ plan' = [plan EXCEPT ![r][s] = "running"]
                            /\ current' = [current EXCEPT ![r] = s]
      BY <2>2 DEF StartStep
    <3>2. pc[r] = "ready" /\ pc' = [pc EXCEPT ![r] = "invoking"]
      BY <2>2 DEF StartStep
    <3>3. plan'[r] = [plan[r] EXCEPT ![s] = "running"] /\ current'[r] = s /\ pc'[r] = "invoking"
      BY <3>1, <3>2
    <3>4. \A t \in Step : plan[r][t] # "running"
      BY <3>2
    <3>5. \A t \in Step : plan'[r][t] = "running" <=> t = s
      <4>1. plan[r] \in Plans
        BY DEF TypeOK
      <4>2. \A t \in Step : plan'[r][t] = IF t = s THEN "running" ELSE plan[r][t]
        BY <3>3, <4>1 DEF Plans
      <4> QED
        BY <3>4, <4>2
    <3>6. \A q \in Runners \ {r} :
            plan'[q] = plan[q] /\ current'[q] = current[q] /\ pc'[q] = pc[q]
      BY <3>1, <3>2
    <3>7. \A t \in Step : plan'[r][t] = "running" <=> Executing(r)' /\ t = current'[r]
      BY <3>3, <3>5 DEF Executing
    <3>8. \A q \in Runners \ {r}, t \in Step :
            plan'[q][t] = "running" <=> Executing(q)' /\ t = current'[q]
      BY <3>6 DEF Executing
    <3> QED
      BY <3>7, <3>8
  <2>3. CASE LeaveLoop(r)
    BY <2>3 DEF LeaveLoop
  <2> QED
    BY <1>2, <2>1, <2>2, <2>3 DEF LoopStep
<1>3. ASSUME NEW r \in Runners, ChildSucceeds(r) \/ GiveUp(r) \/ StepTimeout(r)
      PROVE  RunningIsCurrent'
  <2>1. \E st \in {"completed", "failed", "skipped"} : EndStep(r, st)
    BY <1>3 DEF ChildSucceeds, GiveUp, StepTimeout, RecordStep
  <2> QED
    BY <1>0, <2>1, EndStepRunsNothing
<1>4. ASSUME NEW r \in Runners, ChildFails(r) \/ RetryAgain(r) PROVE RunningIsCurrent'
  BY <1>0, <1>4 DEF ChildFails, RetryAgain, TypeOK, RunningIsCurrent, Executing
<1>5. ASSUME NEW r \in Runners, Checkpoint(r) \/ CheckpointLost(r) PROVE RunningIsCurrent'
  BY <1>0, <1>5 DEF Checkpoint, CheckpointLost, TypeOK, RunningIsCurrent, Executing
<1>6. ASSUME NEW r \in Runners, Save(r) \/ RunFails(r) \/ StepRefused(r)
      PROVE  RunningIsCurrent'
  BY <1>0, <1>6, EndRunsRunsNothing DEF Save, RunFails, StepRefused
<1>7. CASE Crash
  BY <1>0, <1>7, EndRunsRunsNothing DEF Crash
<1>8. ASSUME UNCHANGED runVars PROVE RunningIsCurrent'
  BY <1>0, <1>8 DEF runVars, RunningIsCurrent, Executing
<1>9. ASSUME NEW c \in Cancellers, CancelRead(c) \/ CancelWrite(c) PROVE UNCHANGED runVars
  BY <1>9 DEF CancelRead, CancelWrite
<1> QED
  BY <1>1, <1>2, <1>3, <1>4, <1>5, <1>6, <1>7, <1>8, <1>9
  DEF Next, RunnerStep, RunStep, ChildReturns, vars

LEMMA StrandedPreserved ==
  TypeOK /\ NoStepStranded /\ [Next]_vars => NoStepStranded'
<1> SUFFICES ASSUME TypeOK, NoStepStranded, [Next]_vars PROVE NoStepStranded'
  OBVIOUS
<1>0. /\ NoneRunning(row.steps) /\ NoneRunning(row.checkpoint.steps)
      /\ \A c \in Cancellers : NoneRunning(view[c].steps)
      /\ RunningIsCurrent
  BY DEF NoStepStranded, NoneRunning, RunningIsCurrent
<1>1. ASSUME NEW r \in Runners, pc[r] \in {"checkpointing", "saving"}
      PROVE  NoneRunning(plan[r])
  BY <1>0, <1>1 DEF RunningIsCurrent, NoneRunning, Executing
<1>2. NoneRunning(row'.steps) /\ NoneRunning(row'.checkpoint.steps)
  <2> USE <1>0 DEF TypeOK, Rows, Checkpoints
  <2>1. CASE UNCHANGED row
    BY <2>1
  <2>2. CASE row' = [NoRow EXCEPT !.status = "pending"]
    BY <2>2, NothingRunsAtFirst DEF NoRow, NoCheckpoint
  <2>3. ASSUME NEW r \in Runners, pc[r] = "checkpointing", WriteCheckpoint(r)
        PROVE  NoneRunning(row'.steps) /\ NoneRunning(row'.checkpoint.steps)
    BY <1>1, <2>3 DEF WriteCheckpoint
  <2>4. ASSUME NEW r \in Runners, pc[r] = "saving", WriteSession(r)
        PROVE  NoneRunning(row'.steps) /\ NoneRunning(row'.checkpoint.steps)
    BY <1>1, <2>4 DEF WriteSession
  <2>5. ASSUME NEW c \in Cancellers,
               row' = [row EXCEPT !.status = "cancelled", !.steps = view[c].steps,
                                  !.context = view[c].context, !.cost = view[c].cost]
        PROVE  NoneRunning(row'.steps) /\ NoneRunning(row'.checkpoint.steps)
    BY <2>5
  <2> QED
    BY NextIsRowStep, <2>1, <2>2, <2>3, <2>4, <2>5 DEF RowStep
<1>3. ASSUME NEW c \in Cancellers PROVE NoneRunning(view'[c].steps)
  BY <1>0, ViewStep, NothingRunsAtFirst DEF TypeOK, NoRow
<1> QED
  BY <1>2, <1>3, CurrentPreserved DEF NoStepStranded, NoneRunning, RunningIsCurrent

\* No plan in the DB, nor one a canceller is about to write back, has a RUNNING
\* step, whatever runs, resumes, cancels, failed writes and crashes interleave.
THEOREM NoStepIsStranded == Spec => []NoStepStranded
<1>1. Init => NoStepStranded
  <2> SUFFICES ASSUME Init PROVE NoStepStranded
    OBVIOUS
  <2>1. \A s \in Step : NoRow.steps[s] = "pending" /\ NoRow.checkpoint.steps[s] = "pending"
    BY DEF NoRow, NoCheckpoint, AllPending
  <2>2. \A c \in Cancellers : view[c] = NoRow
    BY DEF Init
  <2>3. \A r \in Runners, s \in Step : plan[r][s] = "pending" /\ ~Executing(r)
    BY DEF Init, AllPending, Executing
  <2>4. row = NoRow
    BY DEF Init
  <2> QED
    BY <2>1, <2>2, <2>3, <2>4 DEF NoStepStranded
<1> QED
  BY <1>1, TypeCorrect, StrandedPreserved, PTL DEF Spec

-------------------------------------------------------------------------------
(***************************************************************************)
(* OrderRespected: a step leaves pending only when it is ready, and no     *)
(* terminal step ever leaves its status.                                   *)
(***************************************************************************)
LEMMA MoveKeepsOrder ==
  ASSUME NEW p \in Plans, Ordered(p), NEW s \in Step, NEW st,
         p[s] \in {"pending", "running"}, DependsOn[s] \subseteq Terminal(p)
  PROVE  Ordered([p EXCEPT ![s] = st])
<1> DEFINE p2 == [p EXCEPT ![s] = st]
<1>1. \A t \in Step : t # s => p2[t] = p[t]
  BY DEF Plans
<1>2. Terminal(p) \subseteq Terminal(p2)
  BY <1>1 DEF Terminal
<1> QED
  BY <1>1, <1>2 DEF Ordered

LEMMA PendingOrdered == Ordered(AllPending)
BY DEF Ordered, AllPending

RunsOrdered == \A r \in Runners : Ordered(plan[r])

LEMMA LoopKeepsOrder ==
  ASSUME TypeOK, OrderRespected, NEW r \in Runners, LoopStep(r)
  PROVE  RunsOrdered'
<1>1. plan \in [Runners -> Plans] /\ RunsOrdered
  BY DEF TypeOK, OrderRespected, RunsOrdered
<1>2. CASE LeaveLoop(r)
  BY <1>1, <1>2 DEF LeaveLoop, RunsOrdered
<1>3. CASE SkipStep(r) \/ BudgetGate(r) \/ StartStep(r)
  <2>1. PICK s \in Step, st \in {"skipped", "failed", "running"} :
          IsNext(plan[r], s) /\ plan' = [plan EXCEPT ![r][s] = st]
    BY <1>3 DEF SkipStep, BudgetGate, StartStep
  <2>2. plan'[r] = [plan[r] EXCEPT ![s] = st] /\ \A q \in Runners \ {r} : plan'[q] = plan[q]
    BY <1>1, <2>1
  <2>3. plan[r][s] = "pending" /\ DependsOn[s] \subseteq Terminal(plan[r])
    BY <2>1 DEF IsNext, IsReady
  <2>4. Ordered(plan'[r])
    BY <1>1, <2>2, <2>3, MoveKeepsOrder DEF RunsOrdered
  <2> QED
    BY <1>1, <2>2, <2>4 DEF RunsOrdered
<1> QED
  BY <1>2, <1>3 DEF LoopStep

LEMMA EndStepKeepsOrder ==
  ASSUME TypeOK, NoStepStranded, OrderRespected, NEW r \in Runners, NEW st,
         Executing(r), EndStep(r, st)
  PROVE  RunsOrdered'
<1>1. plan \in [Runners -> Plans] /\ RunsOrdered
  BY DEF TypeOK, OrderRespected, RunsOrdered
<1>2. plan'[r] = [plan[r] EXCEPT ![current[r]] = st] /\ \A q \in Runners \ {r} : plan'[q] = plan[q]
  BY <1>1 DEF EndStep
<1>3. CASE current[r] \in Step
  <2>1. plan[r][current[r]] = "running"
    BY <1>3 DEF NoStepStranded
  <2>2. DependsOn[current[r]] \subseteq Terminal(plan[r])
    BY <1>1, <1>3, <2>1 DEF RunsOrdered, Ordered
  <2>3. Ordered(plan'[r])
    BY <1>1, <1>2, <1>3, <2>1, <2>2, MoveKeepsOrder DEF RunsOrdered
  <2> QED
    BY <1>1, <1>2, <2>3 DEF RunsOrdered
<1>4. CASE current[r] \notin Step
  <2>1. plan'[r] = plan[r]
    BY <1>1, <1>2, <1>4 DEF Plans
  <2> QED
    BY <1>1, <1>2, <2>1 DEF RunsOrdered
<1> QED
  BY <1>3, <1>4

LEMMA RunsKeepOrder ==
  TypeOK /\ NoStepStranded /\ OrderRespected /\ [Next]_vars => RunsOrdered'
<1> SUFFICES ASSUME TypeOK, NoStepStranded, OrderRespected, [Next]_vars PROVE RunsOrdered'
  OBVIOUS
<1>1. plan \in [Runners -> Plans] /\ RunsOrdered /\ Ordered(row.steps)
  BY DEF TypeOK, OrderRespected, RunsOrdered
<1>2. ASSUME NEW r \in Runners, Create(r) \/ Resume(r) PROVE RunsOrdered'
  <2>1. plan' \in {[plan EXCEPT ![r] = AllPending], [plan EXCEPT ![r] = row.steps]}
    BY <1>2 DEF Create, Resume, Begin
  <2> QED
    BY <1>1, <2>1, PendingOrdered DEF RunsOrdered
<1>3. ASSUME NEW r \in Runners, ChildSucceeds(r) \/ GiveUp(r) \/ StepTimeout(r)
      PROVE  RunsOrdered'
  <2>1. Executing(r) /\ \E st : EndStep(r, st)
    BY <1>3 DEF ChildSucceeds, GiveUp, StepTimeout, RecordStep, Executing
  <2> QED
    BY <2>1, EndStepKeepsOrder
<1>4. ASSUME NEW R, EndRuns(R) PROVE RunsOrdered'
  BY <1>1, <1>4, PendingOrdered DEF EndRuns, RunsOrdered
<1>5. CASE UNCHANGED plan
  BY <1>1, <1>5 DEF RunsOrdered
<1>6. ASSUME NEW r \in Runners, ChildFails(r) \/ RetryAgain(r) \/ Checkpoint(r) \/ CheckpointLost(r)
      PROVE  UNCHANGED plan
  BY <1>6 DEF ChildFails, RetryAgain, Checkpoint, CheckpointLost
<1>7. ASSUME NEW r \in Runners, Save(r) \/ RunFails(r) \/ StepRefused(r)
      PROVE  EndRuns({r})
  BY <1>7 DEF Save, RunFails, StepRefused
<1>8. ASSUME NEW c \in Cancellers, CancelRead(c) \/ CancelWrite(c) PROVE UNCHANGED plan
  BY <1>8 DEF CancelRead, CancelWrite, runVars
<1>9. CASE Crash
  BY <1>4, <1>9 DEF Crash
<1> QED
  BY <1>2, <1>3, <1>4, <1>5, <1>6, <1>7, <1>8, <1>9, LoopKeepsOrder
  DEF Next, RunnerStep, RunStep, ChildReturns, vars, runVars

LEMMA OrderPreserved ==
  TypeOK /\ NoStepStranded /\ OrderRespected /\ [Next]_vars => OrderRespected'
<1> SUFFICES ASSUME TypeOK, NoStepStranded, OrderRespected, [Next]_vars
             PROVE  OrderRespected'
  OBVIOUS
<1>0. /\ row \in Rows /\ view \in [Cancellers -> Rows]
      /\ Ordered(row.steps) /\ Ordered(row.checkpoint.steps)
      /\ \A r \in Runners : Ordered(plan[r])
      /\ \A c \in Cancellers : Ordered(view[c].steps)
  BY DEF TypeOK, OrderRespected
<1>1. Ordered(row'.steps) /\ Ordered(row'.checkpoint.steps)
  <2> USE <1>0 DEF Rows, Checkpoints
  <2>1. CASE UNCHANGED row
    BY <2>1
  <2>2. CASE row' = [NoRow EXCEPT !.status = "pending"]
    BY <2>2, PendingOrdered DEF NoRow, NoCheckpoint
  <2>3. ASSUME NEW r \in Runners, WriteCheckpoint(r)
        PROVE  Ordered(row'.steps) /\ Ordered(row'.checkpoint.steps)
    BY <2>3 DEF WriteCheckpoint
  <2>4. ASSUME NEW r \in Runners, WriteSession(r)
        PROVE  Ordered(row'.steps) /\ Ordered(row'.checkpoint.steps)
    BY <2>4 DEF WriteSession
  <2>5. ASSUME NEW c \in Cancellers,
               row' = [row EXCEPT !.status = "cancelled", !.steps = view[c].steps,
                                  !.context = view[c].context, !.cost = view[c].cost]
        PROVE  Ordered(row'.steps) /\ Ordered(row'.checkpoint.steps)
    BY <2>5
  <2> QED
    BY NextIsRowStep, <2>1, <2>2, <2>3, <2>4, <2>5 DEF RowStep
<1>2. ASSUME NEW c \in Cancellers PROVE Ordered(view'[c].steps)
  BY <1>0, ViewStep, PendingOrdered DEF NoRow
<1> QED
  BY <1>1, <1>2, RunsKeepOrder DEF OrderRespected, RunsOrdered

\* In every copy of the plan, a step that has left pending has only terminal
\* dependencies, whoever resumes, cancels or overwrites the row.
THEOREM OrderIsRespected == Spec => []OrderRespected
<1>1. Init => OrderRespected
  <2> SUFFICES ASSUME Init PROVE OrderRespected
    OBVIOUS
  <2>1. NoRow.steps = AllPending /\ NoRow.checkpoint.steps = AllPending
    BY DEF NoRow, NoCheckpoint
  <2>2. /\ row = NoRow /\ \A c \in Cancellers : view[c] = NoRow
        /\ \A r \in Runners : plan[r] = AllPending
    BY DEF Init
  <2> QED
    BY <2>1, <2>2, PendingOrdered DEF OrderRespected
<1> QED
  BY <1>1, TypeCorrect, NoStepIsStranded, OrderPreserved, PTL DEF Spec

-------------------------------------------------------------------------------
(***************************************************************************)
(* StatusTellsPlan: only _run_session's last UPDATE writes one of the      *)
(* three statuses, and it writes overall_status of the plan it saves.      *)
(***************************************************************************)
LEMMA OverallTellsPlan ==
  ASSUME NEW p \in Plans
  PROVE  /\ OverallStatus(p) = "completed" => /\ IsComplete(p)
                                              /\ \E s \in Step : p[s] = "completed"
         /\ OverallStatus(p) = "failed" => \A s \in Step : p[s] \in {"failed", "skipped"}
         /\ OverallStatus(p) = "running" => ~IsComplete(p)
<1>1. IsComplete(p) => \A s \in Step : p[s] \in {"completed", "failed", "skipped"}
  BY DEF IsComplete, Terminal
<1>2. ~IsComplete(AllPending)
  BY SupervisorAssumption DEF IsComplete, Terminal, AllPending
<1> QED
  BY <1>1, <1>2 DEF OverallStatus

LEMMA StatusPreserved == TypeOK /\ StatusTellsPlan /\ [Next]_vars => StatusTellsPlan'
<1> SUFFICES ASSUME TypeOK, StatusTellsPlan, RowStep PROVE StatusTellsPlan'
  BY NextIsRowStep
<1>0. row \in Rows /\ plan \in [Runners -> Plans]
  BY DEF TypeOK
<1>1. CASE UNCHANGED row
  BY <1>1 DEF StatusTellsPlan
<1>2. CASE row' = [NoRow EXCEPT !.status = "pending"]
  BY <1>2 DEF StatusTellsPlan, NoRow
<1>3. ASSUME NEW r \in Runners, WriteCheckpoint(r) PROVE StatusTellsPlan'
  <2>1. row'.status = row.status /\ row'.steps = row.steps
    BY <1>0, <1>3 DEF WriteCheckpoint, Rows
  <2> QED
    BY <2>1 DEF StatusTellsPlan
<1>4. ASSUME NEW r \in Runners, WriteSession(r) PROVE StatusTellsPlan'
  <2>1. row'.status = OverallStatus(plan[r]) /\ row'.steps = plan[r]
    BY <1>0, <1>4 DEF WriteSession, Rows
  <2> QED
    BY <1>0, <2>1, OverallTellsPlan DEF StatusTellsPlan
<1>5. ASSUME NEW c \in Cancellers,
             row' = [row EXCEPT !.status = "cancelled", !.steps = view[c].steps,
                                !.context = view[c].context, !.cost = view[c].cost]
      PROVE  StatusTellsPlan'
  <2>1. row'.status = "cancelled"
    BY <1>0, <1>5 DEF Rows
  <2> QED
    BY <2>1 DEF StatusTellsPlan
<1> QED
  BY <1>1, <1>2, <1>3, <1>4, <1>5 DEF RowStep

\* The status column agrees with the plan beside it, however runs, resumes and
\* cancels overwrite each other.
THEOREM StatusIsHonest == Spec => []StatusTellsPlan
<1>1. Init => StatusTellsPlan
  BY DEF Init, StatusTellsPlan, NoRow
<1> QED
  BY <1>1, TypeCorrect, StatusPreserved, PTL DEF Spec

-------------------------------------------------------------------------------
(***************************************************************************)
(* SpendBounded: the strengthening says that a step executes only in a run *)
(* that is still below its budget, and bounds what a canceller may write.  *)
(***************************************************************************)
Most == Budget - 1 + MaxCost

SpendInv ==
  /\ \A r \in Runners : spent[r] <= Most /\ (Executing(r) => spent[r] < Budget)
  /\ row.cost <= Most
  /\ \A c \in Cancellers : view[c].cost <= Most

RunsSpend == \A r \in Runners : spent[r] <= Most /\ (Executing(r) => spent[r] < Budget)

LEMMA RunsSpendPreserved == TypeOK /\ SpendInv /\ [Next]_vars => RunsSpend'
<1> SUFFICES ASSUME TypeOK, RunsSpend, [Next]_vars PROVE RunsSpend'
  BY DEF SpendInv, RunsSpend
<1> USE SupervisorAssumption DEF TypeOK, RunsSpend, Executing, Most
<1>1. ASSUME NEW r \in Runners, Create(r) \/ Resume(r) PROVE RunsSpend'
  BY <1>1 DEF Create, Resume, Begin
<1>2. ASSUME NEW r \in Runners, LoopStep(r) PROVE RunsSpend'
  <2>1. UNCHANGED spent /\ \A q \in Runners \ {r} : pc'[q] = pc[q]
    BY <1>2 DEF LoopStep, SkipStep, BudgetGate, StartStep, LeaveLoop
  <2>2. Executing(r)' => HasBudget(r)
    BY <1>2 DEF LoopStep, SkipStep, BudgetGate, StartStep, LeaveLoop
  <2> QED
    BY <2>1, <2>2 DEF HasBudget
<1>3. ASSUME NEW r \in Runners, ChildSucceeds(r) PROVE RunsSpend'
  <2>1. PICK c \in 0..MaxCost : spent' = [spent EXCEPT ![r] = @ + c]
    BY <1>3 DEF ChildSucceeds
  <2>2. pc' = [pc EXCEPT ![r] = "checkpointing"] /\ spent[r] < Budget
    BY <1>3 DEF ChildSucceeds, RecordStep, EndStep
  <2> QED
    BY <2>1, <2>2
<1>4. ASSUME NEW r \in Runners, GiveUp(r) \/ StepTimeout(r) PROVE RunsSpend'
  BY <1>4 DEF GiveUp, StepTimeout, RecordStep, EndStep
<1>5. ASSUME NEW r \in Runners, ChildFails(r) \/ RetryAgain(r) PROVE RunsSpend'
  BY <1>5 DEF ChildFails, RetryAgain
<1>6. ASSUME NEW r \in Runners, Checkpoint(r) \/ CheckpointLost(r) PROVE RunsSpend'
  BY <1>6 DEF Checkpoint, CheckpointLost
<1>7. ASSUME NEW R, EndRuns(R) PROVE RunsSpend'
  BY <1>7 DEF EndRuns
<1>8. ASSUME NEW r \in Runners, Save(r) \/ RunFails(r) \/ StepRefused(r)
      PROVE  EndRuns({r})
  BY <1>8 DEF Save, RunFails, StepRefused
<1>9. CASE Crash
  BY <1>7, <1>9 DEF Crash
<1>10. ASSUME NEW c \in Cancellers, CancelRead(c) \/ CancelWrite(c) PROVE UNCHANGED <<pc, spent>>
  BY <1>10 DEF CancelRead, CancelWrite, runVars
<1>11. CASE UNCHANGED <<pc, spent>>
  BY <1>11
<1> QED
  BY <1>1, <1>2, <1>3, <1>4, <1>5, <1>6, <1>7, <1>8, <1>9, <1>10, <1>11
  DEF Next, RunnerStep, RunStep, ChildReturns, vars, runVars

LEMMA SpendPreserved == TypeOK /\ SpendInv /\ [Next]_vars => SpendInv'
<1> SUFFICES ASSUME TypeOK, SpendInv, [Next]_vars PROVE SpendInv'
  OBVIOUS
<1>0. /\ row \in Rows /\ view \in [Cancellers -> Rows]
      /\ row.cost <= Most /\ 0 <= Most
      /\ \A r \in Runners : spent[r] <= Most
      /\ \A c \in Cancellers : view[c].cost <= Most
  BY SupervisorAssumption DEF TypeOK, SpendInv, Most
<1>1. row'.cost <= Most
  <2> USE <1>0 DEF Rows
  <2>1. CASE UNCHANGED row
    BY <2>1
  <2>2. CASE row' = [NoRow EXCEPT !.status = "pending"]
    BY <2>2 DEF NoRow
  <2>3. ASSUME NEW r \in Runners, WriteCheckpoint(r) \/ WriteSession(r)
        PROVE  row'.cost = spent[r]
    BY <2>3 DEF WriteCheckpoint, WriteSession
  <2>4. ASSUME NEW c \in Cancellers,
               row' = [row EXCEPT !.status = "cancelled", !.steps = view[c].steps,
                                  !.context = view[c].context, !.cost = view[c].cost]
        PROVE  row'.cost <= Most
    BY <2>4
  <2> QED
    BY NextIsRowStep, <2>1, <2>2, <2>3, <2>4 DEF RowStep
<1>2. ASSUME NEW c \in Cancellers PROVE view'[c].cost <= Most
  BY <1>0, ViewStep DEF NoRow
<1> QED
  BY <1>1, <1>2, RunsSpendPreserved DEF SpendInv, RunsSpend, Most

\* One run overshoots its budget by less than the cost of one step, and no run,
\* cancel or resume records more than that.
THEOREM SpendIsBounded == Spec => []SpendBounded
<1>1. Init => SpendInv
  BY SupervisorAssumption DEF Init, SpendInv, Most, Executing, NoRow
<1>2. SpendInv => SpendBounded
  BY DEF SpendInv, SpendBounded, Most
<1> QED
  BY <1>1, <1>2, TypeCorrect, SpendPreserved, PTL DEF Spec

\* The status that a row shows is the one its steps give, in every state of the
\* type: what GET /supervisor/sessions/{id} can be trusted for.
THEOREM SessionIsSound == Spec => []SessionSound
<1>1. TypeOK /\ StatusTellsPlan => SessionSound
  BY DEF SessionSound
<1> QED
  BY <1>1, TypeCorrect, StatusIsHonest, PTL

-------------------------------------------------------------------------------
(***************************************************************************)
(* CompletionStands, of one runner whose writes succeed.  A completion is  *)
(* in the runner's context at once, in the checkpoint before the next step *)
(* and in the row at the end; a canceller can only bring an older plan     *)
(* back, and then nobody resumes.                                          *)
(***************************************************************************)
Solo == (\A q, r \in Runners : q = r) /\ MaxDbErrors = 0

Idle == \A r \in Runners : pc[r] = "idle"

\* What p shows completed, q shows completed too.
Within(p, q) == \A s \in Step : p[s] = "completed" => q[s] = "completed"

\* Whichever context a resume takes, it knows what the steps show completed.
Recorded(steps, ctx) ==
  /\ Within(steps, ctx)
  /\ row.checkpoint.written => Within(steps, row.checkpoint.context)

RowKeeps ==
  /\ row.status = "absent" => row = NoRow
  /\ row.status \in {"absent", "completed"} => Idle
  /\ Recorded(row.steps, row.context)

ViewsKeep ==
  \A c \in Cancellers :
    /\ Recorded(view[c].steps, view[c].context)
    /\ row.status # "cancelled" => Within(view[c].steps, row.steps)

RunsKeep ==
  \A r \in Runners :
    /\ Within(plan[r], context[r])
    /\ pc[r] # "idle" => /\ Within(row.steps, plan[r])
                         /\ \A c \in Cancellers : Within(view[c].steps, plan[r])
    /\ pc[r] \notin {"idle", "checkpointing"} /\ row.checkpoint.written =>
         Within(plan[r], row.checkpoint.context)

KeptInv == RowKeeps /\ ViewsKeep /\ RunsKeep

LEMMA NothingCompleted ==
  /\ \A q : Within(AllPending, q)
  /\ NoRow.steps = AllPending /\ NoRow.context = Blank /\ ~NoRow.checkpoint.written
BY DEF Within, AllPending, NoRow, NoCheckpoint

\* A step of the runner that stays between its reads and writes of the row.
Moves(r) ==
  /\ UNCHANGED <<row, view>>
  /\ pc[r] # "idle" /\ pc'[r] # "idle"
  /\ Within(plan[r], plan'[r]) /\ Within(plan'[r], context'[r])
  /\ pc'[r] # "checkpointing" => pc[r] # "checkpointing" /\ Within(plan'[r], plan[r])

LEMMA LoopMoves ==
  ASSUME TypeOK, RunsKeep, NEW r \in Runners,
         LoopStep(r) \/ ChildFails(r) \/ RetryAgain(r)
  PROVE  Moves(r)
<1>0. plan[r] \in Plans /\ Within(plan[r], context[r])
  BY DEF TypeOK, RunsKeep
<1>1. CASE SkipStep(r) \/ BudgetGate(r) \/ StartStep(r)
  <2>1. PICK s \in Step, st \in {"skipped", "failed", "running"} :
          IsNext(plan[r], s) /\ plan' = [plan EXCEPT ![r][s] = st]
    BY <1>1 DEF SkipStep, BudgetGate, StartStep
  <2>2. plan[r][s] = "pending"
    BY <2>1 DEF IsNext, IsReady
  <2>3. \A t \in Step : plan'[r][t] = IF t = s THEN st ELSE plan[r][t]
    BY <2>1 DEF TypeOK, Plans
  <2>4. Within(plan[r], plan'[r]) /\ Within(plan'[r], plan[r])
    BY <2>2, <2>3 DEF Within
  <2>5. /\ UNCHANGED <<row, view, context>> /\ pc[r] = "ready"
        /\ pc'[r] \in {"ready", "saving", "invoking"}
    BY <1>1 DEF SkipStep, BudgetGate, StartStep, TypeOK
  <2> QED
    BY <1>0, <2>4, <2>5 DEF Moves, Within
<1>2. CASE LeaveLoop(r) \/ ChildFails(r) \/ RetryAgain(r)
  <2>1. /\ UNCHANGED <<row, view, plan, context>> /\ pc[r] \in {"ready", "invoking", "backoff"}
        /\ pc'[r] \in {"saving", "invoking", "backoff"}
    BY <1>2 DEF LeaveLoop, ChildFails, RetryAgain, TypeOK
  <2> QED
    BY <1>0, <2>1 DEF Moves, Within
<1> QED
  BY <1>1, <1>2 DEF LoopStep

LEMMA EndMoves ==
  ASSUME TypeOK, NoStepStranded, RunsKeep, NEW r \in Runners,
         ChildSucceeds(r) \/ GiveUp(r) \/ StepTimeout(r)
  PROVE  Moves(r)
<1> DEFINE k == current[r]
<1>0. /\ plan[r] \in Plans /\ plan \in [Runners -> Plans]
      /\ context[r] \in Contexts /\ context \in [Runners -> Contexts]
      /\ Within(plan[r], context[r])
  BY DEF TypeOK, RunsKeep
<1>1. PICK st \in {"completed", "failed", "skipped"} :
        /\ EndStep(r, st)
        /\ \/ context' = [context EXCEPT ![r][k] = st]
           \/ context' = context /\ st = "failed"
  BY DEF ChildSucceeds, GiveUp, StepTimeout, RecordStep
<1>2. UNCHANGED <<row, view>> /\ pc'[r] = "checkpointing" /\ pc[r] # "idle" /\ Executing(r)
  BY <1>1 DEF EndStep, TypeOK, ChildSucceeds, GiveUp, StepTimeout, Executing
<1>3. \A t \in Step : plan'[r][t] = IF t = k THEN st ELSE plan[r][t]
  BY <1>0, <1>1 DEF EndStep, Plans
<1>4. k \in Step => plan[r][k] = "running"
  BY <1>2 DEF NoStepStranded
<1>5. \A t \in Step : \/ context'[r][t] = IF t = k THEN st ELSE context[r][t]
                      \/ context'[r][t] = context[r][t] /\ st = "failed"
  BY <1>0, <1>1 DEF Contexts
<1>6. Within(plan[r], plan'[r])
  BY <1>3, <1>4 DEF Within
<1>7. Within(plan'[r], context'[r])
  BY <1>0, <1>3, <1>5 DEF Within
<1> QED
  BY <1>2, <1>6, <1>7 DEF Moves

LEMMA MovesKeep ==
  ASSUME Solo, KeptInv, NEW r \in Runners, Moves(r)
  PROVE  KeptInv'
<1>1. \A q \in Runners : q = r
  BY DEF Solo
<1>2. ~Idle /\ ~Idle'
  BY DEF Moves, Idle
<1>3. RowKeeps'
  BY <1>2 DEF KeptInv, RowKeeps, Recorded, Moves, Within
<1>4. ViewsKeep'
  BY <1>2 DEF KeptInv, ViewsKeep, Recorded, Moves, Within
<1>5. RunsKeep'
  <2>1. /\ Within(row.steps, plan[r]) /\ \A c \in Cancellers : Within(view[c].steps, plan[r])
        /\ pc[r] # "checkpointing" /\ row.checkpoint.written =>
             Within(plan[r], row.checkpoint.context)
    BY DEF KeptInv, RunsKeep, Moves
  <2>2. /\ Within(row.steps, plan'[r]) /\ \A c \in Cancellers : Within(view[c].steps, plan'[r])
        /\ pc'[r] # "checkpointing" /\ row.checkpoint.written =>
             Within(plan'[r], row.checkpoint.context)
    BY <2>1 DEF Moves, Within
  <2> QED
    BY <1>1, <2>2 DEF Moves, RunsKeep, Within
<1> QED
  BY <1>3, <1>4, <1>5 DEF KeptInv

\* A run begins with the plan of the row and a context that knows it.
LEMMA BeginKeeps ==
  ASSUME Solo, TypeOK, KeptInv, NEW r \in Runners, Create(r) \/ Resume(r)
  PROVE  KeptInv'
<1>0. /\ \A q \in Runners : q = r
      /\ pc[r] = "idle" /\ Idle /\ pc'[r] = "ready" /\ ~Idle' /\ UNCHANGED view
  BY DEF Solo, Create, Resume, Begin, Idle, TypeOK
<1>1. CASE Create(r)
  <2>1. /\ row = NoRow /\ row'.steps = AllPending /\ row'.context = Blank
        /\ ~row'.checkpoint.written /\ row'.status = "pending" /\ plan'[r] = AllPending
    BY <1>1, NothingCompleted DEF Create, Begin, KeptInv, RowKeeps, TypeOK, NoRow
  <2>2. \A c \in Cancellers : /\ Within(view[c].steps, AllPending)
                              /\ Within(view[c].steps, view[c].context)
    <3>1. NoRow.status # "cancelled" /\ NoRow.steps = AllPending
      BY NothingCompleted DEF NoRow
    <3> QED
      BY <1>0, <2>1, <3>1 DEF KeptInv, ViewsKeep, Recorded
  <2>3. RowKeeps' /\ ViewsKeep'
    BY <1>0, <2>1, <2>2, NothingCompleted DEF RowKeeps, ViewsKeep, Recorded
  <2>4. RunsKeep'
    BY <1>0, <2>1, <2>2, NothingCompleted DEF RunsKeep
  <2> QED
    BY <2>3, <2>4 DEF KeptInv
<1>2. CASE Resume(r)
  <2>1. /\ UNCHANGED row /\ row.status \notin {"absent", "completed", "cancelled"}
        /\ plan'[r] = row.steps /\ context'[r] = RestoredContext
    BY <1>2 DEF Resume, Resumable, Begin, TypeOK
  <2>2. /\ Within(row.steps, RestoredContext)
        /\ row.checkpoint.written => Within(row.steps, row.checkpoint.context)
    BY DEF KeptInv, RowKeeps, Recorded, RestoredContext
  <2>3. \A c \in Cancellers : Within(view[c].steps, row.steps)
    BY <1>0, <2>1 DEF KeptInv, ViewsKeep
  <2>4. RowKeeps' /\ ViewsKeep'
    BY <1>0, <2>1 DEF KeptInv, RowKeeps, ViewsKeep, Recorded
  <2>5. RunsKeep'
    BY <1>0, <2>1, <2>2, <2>3 DEF RunsKeep, Within
  <2> QED
    BY <2>4, <2>5 DEF KeptInv
<1> QED
  BY <1>1, <1>2

LEMMA CheckpointKeeps ==
  ASSUME Solo, TypeOK, KeptInv, NEW r \in Runners, Checkpoint(r)
  PROVE  KeptInv'
<1>0. /\ \A q \in Runners : q = r
      /\ pc[r] = "checkpointing" /\ pc'[r] = "ready" /\ ~Idle /\ ~Idle'
      /\ UNCHANGED <<view, plan, context>>
  BY DEF Solo, Checkpoint, Idle, TypeOK
<1>1. /\ row'.status = row.status /\ row'.steps = row.steps /\ row'.context = row.context
      /\ row'.checkpoint.context = context[r]
  BY DEF Checkpoint, WriteCheckpoint, TypeOK, Rows
<1>2. /\ Within(plan[r], context[r]) /\ Within(row.steps, plan[r])
      /\ \A c \in Cancellers : Within(view[c].steps, plan[r])
  BY <1>0 DEF KeptInv, RunsKeep
<1>3. /\ Within(row.steps, context[r])
      /\ \A c \in Cancellers : Within(view[c].steps, context[r])
  BY <1>2 DEF Within
<1>4. RowKeeps'
  BY <1>0, <1>1, <1>3 DEF KeptInv, RowKeeps, Recorded
<1>5. ViewsKeep'
  BY <1>0, <1>1, <1>3 DEF KeptInv, ViewsKeep, Recorded
<1>6. RunsKeep'
  BY <1>0, <1>1, <1>2 DEF RunsKeep
<1> QED
  BY <1>4, <1>5, <1>6 DEF KeptInv

LEMMA SaveKeeps ==
  ASSUME Solo, TypeOK, KeptInv, NEW r \in Runners, Save(r)
  PROVE  KeptInv'
<1>0. /\ \A q \in Runners : q = r
      /\ pc[r] = "saving" /\ Idle' /\ UNCHANGED view /\ plan'[r] = AllPending
  BY DEF Solo, Save, EndRuns, Idle, TypeOK
<1>1. /\ row'.status \notin {"absent", "cancelled"} /\ row'.steps = plan[r]
      /\ row'.context = context[r] /\ row'.checkpoint = row.checkpoint
  BY OverallIsStatus DEF Save, WriteSession, TypeOK, Rows
<1>2. /\ Within(plan[r], context[r])
      /\ row.checkpoint.written => Within(plan[r], row.checkpoint.context)
      /\ \A c \in Cancellers : Within(view[c].steps, plan[r])
  BY <1>0 DEF KeptInv, RunsKeep
<1>3. RowKeeps'
  BY <1>0, <1>1, <1>2 DEF RowKeeps, Recorded
<1>4. ViewsKeep'
  BY <1>0, <1>1, <1>2 DEF KeptInv, ViewsKeep, Recorded
<1>5. RunsKeep'
  BY <1>0, NothingCompleted DEF RunsKeep, Idle
<1> QED
  BY <1>3, <1>4, <1>5 DEF KeptInv

LEMMA RefusedKeeps ==
  ASSUME Solo, TypeOK, KeptInv, NEW r \in Runners, StepRefused(r)
  PROVE  KeptInv'
<1>0. /\ \A q \in Runners : q = r
      /\ Idle' /\ UNCHANGED <<row, view>> /\ plan'[r] = AllPending
  BY DEF Solo, StepRefused, EndRuns, Idle, TypeOK
<1>1. RowKeeps'
  BY <1>0 DEF KeptInv, RowKeeps, Recorded
<1>2. ViewsKeep'
  BY <1>0 DEF KeptInv, ViewsKeep, Recorded
<1>3. RunsKeep'
  BY <1>0, NothingCompleted DEF RunsKeep, Idle
<1> QED
  BY <1>1, <1>2, <1>3 DEF KeptInv

LEMMA CancelKeeps ==
  ASSUME Solo, TypeOK, KeptInv, NEW c \in Cancellers, CancelRead(c) \/ CancelWrite(c)
  PROVE  KeptInv'
<1>0. UNCHANGED <<pc, plan, context>> /\ (Idle' <=> Idle)
  BY DEF CancelRead, CancelWrite, runVars, Idle
<1>1. CASE CancelRead(c)
  <2>1. UNCHANGED row /\ \A d \in Cancellers : view'[d] = IF d = c THEN row ELSE view[d]
    BY <1>1 DEF CancelRead, TypeOK
  <2>2. RowKeeps'
    BY <1>0, <2>1 DEF KeptInv, RowKeeps, Recorded
  <2>3. ViewsKeep'
    BY <1>0, <2>1 DEF KeptInv, RowKeeps, ViewsKeep, Recorded, Within
  <2>4. RunsKeep'
    BY <1>0, <2>1 DEF KeptInv, RunsKeep
  <2> QED
    BY <2>2, <2>3, <2>4 DEF KeptInv
<1>2. CASE CancelWrite(c)
  <2>1. \A d \in Cancellers : view'[d] = IF d = c THEN NoRow ELSE view[d]
    BY <1>2 DEF CancelWrite, TypeOK
  <2>2. /\ row'.status = "cancelled" /\ row'.steps = view[c].steps
        /\ row'.context = view[c].context /\ row'.checkpoint = row.checkpoint
    BY <1>2 DEF CancelWrite, TypeOK, Rows
  <2>3. RowKeeps'
    BY <2>2 DEF KeptInv, RowKeeps, ViewsKeep, Recorded
  <2>4. ViewsKeep'
    BY <2>1, <2>2, NothingCompleted DEF KeptInv, ViewsKeep, Recorded
  <2>5. RunsKeep'
    BY <1>0, <2>1, <2>2, NothingCompleted DEF KeptInv, RunsKeep
  <2> QED
    BY <2>3, <2>4, <2>5 DEF KeptInv
<1> QED
  BY <1>1, <1>2

LEMMA CrashKeeps ==
  ASSUME TypeOK, KeptInv, Crash
  PROVE  KeptInv'
<1>0. /\ Idle' /\ UNCHANGED row
      /\ \A r \in Runners : pc'[r] = "idle" /\ plan'[r] = AllPending
      /\ \A c \in Cancellers : view'[c] = NoRow
  BY DEF Crash, EndRuns, Idle
<1>1. RowKeeps'
  BY <1>0 DEF KeptInv, RowKeeps, Recorded
<1>2. ViewsKeep'
  BY <1>0, NothingCompleted DEF ViewsKeep, Recorded
<1>3. RunsKeep'
  BY <1>0, NothingCompleted DEF RunsKeep
<1> QED
  BY <1>1, <1>2, <1>3 DEF KeptInv

LEMMA KeptPreserved ==
  ASSUME Solo
  PROVE  TypeOK /\ NoStepStranded /\ KeptInv /\ [Next]_vars => KeptInv'
<1> SUFFICES ASSUME TypeOK, NoStepStranded, KeptInv, [Next]_vars PROVE KeptInv'
  OBVIOUS
<1>0. RunsKeep /\ ~DbError
  BY DEF KeptInv, Solo, DbError, TypeOK
<1>1. ASSUME NEW r \in Runners, RunnerStep(r) PROVE KeptInv'
  <2>1. ~CheckpointLost(r) /\ ~RunFails(r)
    BY <1>0 DEF CheckpointLost, RunFails
  <2>2. CASE LoopStep(r) \/ ChildFails(r) \/ RetryAgain(r)
    BY <1>0, <2>2, LoopMoves, MovesKeep
  <2>3. CASE ChildSucceeds(r) \/ GiveUp(r) \/ StepTimeout(r)
    BY <1>0, <2>3, EndMoves, MovesKeep
  <2> QED
    BY <1>1, <2>1, <2>2, <2>3, BeginKeeps, CheckpointKeeps, SaveKeeps, RefusedKeeps
    DEF RunnerStep, RunStep, ChildReturns
<1>2. CASE UNCHANGED vars
  BY <1>2 DEF vars, runVars, KeptInv, RowKeeps, ViewsKeep, RunsKeep, Recorded, Idle
<1> QED
  BY <1>1, <1>2, CancelKeeps, CrashKeeps DEF Next

\* What a completed session recorded is final, but for a cancel.
LEMMA FinalStep ==
  ASSUME Solo
  PROVE  TypeOK /\ KeptInv /\ [Next]_vars =>
           (row.status = "completed" => row' = row \/ row'.status = "cancelled")
<1> SUFFICES ASSUME TypeOK, KeptInv, RowStep, row.status = "completed"
             PROVE  row' = row \/ row'.status = "cancelled"
  BY NextIsRowStep
<1>1. Idle
  BY DEF KeptInv, RowKeeps
<1> QED
  BY <1>1 DEF RowStep, Idle, TypeOK, Rows

\* With one runner and no failed write, whatever cancels and crashes come in
\* between: what is completed stays so, and the steps after it know.
THEOREM CompletionIsKept ==
  ASSUME Solo
  PROVE  Spec => CompletionStands
<1>1. Init => KeptInv
  BY NothingCompleted DEF Init, KeptInv, RowKeeps, ViewsKeep, RunsKeep, Recorded, Idle
<1>2. TypeOK /\ NoStepStranded /\ KeptInv /\ [Next]_vars => KeptInv'
  BY KeptPreserved
<1>3. Spec => []KeptInv
  BY <1>1, <1>2, TypeCorrect, NoStepIsStranded, PTL DEF Spec
<1>4. KeptInv => CompletedInContext
  BY DEF KeptInv, RunsKeep, Within, CompletedInContext
<1>5. TypeOK /\ KeptInv /\ [Next]_vars =>
        [row.status = "completed" => row' = row \/ row'.status = "cancelled"]_vars
  BY FinalStep
<1>6. Spec => CompletedIsFinal
  BY <1>3, <1>5, TypeCorrect, PTL DEF Spec, CompletedIsFinal
<1> QED
  BY <1>3, <1>4, <1>6, PTL DEF CompletionStands
===============================================================================
