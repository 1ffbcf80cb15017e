------------------------------ MODULE Supervisor ------------------------------
(***************************************************************************)
(* One supervisor session: its row in Postgres, the coroutines that run    *)
(* it (the request that created it, requests that resume it, a Ralph       *)
(* cycle), and requests that cancel it (mantis/supervisor).                *)
(*                                                                         *)
(* A runner works on its own copy of the plan; only its DB writes are      *)
(* shared.  A step of the model is the code between two awaits that reach  *)
(* the DB or the child runtime; the loop's iterations in between touch     *)
(* only the runner's copy and are steps of their own.                      *)
(*                                                                         *)
(* Costs are counted in units.  MaxCrashes and MaxDbErrors bound the model *)
(* only.                                                                   *)
(***************************************************************************)
EXTENDS Naturals, FiniteSets

CONSTANTS
  NumSteps,       \* the plan's steps, in plan order
  DependsOn,      \* the step ids each step waits for; an id no step has is 0
  Condition,      \* the step whose "<id>.status == completed" it needs, or 0
  SkipOnFailure,  \* the steps with skip_on_failure
  MaxRetries,     \* max_retries of every step
  Budget,         \* total_budget_usd
  MaxCost,        \* what one successful child may cost
  Runners,        \* requests that run the session
  Cancellers,     \* requests that cancel it
  MaxCrashes,     \* model bound: crashes of the process
  MaxDbErrors     \* model bound: DB writes that raise

Step == 1..NumSteps

ASSUME SupervisorAssumption ==
  /\ NumSteps \in Nat \ {0}
  /\ DependsOn \in [Step -> SUBSET Nat]
  /\ Condition \in [Step -> 0..NumSteps]
  /\ SkipOnFailure \subseteq Step
  /\ MaxRetries \in Nat
  /\ Budget \in Nat \ {0}
  /\ MaxCost \in Nat
  /\ MaxCrashes \in Nat
  /\ MaxDbErrors \in Nat

VARIABLES
  row,       \* the supervisor_sessions row
  pc,        \* where each runner is in _run_session
  plan,      \* each runner's copy of the step statuses
  context,   \* each runner's plan.context: the status recorded for each step
  spent,     \* each runner's BudgetTracker
  current,   \* the step each runner executes
  attempt,   \* retries of that step so far
  view,      \* the row each canceller has read
  crashes,   \* crashes so far
  dbErrors   \* failed DB writes so far

runVars == <<pc, plan, context, spent, current, attempt>>
faultVars == <<crashes, dbErrors>>
vars == <<row, runVars, view, faultVars>>

AllPending == [s \in Step |-> "pending"]
Blank == [s \in Step |-> "absent"]
NoCheckpoint == [written |-> FALSE, steps |-> AllPending, context |-> Blank, cost |-> 0]
NoRow == [status |-> "absent", steps |-> AllPending, context |-> Blank, cost |-> 0,
          checkpoint |-> NoCheckpoint]

Init ==
  /\ row = NoRow
  /\ pc = [r \in Runners |-> "idle"]
  /\ plan = [r \in Runners |-> AllPending]
  /\ context = [r \in Runners |-> Blank]
  /\ spent = [r \in Runners |-> 0]
  /\ current = [r \in Runners |-> 0]
  /\ attempt = [r \in Runners |-> 0]
  /\ view = [c \in Cancellers |-> NoRow]
  /\ crashes = 0
  /\ dbErrors = 0

-------------------------------------------------------------------------------
(***************************************************************************)
(* SupervisorPlan.                                                         *)
(***************************************************************************)
Terminal(p) == {s \in Step : p[s] \in {"completed", "failed", "skipped"}}
IsComplete(p) == Terminal(p) = Step

\* Mutated form of IsReady: depends_on is not looked at.
IsReadyAnyOrder(p, s) == p[s] = "pending"

IsReady(p, s) == p[s] = "pending" /\ DependsOn[s] \subseteq Terminal(p)

\* next_pending_step: the first step in plan order that is ready.
IsNext(p, s) == IsReady(p, s) /\ \A t \in Step : t < s => ~IsReady(p, t)
NothingNext(p) == \A s \in Step : ~IsReady(p, s)

OverallStatus(p) ==
  CASE p = AllPending                                -> "pending"
    [] p # AllPending /\ ~IsComplete(p)              -> "running"
    [] IsComplete(p) /\ \A s \in Step : p[s] \in {"failed", "skipped"} -> "failed"
    [] OTHER                                         -> "completed"

\* _evaluate_condition on "<id>.status == completed".
ConditionHolds(r, s) == Condition[s] # 0 => context[r][Condition[s]] = "completed"

\* Mutated form of HasBudget: < written for <=.
HasBudgetOffByOne(r) == spent[r] <= Budget

HasBudget(r) == spent[r] < Budget

-------------------------------------------------------------------------------
(***************************************************************************)
(* A request begins a run, and its copy of the session goes with it.       *)
(***************************************************************************)
Begin(r, steps, ctx) ==
  /\ pc[r] = "idle"
  /\ pc' = [pc EXCEPT ![r] = "ready"]
  /\ plan' = [plan EXCEPT ![r] = steps]
  /\ context' = [context EXCEPT ![r] = ctx]
  /\ UNCHANGED <<spent, current, attempt>>

EndRuns(R) ==
  /\ pc' = [r \in Runners |-> IF r \in R THEN "idle" ELSE pc[r]]
  /\ plan' = [r \in Runners |-> IF r \in R THEN AllPending ELSE plan[r]]
  /\ context' = [r \in Runners |-> IF r \in R THEN Blank ELSE context[r]]
  /\ spent' = [r \in Runners |-> IF r \in R THEN 0 ELSE spent[r]]
  /\ current' = [r \in Runners |-> IF r \in R THEN 0 ELSE current[r]]
  /\ attempt' = [r \in Runners |-> IF r \in R THEN 0 ELSE attempt[r]]

\* create_session INSERTs the row, then _run_session starts on the same plan.
Create(r) ==
  /\ row.status = "absent"
  /\ row' = [NoRow EXCEPT !.status = "pending"]
  /\ Begin(r, AllPending, Blank)
  /\ UNCHANGED <<view, faultVars>>

\* Mutated form of Resumable: a completed session is run again.
ResumableAlways == row.status \notin {"absent", "cancelled"}

Resumable == row.status \notin {"absent", "completed", "cancelled"}

\* Mutated form of RestoredContext: the context starts empty.
RestoredContextMissing == Blank

RestoredContext == IF row.checkpoint.written THEN row.checkpoint.context ELSE row.context

\* resume_session: the steps of plan_json, the context of the checkpoint, and a
\* new BudgetTracker.
Resume(r) ==
  /\ Resumable
  /\ Begin(r, row.steps, RestoredContext)
  /\ UNCHANGED <<row, view, faultVars>>

-------------------------------------------------------------------------------
(***************************************************************************)
(* The loop of _run_session.                                               *)
(***************************************************************************)
SkipStep(r) ==
  /\ pc[r] = "ready"
  /\ \E s \in Step : /\ IsNext(plan[r], s)
                     /\ ~ConditionHolds(r, s)
                     /\ plan' = [plan EXCEPT ![r][s] = "skipped"]
  /\ UNCHANGED <<row, pc, context, spent, current, attempt, view, faultVars>>

\* The budget gate fails the step and leaves the loop: later steps stay pending.
BudgetGate(r) ==
  /\ pc[r] = "ready"
  /\ ~HasBudget(r)
  /\ \E s \in Step : /\ IsNext(plan[r], s)
                     /\ ConditionHolds(r, s)
                     /\ plan' = [plan EXCEPT ![r][s] = "failed"]
  /\ pc' = [pc EXCEPT ![r] = "saving"]
  /\ UNCHANGED <<row, context, spent, current, attempt, view, faultVars>>

StartStep(r) ==
  /\ pc[r] = "ready"
  /\ HasBudget(r)
  /\ \E s \in Step : /\ IsNext(plan[r], s)
                     /\ ConditionHolds(r, s)
                     /\ plan' = [plan EXCEPT ![r][s] = "running"]
                     /\ current' = [current EXCEPT ![r] = s]
  /\ pc' = [pc EXCEPT ![r] = "invoking"]
  /\ UNCHANGED <<row, context, spent, attempt, view, faultVars>>

\* The child factory or RuntimeConfig refuses the step: the exception leaves
\* _run_session and nothing is written.
StepRefused(r) ==
  /\ pc[r] = "ready"
  /\ HasBudget(r)
  /\ \E s \in Step : IsNext(plan[r], s) /\ ConditionHolds(r, s)
  /\ EndRuns({r})
  /\ UNCHANGED <<row, view, faultVars>>

\* The plan is complete, or no pending step is ready.
LeaveLoop(r) ==
  /\ pc[r] = "ready"
  /\ NothingNext(plan[r])
  /\ pc' = [pc EXCEPT ![r] = "saving"]
  /\ UNCHANGED <<row, plan, context, spent, current, attempt, view, faultVars>>

-------------------------------------------------------------------------------
(***************************************************************************)
(* _execute_step, under the step timeout.                                  *)
(***************************************************************************)
Executing(r) == pc[r] \in {"invoking", "backoff"}

EndStep(r, status) ==
  /\ plan' = [plan EXCEPT ![r][current[r]] = status]
  /\ current' = [current EXCEPT ![r] = 0]
  /\ attempt' = [attempt EXCEPT ![r] = 0]
  /\ pc' = [pc EXCEPT ![r] = "checkpointing"]
  /\ UNCHANGED <<row, view, faultVars>>

\* The outcome goes into plan.context, where later conditions read it.
RecordStep(r, status) ==
  /\ EndStep(r, status)
  /\ context' = [context EXCEPT ![r][current[r]] = status]

ChildSucceeds(r) ==
  /\ pc[r] = "invoking"
  /\ \E c \in 0..MaxCost : spent' = [spent EXCEPT ![r] = @ + c]
  /\ RecordStep(r, "completed")

\* Mutated form of ChildFails: one retry too many.
ChildFailsAgain(r) ==
  /\ pc[r] = "invoking"
  /\ attempt[r] <= MaxRetries
  /\ attempt' = [attempt EXCEPT ![r] = @ + 1]
  /\ pc' = [pc EXCEPT ![r] = "backoff"]
  /\ UNCHANGED <<row, plan, context, spent, current, view, faultVars>>

\* A failed or timed-out result, or an exception that is retried.
ChildFails(r) ==
  /\ pc[r] = "invoking"
  /\ attempt[r] < MaxRetries
  /\ attempt' = [attempt EXCEPT ![r] = @ + 1]
  /\ pc' = [pc EXCEPT ![r] = "backoff"]
  /\ UNCHANGED <<row, plan, context, spent, current, view, faultVars>>

\* asyncio.sleep(delay) is over.
RetryAgain(r) ==
  /\ pc[r] = "backoff"
  /\ pc' = [pc EXCEPT ![r] = "invoking"]
  /\ UNCHANGED <<row, plan, context, spent, current, attempt, view, faultVars>>

\* The last attempt failed; or ValueError, TypeError or another status, which
\* are not retried.
GiveUp(r) ==
  /\ pc[r] = "invoking"
  /\ RecordStep(r, IF current[r] \in SkipOnFailure THEN "skipped" ELSE "failed")
  /\ UNCHANGED spent

\* Mutated forms of StepTimeout: the step keeps its status; it is queued again.
StepTimeoutKeepsRunning(r) ==
  /\ Executing(r)
  /\ EndStep(r, "running")
  /\ UNCHANGED <<context, spent>>

StepTimeoutRequeues(r) ==
  /\ Executing(r)
  /\ EndStep(r, "pending")
  /\ UNCHANGED <<context, spent>>

\* wait_for cancels _execute_step, which records nothing in the context.
StepTimeout(r) ==
  /\ Executing(r)
  /\ EndStep(r, "failed")
  /\ UNCHANGED <<context, spent>>

-------------------------------------------------------------------------------
(***************************************************************************)
(* DB writes of a runner.                                                  *)
(***************************************************************************)
\* update_checkpoint writes checkpoint_json and total_cost_usd, nothing else.
WriteCheckpoint(r) ==
  row' = [row EXCEPT
    !.checkpoint = [written |-> TRUE, steps |-> plan[r], context |-> context[r],
                    cost |-> spent[r]],
    !.cost = spent[r]]

Checkpoint(r) ==
  /\ pc[r] = "checkpointing"
  /\ WriteCheckpoint(r)
  /\ pc' = [pc EXCEPT ![r] = "ready"]
  /\ UNCHANGED <<plan, context, spent, current, attempt, view, faultVars>>

\* Mutated form of WriteSession: plan_json is left out, as in the checkpoint.
WriteSessionStatusOnly(r) ==
  row' = [row EXCEPT !.status = OverallStatus(plan[r]), !.cost = spent[r]]

\* update_supervisor_session writes everything but the checkpoint.
WriteSession(r) ==
  row' = [row EXCEPT !.status = OverallStatus(plan[r]), !.steps = plan[r],
                     !.context = context[r], !.cost = spent[r]]

Save(r) ==
  /\ pc[r] = "saving"
  /\ WriteSession(r)
  /\ EndRuns({r})
  /\ UNCHANGED <<view, faultVars>>

DbError == dbErrors < MaxDbErrors /\ dbErrors' = dbErrors + 1

\* A checkpoint that fails is logged and forgotten; the write may have happened.
CheckpointLost(r) ==
  /\ DbError
  /\ pc[r] = "checkpointing"
  /\ WriteCheckpoint(r) \/ UNCHANGED row
  /\ pc' = [pc EXCEPT ![r] = "ready"]
  /\ UNCHANGED <<plan, context, spent, current, attempt, view, crashes>>

\* An error no handler catches (asyncpg's own, or any at the last UPDATE) ends
\* the run.
RunFails(r) ==
  /\ DbError
  /\ \/ pc[r] = "checkpointing" /\ (WriteCheckpoint(r) \/ UNCHANGED row)
     \/ pc[r] = "saving" /\ (WriteSession(r) \/ UNCHANGED row)
  /\ EndRuns({r})
  /\ UNCHANGED <<view, crashes>>

-------------------------------------------------------------------------------
(***************************************************************************)
(* cancel_session: a SELECT, then an UPDATE of everything it read.         *)
(***************************************************************************)
CancelRead(c) ==
  /\ row.status # "absent"
  /\ view[c] = NoRow
  /\ view' = [view EXCEPT ![c] = row]
  /\ UNCHANGED <<row, runVars, faultVars>>

CancelWrite(c) ==
  /\ view[c] # NoRow
  /\ row' = [row EXCEPT !.status = "cancelled", !.steps = view[c].steps,
                        !.context = view[c].context, !.cost = view[c].cost]
  /\ view' = [view EXCEPT ![c] = NoRow]
  /\ UNCHANGED <<runVars, faultVars>>

\* The API process (or the daemon) dies: the runners with it, the row stays.
Crash ==
  /\ crashes < MaxCrashes
  /\ crashes' = crashes + 1
  /\ EndRuns(Runners)
  /\ view' = [c \in Cancellers |-> NoRow]
  /\ UNCHANGED <<row, dbErrors>>

-------------------------------------------------------------------------------
ChildReturns(r) == ChildSucceeds(r) \/ ChildFails(r) \/ GiveUp(r)

LoopStep(r) == SkipStep(r) \/ BudgetGate(r) \/ StartStep(r) \/ LeaveLoop(r)

\* What a runner does by itself; a child may take for ever.
RunStep(r) ==
  LoopStep(r) \/ RetryAgain(r) \/ StepTimeout(r) \/ Checkpoint(r) \/ Save(r)

RunnerStep(r) ==
  \/ Create(r) \/ Resume(r)
  \/ RunStep(r) \/ StepRefused(r) \/ ChildReturns(r)
  \/ CheckpointLost(r) \/ RunFails(r)

Next ==
  \/ \E r \in Runners : RunnerStep(r)
  \/ \E c \in Cancellers : CancelRead(c) \/ CancelWrite(c)
  \/ Crash

Spec == Init /\ [][Next]_vars

\* A coroutine that can run does run, and timers fire; no child need return.
FairSpec == Spec /\ \A r \in Runners : WF_vars(RunStep(r))

-------------------------------------------------------------------------------
(***************************************************************************)
(* Properties.                                                             *)
(***************************************************************************)
StepStatus == {"pending", "running", "completed", "failed", "skipped"}
Plans == [Step -> StepStatus]
Contexts == [Step -> {"absent", "completed", "failed", "skipped"}]
Checkpoints == [written : BOOLEAN, steps : Plans, context : Contexts, cost : Nat]
Rows == [status : {"absent", "pending", "running", "completed", "failed", "cancelled"},
         steps : Plans, context : Contexts, cost : Nat, checkpoint : Checkpoints]

\* Every variable keeps its type; no step is tried more than MaxRetries + 1
\* times in one run (the for loop of _execute_step).
TypeOK ==
  /\ row \in Rows
  /\ pc \in [Runners -> {"idle", "ready", "invoking", "backoff", "checkpointing", "saving"}]
  /\ plan \in [Runners -> Plans]
  /\ context \in [Runners -> Contexts]
  /\ spent \in [Runners -> Nat]
  /\ current \in [Runners -> 0..NumSteps]
  /\ attempt \in [Runners -> 0..MaxRetries]
  /\ view \in [Cancellers -> Rows]
  /\ crashes \in 0..MaxCrashes
  /\ dbErrors \in 0..MaxDbErrors

\* No plan that is written to the DB, or about to be, has a RUNNING step:
\* next_pending_step would never pick it up again and the session could never
\* complete.  A live runner has exactly the step it executes running.
NoStepStranded ==
  /\ \A s \in Step : row.steps[s] # "running" /\ row.checkpoint.steps[s] # "running"
  /\ \A c \in Cancellers, s \in Step : view[c].steps[s] # "running"
  /\ \A r \in Runners, s \in Step :
       plan[r][s] = "running" <=> Executing(r) /\ s = current[r]

\* In every copy of the plan (a runner's, the row's, the checkpoint's), a step
\* that has left pending has only terminal dependencies, whoever overwrote the
\* row with what.
Ordered(p) == \A s \in Step : p[s] # "pending" => DependsOn[s] \subseteq Terminal(p)

OrderRespected ==
  /\ Ordered(row.steps) /\ Ordered(row.checkpoint.steps)
  /\ \A r \in Runners : Ordered(plan[r])
  /\ \A c \in Cancellers : Ordered(view[c].steps)

\* The status column agrees with plan_json: concurrent runners and cancels
\* overwrite both together.  A completed session has a completed step.
StatusTellsPlan ==
  /\ row.status = "completed" => /\ IsComplete(row.steps)
                                 /\ \E s \in Step : row.steps[s] = "completed"
  /\ row.status = "failed" => \A s \in Step : row.steps[s] \in {"failed", "skipped"}
  /\ row.status = "running" => ~IsComplete(row.steps)

\* The gate of _run_session tests what is spent before a step starts, so one
\* run overshoots the budget by less than one step's cost.
SpendBounded ==
  /\ \A r \in Runners : spent[r] <= Budget - 1 + MaxCost
  /\ row.cost <= Budget - 1 + MaxCost

\* With one runner at a time and no failed write: a step that its plan shows
\* completed is in the context downstream conditions read, across crashes and
\* resumes.
CompletedInContext ==
  \A r \in Runners, s \in Step :
    plan[r][s] = "completed" => context[r][s] = "completed"

\* The row and the runs of a session agree, in every state of the type.
SessionSound == TypeOK /\ StatusTellsPlan

\* With one runner at a time: what a completed session recorded is final, but
\* for a cancel (resume_session refuses it).
CompletedIsFinal ==
  [][row.status = "completed" => row' = row \/ row'.status = "cancelled"]_vars

\* What is completed stays so and is in the context of the steps after it.
CompletionStands == []CompletedInContext /\ CompletedIsFinal

\* Every run ends, whatever the children do (the step timeout bounds each
\* step, and no terminal step is picked again).
RunEnds == \A r \in Runners : pc[r] # "idle" ~> pc[r] = "idle"

\* "Resume from checkpoint should skip completed steps."
\* (tests/test_supervisor_integration.py)
ResumeSkipsCompleted ==
  [][\A r \in Runners :
       pc[r] = "ready" /\ pc'[r] = "invoking"
         => row.checkpoint.steps[current'[r]] # "completed"]_vars

\* cancel_session "Set[s] session status to CANCELLED" (supervisor/runtime.py)
\* and the API answers "cancelled": the status stays.
CancelSticks == [][row.status = "cancelled" => row'.status = "cancelled"]_vars
===============================================================================
