--------------------------------- MODULE Ralph ---------------------------------
(***************************************************************************)
(* Ralph Mode (mantis/supervisor/ralph.py): the cron job that takes queued *)
(* tasks and runs each as a one-step supervisor session.  It shares the    *)
(* Redis list with the daemon's workers and the day's spend with everyone. *)
(* max_instances = 1 keeps one cycle at a time.  The day of the model does *)
(* not end.                                                                *)
(***************************************************************************)
EXTENDS Naturals, Sequences, FiniteSets, SequencesExt

CONSTANTS
  RalphTasks,      \* the tasks of the day, numbered in the order they are submitted
  RalphForeign,    \* those for another project than "default"
  RalphUnknown,    \* those for a project without a row ("scheduler", for one)
  RalphBudget,     \* ralph_budget_usd, the budget of a session
  RalphOverrun,    \* what a session may spend beyond it, its retries included
  RalphDailyMax,   \* daily_max_usd
  RalphMaxAborts   \* model bound: cycles that end in an exception or a kill

ASSUME RalphAssumption ==
  /\ RalphTasks \subseteq Nat
  /\ RalphForeign \subseteq RalphTasks
  /\ RalphUnknown \subseteq RalphForeign
  /\ {RalphBudget, RalphOverrun, RalphDailyMax, RalphMaxAborts} \subseteq Nat

VARIABLES
  ralphDb,       \* whether there is a database pool
  ralphQueue,    \* the pending tasks
  ralphPc,       \* "idle", "discover" or "execute"
  ralphPlans,    \* the tasks of the cycle that have no result yet
  ralphEnded,    \* the tasks with a result, of a cycle or of a worker
  ralphLost,     \* the tasks taken by a cycle that ended before them
  ralphSpent,    \* today's spend of "default" in cost_logs
  ralphOwn,      \* how much of it is Ralph's
  ralphOpened,   \* a gate has failed open today
  ralphAborts

ralphVars == <<ralphDb, ralphQueue, ralphPc, ralphPlans, ralphEnded, ralphLost, ralphSpent,
               ralphOwn, ralphOpened, ralphAborts>>

RalphInit ==
  /\ ralphDb \in BOOLEAN
  /\ ralphQueue = <<>>
  /\ ralphPc = "idle"
  /\ ralphPlans = <<>>
  /\ ralphEnded = {}
  /\ ralphLost = {}
  /\ ralphSpent = 0
  /\ ralphOwn = 0
  /\ ralphOpened = FALSE
  /\ ralphAborts = 0

RalphSubmitted == ToSet(ralphQueue) \cup ToSet(ralphPlans) \cup ralphEnded \cup ralphLost

RalphSubmit(task) ==
  /\ task \notin RalphSubmitted
  /\ \A t \in RalphTasks : t < task => t \in RalphSubmitted
  /\ ralphQueue' = Append(ralphQueue, task)
  /\ UNCHANGED <<ralphDb, ralphPc, ralphPlans, ralphEnded, ralphLost, ralphSpent, ralphOwn,
                 ralphOpened, ralphAborts>>

\* What a run adds to the logged spend of "default".  A session of Ralph's is
\* charged to it whatever the task's project: the orchestrator, which runs the
\* session's step, does not hand the project on.
RalphCharge(cost) == IF ralphDb THEN cost ELSE 0

\* A daemon worker takes and runs the next task, for the task's own project.
RalphWorker(cost) ==
  /\ ralphQueue # <<>>
  /\ ralphQueue' = Tail(ralphQueue)
  /\ ralphEnded' = ralphEnded \cup {Head(ralphQueue)}
  /\ ralphSpent' = ralphSpent + IF Head(ralphQueue) \in RalphForeign THEN 0
                                ELSE RalphCharge(cost)
  /\ UNCHANGED <<ralphDb, ralphPc, ralphPlans, ralphLost, ralphOwn, ralphOpened, ralphAborts>>

\* Mutated form of RalphGate: the cap itself still passes.
RalphGateAtCap ==
  /\ ralphPc = "idle"
  /\ \/ ralphDb /\ ralphSpent <= RalphDailyMax /\ UNCHANGED ralphOpened
     \/ ralphOpened' = TRUE
  /\ ralphPc' = "discover"
  /\ UNCHANGED <<ralphDb, ralphQueue, ralphPlans, ralphEnded, ralphLost, ralphSpent, ralphOwn,
                 ralphAborts>>

\* _check_budget_gate, passed: below the cap, or open because there is no
\* database or the query failed.  A blocked cycle ends at once.
RalphGate ==
  /\ ralphPc = "idle"
  /\ \/ ralphDb /\ ralphSpent < RalphDailyMax /\ UNCHANGED ralphOpened
     \/ ralphOpened' = TRUE
  /\ ralphPc' = "discover"
  /\ UNCHANGED <<ralphDb, ralphQueue, ralphPlans, ralphEnded, ralphLost, ralphSpent, ralphOwn,
                 ralphAborts>>

\* Mutated form of RalphTake: every waiting task is taken.
RalphTakeAll ==
  /\ ralphPc = "discover"
  /\ ralphQueue # <<>>
  /\ ralphPlans' = Append(ralphPlans, Head(ralphQueue))
  /\ ralphQueue' = Tail(ralphQueue)
  /\ UNCHANGED <<ralphDb, ralphPc, ralphEnded, ralphLost, ralphSpent, ralphOwn, ralphOpened,
                 ralphAborts>>

\* _discover_work: one consume, of three at most.
RalphTake ==
  /\ ralphPc = "discover"
  /\ Len(ralphPlans) < 3
  /\ ralphQueue # <<>>
  /\ ralphPlans' = Append(ralphPlans, Head(ralphQueue))
  /\ ralphQueue' = Tail(ralphQueue)
  /\ UNCHANGED <<ralphDb, ralphPc, ralphEnded, ralphLost, ralphSpent, ralphOwn, ralphOpened,
                 ralphAborts>>

\* Three plans, or nothing came for a second.
RalphDiscovered ==
  /\ ralphPc = "discover"
  /\ Len(ralphPlans) = 3 \/ ralphQueue = <<>>
  /\ ralphPc' = IF ralphPlans = <<>> THEN "idle" ELSE "execute"
  /\ UNCHANGED <<ralphDb, ralphQueue, ralphPlans, ralphEnded, ralphLost, ralphSpent, ralphOwn,
                 ralphOpened, ralphAborts>>

\* Mutated form of RalphExecute: a failed plan ends the loop.
RalphExecuteBreaks(cost, fails) ==
  LET task == Head(ralphPlans)
  IN /\ ralphPc = "execute"
     /\ ralphDb => task \notin RalphUnknown
     /\ ralphEnded' = ralphEnded \cup {task}
     /\ ralphPlans' = IF fails THEN <<>> ELSE Tail(ralphPlans)
     /\ ralphSpent' = ralphSpent + RalphCharge(cost)
     /\ ralphOwn' = ralphOwn + RalphCharge(cost)
     /\ ralphPc' = IF ralphPlans' = <<>> THEN "idle" ELSE "execute"
     /\ UNCHANGED <<ralphDb, ralphQueue, ralphLost, ralphOpened, ralphAborts>>

\* _execute_plan for the next plan: the session ends, or fails in a way run_cycle
\* handles, having spent what it has; either is a result.
RalphExecute(cost, fails) ==
  LET task == Head(ralphPlans)
  IN /\ ralphPc = "execute"
     /\ ralphDb => task \notin RalphUnknown
     /\ ralphEnded' = ralphEnded \cup {task}
     /\ ralphPlans' = Tail(ralphPlans)
     /\ ralphSpent' = ralphSpent + RalphCharge(cost)
     /\ ralphOwn' = ralphOwn + RalphCharge(cost)
     /\ ralphPc' = IF ralphPlans' = <<>> THEN "idle" ELSE "execute"
     /\ UNCHANGED <<ralphDb, ralphQueue, ralphLost, ralphOpened, ralphAborts>>

\* The cycle ends with its plans undone: Redis fails in a consume; the session
\* row is refused, which create_session does not catch and run_cycle does not
\* list (always for a project without a row); or the daemon is stopped, and what
\* the session at work has spent is in the books.
RalphAbort(cost) ==
  /\ ralphPc # "idle"
  /\ cost > 0 => ralphPc = "execute" /\ (ralphDb => Head(ralphPlans) \notin RalphUnknown)
  /\ ralphSpent' = ralphSpent + RalphCharge(cost)
  /\ ralphOwn' = ralphOwn + RalphCharge(cost)
  /\ ralphAborts < RalphMaxAborts
  /\ ralphAborts' = ralphAborts + 1
  /\ ralphLost' = ralphLost \cup ToSet(ralphPlans)
  /\ ralphPlans' = <<>>
  /\ ralphPc' = "idle"
  /\ UNCHANGED <<ralphDb, ralphQueue, ralphEnded, ralphOpened>>

RalphNext ==
  \/ \E task \in RalphTasks : RalphSubmit(task)
  \/ \E cost \in {0, RalphBudget} : RalphWorker(cost)
  \/ RalphGate
  \/ RalphTake
  \/ RalphDiscovered
  \/ \E cost \in {0, RalphBudget, RalphBudget + RalphOverrun} :
       (\E fails \in BOOLEAN : RalphExecute(cost, fails)) \/ RalphAbort(cost)

RalphSpec == RalphInit /\ [][RalphNext]_ralphVars

--------------------------------------------------------------------------------
\* The gate is asked once a cycle, of the spend before the cycle, while workers
\* spend at the same time; still Ralph's own spend of "default", if any, stays
\* below the daily cap plus three whole sessions, on a day when no gate failed
\* open.  (The budget, described as "Per-cycle Ralph budget" in
\* config/settings.py:227, is given to each of the cycle's plans.)
RalphSpendBounded ==
  ~ralphOpened /\ ralphOwn > 0 =>
    ralphOwn < RalphDailyMax + 3 * (RalphBudget + RalphOverrun)

\* A task is in the queue, in the cycle, ended or lost, and in one of them only:
\* a failing plan takes none of the others with it.
RalphAccounted ==
  [][/\ RalphSubmitted \subseteq RalphSubmitted'
     /\ Len(ralphQueue') + Len(ralphPlans') + Cardinality(ralphEnded') + Cardinality(ralphLost')
          = Cardinality(RalphSubmitted')]_ralphVars

\* What is taken off Redis is in memory only: an aborted cycle loses three tasks
\* at the most.
RalphLossBounded == Cardinality(ralphLost) <= 3 * ralphAborts

\* Ralph's promise, of its money and of the work it was given.
RalphSound == [](RalphSpendBounded /\ RalphLossBounded) /\ RalphAccounted
================================================================================
