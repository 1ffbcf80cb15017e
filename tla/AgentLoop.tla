------------------------------- MODULE AgentLoop -------------------------------
(***************************************************************************)
(* agent/loop.py: callers that run run_agent on one project, again and      *)
(* again, each run with its AgentSession, its row in agent_sessions, the DB *)
(* writes it leaves under way and, when LegacyRuntime.stream started it,    *)
(* its stream queue.                                                        *)
(*                                                                          *)
(* A step is the code between two awaits, or a DB statement taking effect.  *)
(* Money is in whole units.  Prompts, messages, tools and memory are left   *)
(* out: a tool call never raises, and its result only goes to the LLM.      *)
(* The project has a row with a monthly budget, and the run is within one   *)
(* month; the daily cap and the hourly breaker, which look at other spans   *)
(* of time, refuse as they like.                                            *)
(***************************************************************************)
EXTENDS Naturals, Sequences, FiniteSets

CONSTANTS
  Callers,        \* the callers of run_agent, one run each at a time
  Streamed,       \* those that go through LegacyRuntime.stream
  MaxIterations,  \* max_iterations
  SessionLimit,   \* budget_limit_usd
  Estimate,       \* estimate_cost of one more iteration
  Costs,          \* model bound: what one LLM call may cost
  MaxCost,        \* the most of them
  ProjectBudget,  \* budget_monthly_usd of the project
  QueueSize       \* maxsize of the stream queue

ASSUME AgentLoopAssumption ==
  /\ IsFiniteSet(Callers)
  /\ Streamed \subseteq Callers
  /\ MaxIterations \in Nat \ {0}
  /\ SessionLimit \in Nat
  /\ Estimate \in Nat \ {0}
  /\ MaxCost \in Nat
  /\ Costs \subseteq 0..MaxCost
  /\ ProjectBudget \in Nat
  /\ QueueSize \in Nat \ {0}

VARIABLES
  pc,        \* the await each run is at
  status,    \* session.status
  n,         \* session.iteration_count
  spent,     \* session.total_cost_usd
  pool,      \* the run has a connection pool
  seen,      \* monthly_spend as the run read it
  row,       \* the run's row in agent_sessions: [status, count]
  updates,   \* iterations whose update_session is under way
  logs,      \* <<iteration, cost>> whose insert_cost_log is under way
  logged,    \* the sum of the project's cost_logs
  queue,     \* the stream queues, of "event" and the sentinel "end"
  consumer   \* "reading", "ended" by the sentinel, "left", or "none"

sessionVars == <<status, n, spent>>
dbVars == <<row, updates, logs, logged>>
streamVars == <<queue, consumer>>
vars == <<pc, sessionVars, pool, seen, dbVars, streamVars>>

Iterations == 1..MaxIterations
Statuses == {"active", "completed", "failed", "timeout", "budget_exceeded"}
Stops == {"idle", "done", "refused", "raised", "cancelled"}
Awaits == {"create", "read", "judge", "refuse", "llm", "tools", "flush", "close", "sentinel"}

DbStatus(s) == IF s = "budget_exceeded" THEN "failed" ELSE s

NoRow == [status |-> "none", count |-> 0]

Settled(r) == updates[r] = {} /\ logs[r] = {}

Init ==
  /\ pc = [r \in Callers |-> "idle"]
  /\ status = [r \in Callers |-> "active"]
  /\ n = [r \in Callers |-> 0]
  /\ spent = [r \in Callers |-> 0]
  /\ pool = [r \in Callers |-> FALSE]
  /\ seen = [r \in Callers |-> 0]
  /\ row = [r \in Callers |-> NoRow]
  /\ updates = [r \in Callers |-> {}]
  /\ logs = [r \in Callers |-> {}]
  /\ logged = 0
  /\ queue = [r \in Callers |-> <<>>]
  /\ consumer = [r \in Callers |-> "none"]

-------------------------------------------------------------------------------
(***************************************************************************)
(* Helpers: where a run goes, and the writes to its row and its queue.      *)
(***************************************************************************)
Goto(r, l) == pc' = [pc EXCEPT ![r] = l]

\* Mutated form of Push: the queue has no maxsize.
PushUnbounded(r) ==
  queue' = IF r \in Streamed THEN [queue EXCEPT ![r] = Append(@, "event")] ELSE queue

\* _push_stream_event: put_nowait, and the event is dropped if the queue is full.
Push(r) ==
  queue' = IF r \in Streamed /\ Len(queue[r]) < QueueSize
           THEN [queue EXCEPT ![r] = Append(@, "event")] ELSE queue

\* A statement that sets the status of the run's row, and its count.
Written(r, s, k) == row' = [row EXCEPT ![r] = [status |-> s, count |-> k]]

\* Mutated form of Closed: the last UPDATE leaves the count to update_session.
ClosedStatusOnly(r) == Written(r, DbStatus(status[r]), row[r].count)

\* close_session: the status and, again, the count.
Closed(r) == Written(r, DbStatus(status[r]), n[r])

\* session.add_iteration and _schedule_db_writes.
AddIteration(r, c) ==
  /\ n' = [n EXCEPT ![r] = @ + 1]
  /\ spent' = [spent EXCEPT ![r] = @ + c]
  /\ updates' = IF pool[r] THEN [updates EXCEPT ![r] = @ \cup {n[r] + 1}] ELSE updates
  /\ logs' = IF pool[r] THEN [logs EXCEPT ![r] = @ \cup {<<n[r] + 1, c>>}] ELSE logs

-------------------------------------------------------------------------------
(***************************************************************************)
(* Before the loop: the row and the budgets, or no database at all.         *)
(***************************************************************************)
\* A caller is back when its run is over and, to keep the model finite, when
\* the writes that a cancelled run left behind have ended.
Start(r) ==
  /\ pc[r] \in Stops
  /\ Settled(r)
  /\ consumer[r] # "reading"
  /\ \E p \in BOOLEAN :
       /\ pool' = [pool EXCEPT ![r] = p]
       /\ Goto(r, IF p THEN "create" ELSE "loop")
  /\ status' = [status EXCEPT ![r] = "active"]
  /\ n' = [n EXCEPT ![r] = 0]
  /\ spent' = [spent EXCEPT ![r] = 0]
  /\ row' = [row EXCEPT ![r] = NoRow]
  /\ queue' = [queue EXCEPT ![r] = <<>>]
  /\ consumer' = [consumer EXCEPT ![r] = IF r \in Streamed THEN "reading" ELSE "none"]
  /\ UNCHANGED <<seen, updates, logs, logged>>

CreateSession(r) ==
  /\ pc[r] = "create"
  /\ Written(r, "active", 0)
  /\ Goto(r, "read")
  /\ UNCHANGED <<sessionVars, pool, seen, updates, logs, logged, streamVars>>

ReadSpend(r) ==
  /\ pc[r] = "read"
  /\ seen' = [seen EXCEPT ![r] = logged]
  /\ Goto(r, "judge")
  /\ UNCHANGED <<sessionVars, pool, dbVars, streamVars>>

\* monthly_spend is not looked at again.
Forget(r) == seen' = [seen EXCEPT ![r] = 0]

\* Mutated form of WithinProject: a budget just used up still admits a run.
WithinProjectOrAt(r) == seen[r] <= ProjectBudget

WithinProject(r) == seen[r] < ProjectBudget

Admit(r) ==
  /\ pc[r] = "judge"
  /\ WithinProject(r)
  /\ Forget(r)
  /\ Goto(r, "loop")
  /\ UNCHANGED <<sessionVars, pool, dbVars, streamVars>>

\* The project's budget refuses, or else the daily cap or the breaker may.
Refuse(r) ==
  /\ pc[r] = "judge"
  /\ status' = [status EXCEPT ![r] = "budget_exceeded"]
  /\ Forget(r)
  /\ Goto(r, "refuse")
  /\ UNCHANGED <<n, spent, pool, dbVars, streamVars>>

\* A refused run returns at once: its stream queue gets no sentinel.
CloseRefused(r) ==
  /\ pc[r] = "refuse"
  /\ Closed(r)
  /\ Goto(r, "refused")
  /\ UNCHANGED <<sessionVars, pool, seen, updates, logs, logged, streamVars>>

\* Any error so far, in a statement that took effect or not, costs the run
\* its pool and nothing else: even one that was being refused goes on.
DbInitFails(r) ==
  /\ pc[r] \in {"create", "read", "judge", "refuse"}
  /\ pool' = [pool EXCEPT ![r] = FALSE]
  /\ Goto(r, "loop")
  /\ \/ pc[r] = "create" /\ Written(r, "active", 0)
     \/ pc[r] = "refuse" /\ Closed(r)
     \/ UNCHANGED row
  /\ Forget(r)
  /\ UNCHANGED <<sessionVars, updates, logs, logged, streamVars>>

-------------------------------------------------------------------------------
(***************************************************************************)
(* The ReAct loop.                                                          *)
(***************************************************************************)
\* Mutated form of Affordable: the estimate is left out of the check.
AffordableSoFar(r) == spent[r] <= SessionLimit

\* check_budget: the limit must leave room for the estimate.
Affordable(r) == spent[r] + Estimate <= SessionLimit

CallLLM(r) ==
  /\ pc[r] = "loop"
  /\ n[r] < MaxIterations
  /\ Affordable(r)
  /\ Goto(r, "llm")
  /\ UNCHANGED <<sessionVars, pool, seen, dbVars, streamVars>>

BudgetStops(r) ==
  /\ pc[r] = "loop"
  /\ n[r] < MaxIterations
  /\ ~Affordable(r)
  /\ status' = [status EXCEPT ![r] = "budget_exceeded"]
  /\ Push(r)
  /\ Goto(r, "flush")
  /\ UNCHANGED <<n, spent, pool, seen, dbVars, consumer>>

\* The for loop ends without a break: no event is pushed.
Exhausted(r) ==
  /\ pc[r] = "loop"
  /\ n[r] = MaxIterations
  /\ status' = [status EXCEPT ![r] = "timeout"]
  /\ Goto(r, "flush")
  /\ UNCHANGED <<n, spent, pool, seen, dbVars, streamVars>>

LLMFails(r) ==
  /\ pc[r] = "llm"
  /\ status' = [status EXCEPT ![r] = "failed"]
  /\ Push(r)
  /\ Goto(r, "flush")
  /\ UNCHANGED <<n, spent, pool, seen, dbVars, consumer>>

\* An answer the code cannot read (no choices) is outside every handler.
LLMMalformed(r) ==
  /\ pc[r] = "llm"
  /\ Goto(r, "raised")
  /\ UNCHANGED <<sessionVars, pool, seen, dbVars, streamVars>>

FinalAnswer(r) ==
  /\ pc[r] = "llm"
  /\ \E c \in Costs : AddIteration(r, c)
  /\ status' = [status EXCEPT ![r] = "completed"]
  /\ Push(r)
  /\ Goto(r, "flush")
  /\ UNCHANGED <<pool, seen, row, logged, consumer>>

ToolCalls(r) ==
  /\ pc[r] = "llm"
  /\ Goto(r, "tools")
  /\ UNCHANGED <<sessionVars, pool, seen, dbVars, streamVars>>

\* The iteration, cost included, counts only when its tools are over.
ToolsDone(r) ==
  /\ pc[r] = "tools"
  /\ \E c \in Costs : AddIteration(r, c)
  /\ Push(r)
  /\ Goto(r, "loop")
  /\ UNCHANGED <<status, pool, seen, row, logged, consumer>>

-------------------------------------------------------------------------------
(***************************************************************************)
(* The DB writes an iteration leaves under way end in any order, and an     *)
(* error of theirs is nobody's.  update_session runs up to its statement    *)
(* before the loop goes on, so it writes the count it was scheduled at;     *)
(* only its landing is late.                                                *)
(***************************************************************************)
UpdateEnds(r, k) ==
  /\ k \in updates[r]
  /\ updates' = [updates EXCEPT ![r] = @ \ {k}]
  /\ row' \in {row, [row EXCEPT ![r].count = k]}
  /\ UNCHANGED <<pc, sessionVars, pool, seen, logs, logged, streamVars>>

LogEnds(r, k, c) ==
  /\ <<k, c>> \in logs[r]
  /\ logs' = [logs EXCEPT ![r] = @ \ {<<k, c>>}]
  /\ logged' \in {logged, logged + c}
  /\ UNCHANGED <<pc, sessionVars, pool, seen, row, updates, streamVars>>

-------------------------------------------------------------------------------
(***************************************************************************)
(* After the loop: flush, close, sentinel.                                  *)
(***************************************************************************)
\* Mutated form of Flush: the pending writes are not awaited.
FlushHasty(r) ==
  /\ pc[r] = "flush"
  /\ Goto(r, IF pool[r] THEN "close" ELSE "sentinel")
  /\ UNCHANGED <<sessionVars, pool, seen, dbVars, streamVars>>

Flush(r) ==
  /\ pc[r] = "flush"
  /\ Settled(r)
  /\ Goto(r, IF pool[r] THEN "close" ELSE "sentinel")
  /\ UNCHANGED <<sessionVars, pool, seen, dbVars, streamVars>>

\* Closing an MCP bridge is outside every handler, too.
BridgeFails(r) ==
  /\ pc[r] = "flush"
  /\ Goto(r, "raised")
  /\ UNCHANGED <<sessionVars, pool, seen, dbVars, streamVars>>

CloseSession(r) ==
  /\ pc[r] = "close"
  /\ Closed(r)
  /\ Goto(r, "sentinel")
  /\ UNCHANGED <<sessionVars, pool, seen, updates, logs, logged, streamVars>>

\* asyncpg's server errors and OSError are caught; its client errors are not.
CloseFails(r) ==
  /\ pc[r] = "close"
  /\ Closed(r) \/ UNCHANGED row
  /\ \E l \in {"sentinel", "raised"} : Goto(r, l)
  /\ UNCHANGED <<sessionVars, pool, seen, updates, logs, logged, streamVars>>

\* Mutated form of PutSentinel: put_nowait, as for the events.
PutSentinelNowait(r) ==
  /\ pc[r] = "sentinel"
  /\ queue' = IF r \in Streamed /\ Len(queue[r]) < QueueSize
              THEN [queue EXCEPT ![r] = Append(@, "end")] ELSE queue
  /\ Goto(r, "done")
  /\ UNCHANGED <<sessionVars, pool, seen, dbVars, consumer>>

\* put waits for room, so the sentinel is never dropped.
PutSentinel(r) ==
  /\ pc[r] = "sentinel"
  /\ r \in Streamed => Len(queue[r]) < QueueSize
  /\ queue' = IF r \in Streamed THEN [queue EXCEPT ![r] = Append(@, "end")] ELSE queue
  /\ Goto(r, "done")
  /\ UNCHANGED <<sessionVars, pool, seen, dbVars, consumer>>

-------------------------------------------------------------------------------
(***************************************************************************)
(* LegacyRuntime.stream, and the callers that give up on a run.             *)
(***************************************************************************)
Get(r) ==
  /\ consumer[r] = "reading"
  /\ queue[r] # <<>>
  /\ queue' = [queue EXCEPT ![r] = Tail(@)]
  /\ consumer' = [consumer EXCEPT ![r] = IF Head(queue[r]) = "end" THEN "ended" ELSE @]
  /\ UNCHANGED <<pc, sessionVars, pool, seen, dbVars>>

\* The run is cancelled where it waits.  A statement of its own may or may
\* not take effect; gather takes the writes it waits for down with it, while
\* those of a run that is still in its loop go on without it.
Cancelled(r) ==
  /\ pc[r] \in Awaits
  /\ Goto(r, "cancelled")
  /\ \/ pc[r] = "create" /\ Written(r, "active", 0)
     \/ pc[r] \in {"refuse", "close"} /\ Closed(r)
     \/ UNCHANGED row
  /\ IF pc[r] = "flush"
     THEN /\ \E left \in SUBSET updates[r] : updates' = [updates EXCEPT ![r] = left]
          /\ \E left \in SUBSET logs[r] : logs' = [logs EXCEPT ![r] = left]
     ELSE UNCHANGED <<updates, logs>>
  /\ Forget(r)
  /\ UNCHANGED <<sessionVars, pool, logged>>

\* The client disconnects or the API's stream timeout strikes.
ConsumerLeaves(r) ==
  /\ consumer[r] = "reading"
  /\ consumer' = [consumer EXCEPT ![r] = "left"]
  /\ UNCHANGED queue
  /\ \/ Cancelled(r)
     \/ pc[r] \in Stops /\ UNCHANGED <<pc, sessionVars, pool, seen, dbVars>>

\* A timeout of invoke's caller, a stage timeout, a daemon that shuts down.
CallerCancels(r) ==
  /\ r \notin Streamed
  /\ Cancelled(r)
  /\ UNCHANGED streamVars

-------------------------------------------------------------------------------
Write(r) == \E k \in Iterations : UpdateEnds(r, k) \/ \E c \in Costs : LogEnds(r, k, c)

Next ==
  \E r \in Callers :
    \/ Start(r) \/ CreateSession(r) \/ ReadSpend(r) \/ Admit(r) \/ Refuse(r)
    \/ CloseRefused(r) \/ DbInitFails(r)
    \/ CallLLM(r) \/ BudgetStops(r) \/ Exhausted(r)
    \/ LLMFails(r) \/ LLMMalformed(r) \/ FinalAnswer(r) \/ ToolCalls(r) \/ ToolsDone(r)
    \/ Write(r)
    \/ Flush(r) \/ BridgeFails(r) \/ CloseSession(r) \/ CloseFails(r) \/ PutSentinel(r)
    \/ Get(r) \/ ConsumerLeaves(r) \/ CallerCancels(r)

Spec == Init /\ [][Next]_vars

-------------------------------------------------------------------------------
(***************************************************************************)
(* Properties.                                                              *)
(***************************************************************************)
\* Every variable stays in its type; the iterations never pass MaxIterations
\* (loop.py's for) and the queue its maxsize.
TypeOK ==
  /\ pc \in [Callers -> Stops \cup Awaits \cup {"loop"}]
  /\ status \in [Callers -> Statuses]
  /\ n \in [Callers -> 0..MaxIterations]
  /\ spent \in [Callers -> Nat]
  /\ pool \in [Callers -> BOOLEAN]
  /\ seen \in [Callers -> Nat]
  /\ row \in [Callers -> [status : Statuses \cup {"none"}, count : 0..MaxIterations]]
  /\ updates \in [Callers -> SUBSET Iterations]
  /\ logs \in [Callers -> SUBSET (Iterations \X Costs)]
  /\ logged \in Nat
  /\ queue \in [Callers -> Seq({"event", "end"})]
  /\ \A r \in Callers : Len(queue[r]) <= QueueSize
  /\ consumer \in [Callers -> {"none", "reading", "ended", "left"}]

\* A row with a final status tells the session as it ended, though the
\* updates of its iterations land late and in any order.  (A run that lost
\* its pool while it was refused has no say in its row any more.)
RowTellsSession ==
  \A r \in Callers :
    pool[r] /\ row[r].status \notin {"none", "active"} =>
      row[r] = [status |-> DbStatus(status[r]), count |-> n[r]]

\* What a session may have spent: the check before each iteration leaves room
\* for the estimate, and the iteration may cost more than that.
SessionCap == IF Estimate <= SessionLimit THEN SessionLimit - Estimate + MaxCost ELSE 0

\* No session spends more than its limit, less the estimate, plus one call.
SessionSpendBounded == \A r \in Callers : spent[r] <= SessionCap

\* The project's budget is tested once per run, on costs that are logged
\* late: it is overshot by the sessions under way at a time, and no further.
ProjectSpendBounded ==
  logged <= (IF ProjectBudget = 0 THEN 0 ELSE ProjectBudget - 1 + Cardinality(Callers) * SessionCap)

\* The project's money, in every state of the type above.
ProjectSound == TypeOK /\ ProjectSpendBounded

\* A client told that the stream is over finds the session settled: nothing
\* of the run is under way that would still change its row or the cost logs.
StreamEndMeansSettled ==
  \A r \in Callers : consumer[r] = "ended" => pc[r] = "done" /\ Settled(r)

\* Once it is through its loop, a run leaves its sentinel in the queue or has
\* ended the stream with it: nothing that a full queue drops is the sentinel.
SentinelDelivered ==
  \A r \in Streamed :
    pc[r] = "done" /\ consumer[r] = "reading" =>
      queue[r] # <<>> /\ queue[r][Len(queue[r])] = "end"

\* The end of a stream, seen from the client's side and from the run's.
StreamEndSound == StreamEndMeansSettled /\ SentinelDelivered
=============================================================================
