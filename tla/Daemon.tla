-------------------------------- MODULE Daemon --------------------------------
(***************************************************************************)
(* The daemon process (server.py, worker.py, lifecycle.py, scheduler.py)   *)
(* and the API process around one TaskQueue: socket clients, cron jobs and *)
(* API handlers submit, workers consume and record, the server opens and   *)
(* shuts down.  A step is the code between two awaits, so every Redis      *)
(* command is a step of its own and another coroutine, or the other        *)
(* process, may run before the next one.                                   *)
(*                                                                         *)
(* Faults: the daemon is killed, the API process restarts, or Redis raises *)
(* on a command (whose effect may still have happened).  MaxFaults bounds  *)
(* them, MaxTasks the submissions of each submitter; both only bound the   *)
(* model.                                                                  *)
(***************************************************************************)
EXTENDS TaskQueue

CONSTANTS
  SocketClients,   \* connections served by DaemonServer._handle_client
  CronJobs,        \* jobs of DaemonScheduler, run inside the daemon
  ApiHandlers,     \* POST /tasks handlers of the API process
  Workers,         \* worker_loop coroutines of the daemon
  DaemonMaxSize,   \* maxsize of the daemon's TaskQueue
  ApiMaxSize,      \* maxsize of the API's TaskQueue
  MaxTasks,        \* model bound: submissions per submitter
  MaxFaults,       \* model bound: crashes, API restarts and Redis errors
  NoTask           \* a worker that holds no request

Submitters == SocketClients \cup CronJobs \cup ApiHandlers

\* A request id (a uuid4 in the code): the submitter and its count.
Task == Submitters \X (1..MaxTasks)

ASSUME DaemonAssumption ==
  /\ SocketClients \cap CronJobs = {}
  /\ SocketClients \cap ApiHandlers = {}
  /\ CronJobs \cap ApiHandlers = {}
  /\ DaemonMaxSize \in Nat \ {0}
  /\ ApiMaxSize \in Nat \ {0}
  /\ MaxTasks \in Nat
  /\ MaxFaults \in Nat
  /\ NoTask \notin Task
  /\ IsFiniteSet(Submitters)
  /\ IsFiniteSet(Workers)

VARIABLES
  server,         \* where DaemonServer.run is
  shutdownEvent,  \* the asyncio.Event the workers poll
  snapshot,       \* what drain's LRANGE returned
  drained,        \* every request a drain returned (and shutdown logged)
  subPc,          \* where each submitter is in submit
  made,           \* how many requests each submitter has built
  workerPc,       \* where each worker is in worker_loop
  workerTask,     \* the request each worker holds
  shadow,         \* the local counters of the two TaskQueue objects
  faults,         \* faults so far
  accepted,       \* history: every request a push put on the list
  starts,         \* history: how often each request was handed to run_agent
  lost            \* history: requests whose holder died or whose reply was lost

serverVars == <<server, shutdownEvent, snapshot, drained>>
submitVars == <<subPc, made, accepted>>
workerVars == <<workerPc, workerTask, starts>>
vars == <<redisVars, serverVars, submitVars, workerVars, shadow, faults, lost>>

Processes == {"daemon", "api"}
Limit(s) == IF s \in ApiHandlers THEN ApiMaxSize ELSE DaemonMaxSize
Home(s) == IF s \in ApiHandlers THEN "api" ELSE "daemon"
Current(s) == <<s, made[s]>>

Busy == {w \in Workers : workerPc[w] \in {"running", "storing", "counting"}}
Held == {workerTask[w] : w \in Busy}
InFlight == {w \in Busy : workerPc[w] # "counting"}
Running == {workerTask[w] : w \in InFlight}

Init ==
  /\ QueueInit
  /\ server = "down"
  /\ shutdownEvent = FALSE
  /\ snapshot = {}
  /\ drained = {}
  /\ subPc = [s \in Submitters |-> "idle"]
  /\ made = [s \in Submitters |-> 0]
  /\ workerPc = [w \in Workers |-> "off"]
  /\ workerTask = [w \in Workers |-> NoTask]
  /\ shadow = [p \in Processes |-> [submitted |-> 0, completed |-> 0]]
  /\ faults = 0
  /\ accepted = {}
  /\ starts = [t \in Task |-> 0]
  /\ lost = {}

-------------------------------------------------------------------------------
(***************************************************************************)
(* Submitters.                                                             *)
(***************************************************************************)
\* A client connects; the handler waits in reader.read for its message.
Connect(s) ==
  /\ s \in SocketClients
  /\ server = "up"
  /\ subPc[s] = "idle"
  /\ subPc' = [subPc EXCEPT ![s] = "connected"]
  /\ UNCHANGED <<redisVars, serverVars, made, accepted, workerVars, shadow,
                 faults, lost>>

\* The client closes without sending: read returns b"" and the handler ends.
HangUp(s) ==
  /\ subPc[s] = "connected"
  /\ subPc' = [subPc EXCEPT ![s] = "idle"]
  /\ UNCHANGED <<redisVars, serverVars, made, accepted, workerVars, shadow,
                 faults, lost>>

\* A socket client submits on its connection, a cron job while the scheduler
\* runs, an API handler at any time.
MaySubmit(s) ==
  \/ s \in SocketClients /\ subPc[s] = "connected"
  \/ s \in CronJobs /\ server = "up" /\ subPc[s] = "idle"
  \/ s \in ApiHandlers /\ subPc[s] = "idle"

\* LLEN: there is room, go on to push; or RuntimeError("Queue full").
SubmitCheck(s) ==
  /\ MaySubmit(s)
  /\ made[s] < MaxTasks
  /\ made' = [made EXCEPT ![s] = @ + 1]
  /\ \/ HasRoom(Limit(s)) /\ subPc' = [subPc EXCEPT ![s] = "checked"]
     \/ ~HasRoom(Limit(s)) /\ subPc' = [subPc EXCEPT ![s] = "idle"]
  /\ UNCHANGED <<redisVars, serverVars, accepted, workerVars, shadow, faults, lost>>

SubmitPush(s) ==
  /\ subPc[s] = "checked"
  /\ Push(Current(s))
  /\ accepted' = accepted \cup {Current(s)}
  /\ subPc' = [subPc EXCEPT ![s] = "pushed"]
  /\ UNCHANGED <<serverVars, made, workerVars, shadow, faults, lost>>

SubmitCount(s) ==
  /\ subPc[s] = "pushed"
  /\ CountSubmitted
  /\ shadow' = [shadow EXCEPT ![Home(s)].submitted = @ + 1]
  /\ subPc' = [subPc EXCEPT ![s] = "idle"]
  /\ UNCHANGED <<serverVars, made, accepted, workerVars, faults, lost>>

-------------------------------------------------------------------------------
(***************************************************************************)
(* Workers.                                                                *)
(***************************************************************************)
\* while not shutdown_event.is_set(): ... consume(timeout=1.0)
WorkerCheckEvent(w) ==
  /\ workerPc[w] = "checking"
  /\ workerPc' = [workerPc EXCEPT ![w] = IF shutdownEvent THEN "stopped" ELSE "polling"]
  /\ UNCHANGED <<redisVars, serverVars, submitVars, workerTask, starts, shadow,
                 faults, lost>>

\* Mutated form of WorkerPollTimeout: the loop ends when a poll finds nothing.
WorkerPollTimeoutEnds(w) ==
  /\ workerPc[w] = "polling"
  /\ NothingToPop
  /\ workerPc' = [workerPc EXCEPT ![w] = "stopped"]
  /\ UNCHANGED <<serverVars, submitVars, workerTask, starts, shadow, faults, lost>>

WorkerPollTimeout(w) ==
  /\ workerPc[w] = "polling"
  /\ NothingToPop
  /\ workerPc' = [workerPc EXCEPT ![w] = "checking"]
  /\ UNCHANGED <<serverVars, submitVars, workerTask, starts, shadow, faults, lost>>

WorkerPop(w) ==
  /\ workerPc[w] = "polling"
  /\ \E t \in Queued(pending) :
       /\ Pop(t)
       /\ workerTask' = [workerTask EXCEPT ![w] = t]
       /\ starts' = [starts EXCEPT ![t] = @ + 1]
  /\ workerPc' = [workerPc EXCEPT ![w] = "running"]
  /\ UNCHANGED <<serverVars, submitVars, shadow, faults, lost>>

\* execute_task returns a TaskResult whatever run_agent does.
WorkerRunAgent(w) ==
  /\ workerPc[w] = "running"
  /\ workerPc' = [workerPc EXCEPT ![w] = "storing"]
  /\ UNCHANGED <<redisVars, serverVars, submitVars, workerTask, starts, shadow,
                 faults, lost>>

\* Mutated form of WorkerStore: the result is counted but not stored.
WorkerStoreSkipped(w) ==
  /\ workerPc[w] = "storing"
  /\ workerPc' = [workerPc EXCEPT ![w] = "counting"]
  /\ UNCHANGED <<redisVars, serverVars, submitVars, workerTask, starts, shadow,
                 faults, lost>>

WorkerStore(w) ==
  /\ workerPc[w] = "storing"
  /\ Store(workerTask[w])
  /\ workerPc' = [workerPc EXCEPT ![w] = "counting"]
  /\ UNCHANGED <<serverVars, submitVars, workerTask, starts, shadow, faults, lost>>

WorkerCount(w) ==
  /\ workerPc[w] = "counting"
  /\ CountCompleted
  /\ shadow' = [shadow EXCEPT !["daemon"].completed = @ + 1]
  /\ workerPc' = [workerPc EXCEPT ![w] = "checking"]
  /\ workerTask' = [workerTask EXCEPT ![w] = NoTask]
  /\ UNCHANGED <<serverVars, submitVars, starts, faults, lost>>

-------------------------------------------------------------------------------
(***************************************************************************)
(* The server.                                                             *)
(***************************************************************************)
\* The counters init_counters reads into the local shadow.
LoadedCounters == [submitted |-> submittedCount, completed |-> completedCount]
NoCounters == [submitted |-> 0, completed |-> 0]

AllWorkers(pc) ==
  /\ workerPc' = [w \in Workers |-> pc]
  /\ workerTask' = [w \in Workers |-> NoTask]

\* The process ends and its memory with it: what a worker held is nowhere else.
ProcessEnds ==
  /\ server' = "down"
  /\ shutdownEvent' = FALSE
  /\ snapshot' = {}
  /\ AllWorkers("off")
  /\ shadow' = [shadow EXCEPT !["daemon"] = NoCounters]
  /\ lost' = lost \cup Held \cup (Queued(pending) \ Queued(pending'))

\* startup, init_counters, scheduler, workers, socket.
ServerStart ==
  /\ server = "down"
  /\ server' = "up"
  /\ shutdownEvent' = FALSE
  /\ AllWorkers("checking")
  /\ shadow' = [shadow EXCEPT !["daemon"] = LoadedCounters]
  /\ UNCHANGED <<redisVars, snapshot, drained, submitVars, starts, faults, lost>>

\* SIGINT, SIGTERM or the socket's stop action.
ServerStop ==
  /\ server = "up"
  /\ ~shutdownEvent
  /\ shutdownEvent' = TRUE
  /\ UNCHANGED <<redisVars, server, snapshot, drained, submitVars, workerVars,
                 shadow, faults, lost>>

\* The submitters of a process that ends, or whose scheduler shuts down.
Abandon(S) == subPc' = [s \in Submitters |-> IF s \in S THEN "idle" ELSE subPc[s]]

\* Mutated form of ServerCloseFrontDoor: the scheduler's job goes on.
ServerCloseFrontDoorOnly ==
  /\ server = "up"
  /\ shutdownEvent
  /\ server' = "closing"
  /\ UNCHANGED <<redisVars, shutdownEvent, snapshot, drained, submitVars,
                 workerVars, shadow, faults, lost>>

\* scheduler.stop cancels the job that is submitting; the heartbeat stops;
\* the socket stops listening.
ServerCloseFrontDoor ==
  /\ server = "up"
  /\ shutdownEvent
  /\ server' = "closing"
  /\ Abandon(CronJobs)
  /\ UNCHANGED <<redisVars, shutdownEvent, snapshot, drained, made, accepted,
                 workerVars, shadow, faults, lost>>

\* wait_closed returns when no connection is open; then drain reads the list.
ServerDrainRead ==
  /\ server = "closing"
  /\ \A s \in SocketClients : subPc[s] = "idle"
  /\ Range0ToEnd(snapshot')
  /\ server' = IF pending = <<>> THEN "awaiting" ELSE "draining"
  /\ UNCHANGED <<shutdownEvent, drained, submitVars, workerVars, shadow, faults, lost>>

ServerDrainDelete ==
  /\ server = "draining"
  /\ Delete
  /\ drained' = drained \cup snapshot
  /\ snapshot' = {}
  /\ server' = "awaiting"
  /\ UNCHANGED <<shutdownEvent, submitVars, workerVars, shadow, faults, lost>>

\* asyncio.wait: every worker has ended, by itself or by an exception.
ServerWorkersDone ==
  /\ server = "awaiting"
  /\ \A w \in Workers : workerPc[w] \in {"stopped", "dead"}
  /\ UNCHANGED redisVars
  /\ ProcessEnds
  /\ UNCHANGED <<drained, submitVars, starts, faults>>

\* Mutated form of ServerCancelWorkers: asyncio.wait without a timeout.
ServerCancelWorkersNever == FALSE /\ UNCHANGED vars

\* worker_timeout has passed: the workers still running are cancelled.
ServerCancelWorkers ==
  /\ server = "awaiting"
  /\ \E w \in Workers : workerPc[w] \notin {"stopped", "dead"}
  /\ UNCHANGED redisVars
  /\ ProcessEnds
  /\ UNCHANGED <<drained, submitVars, starts, faults>>

-------------------------------------------------------------------------------
(***************************************************************************)
(* Faults.                                                                 *)
(***************************************************************************)
Fault == faults < MaxFaults /\ faults' = faults + 1

\* A Redis command raised: it may have run before the error, or not at all.
Perhaps(Command) == Command \/ UNCHANGED redisVars

\* submit raises at RPUSH or INCR: the submitter sees an error either way.
SubmitFails(s) ==
  /\ Fault
  /\ \/ /\ subPc[s] = "checked"
        /\ Perhaps(Push(Current(s)))
        /\ accepted' = IF pending' = pending THEN accepted
                                             ELSE accepted \cup {Current(s)}
     \/ /\ subPc[s] = "pushed"
        /\ Perhaps(CountSubmitted)
        /\ UNCHANGED accepted
  /\ subPc' = [subPc EXCEPT ![s] = "idle"]
  /\ UNCHANGED <<serverVars, made, workerVars, shadow, lost>>

\* worker_loop has no handler around consume and record_result: the exception
\* ends the worker task, and nothing starts another.
WorkerFails(w) ==
  /\ Fault
  /\ \/ /\ workerPc[w] = "polling"
        /\ \/ UNCHANGED redisVars /\ UNCHANGED lost
           \/ \E t \in Queued(pending) : Pop(t) /\ lost' = lost \cup {t}
     \/ /\ workerPc[w] = "storing"
        /\ Perhaps(Store(workerTask[w]))
        /\ lost' = lost \cup {workerTask[w]}
     \/ /\ workerPc[w] = "counting"
        /\ Perhaps(CountCompleted)
        /\ lost' = lost \cup {workerTask[w]}
  /\ workerPc' = [workerPc EXCEPT ![w] = "dead"]
  /\ workerTask' = [workerTask EXCEPT ![w] = NoTask]
  /\ UNCHANGED <<serverVars, submitVars, starts, shadow>>

\* drain raises inside shutdown: run ends there, asyncio.run cancels the workers.
ServerDrainFails ==
  /\ Fault
  /\ \/ /\ server = "closing"
        /\ \A s \in SocketClients : subPc[s] = "idle"
        /\ UNCHANGED redisVars
     \/ server = "draining" /\ Perhaps(Delete)
  /\ ProcessEnds
  /\ UNCHANGED <<drained, submitVars, starts>>

\* The daemon process is killed.
DaemonCrash ==
  /\ Fault
  /\ server # "down"
  /\ UNCHANGED redisVars
  /\ ProcessEnds
  /\ Abandon(SocketClients \cup CronJobs)
  /\ UNCHANGED <<drained, made, accepted, starts>>

\* The API process restarts: lifespan builds a new TaskQueue.
ApiRestart ==
  /\ Fault
  /\ Abandon(ApiHandlers)
  /\ shadow' = [shadow EXCEPT !["api"] = LoadedCounters]
  /\ UNCHANGED <<redisVars, serverVars, made, accepted, workerVars, lost>>

-------------------------------------------------------------------------------
SubmitterStep(s) ==
  Connect(s) \/ HangUp(s) \/ SubmitCheck(s) \/ SubmitPush(s) \/ SubmitCount(s)

WorkerStep(w) ==
  \/ WorkerCheckEvent(w) \/ WorkerPollTimeout(w) \/ WorkerPop(w)
  \/ WorkerRunAgent(w) \/ WorkerStore(w) \/ WorkerCount(w)

ShutdownStep ==
  \/ ServerCloseFrontDoor \/ ServerDrainRead \/ ServerDrainDelete
  \/ ServerWorkersDone \/ ServerCancelWorkers

FaultStep ==
  \/ \E s \in Submitters : SubmitFails(s)
  \/ \E w \in Workers : WorkerFails(w)
  \/ ServerDrainFails \/ DaemonCrash \/ ApiRestart

Next ==
  \/ \E s \in Submitters : SubmitterStep(s)
  \/ \E w \in Workers : WorkerStep(w)
  \/ ServerStart \/ ServerStop \/ ShutdownStep
  \/ FaultStep

Spec == Init /\ [][Next]_vars
\* The code justifies: a coroutine that can run does run; a client that has
\* connected sends its request or hangs up (reader.read has no timeout, so the
\* daemon relies on it).  Nothing makes anyone start the daemon, stop it or
\* connect, and nothing makes an agent return.
Fairness ==
  /\ \A s \in Submitters :
       /\ WF_vars(HangUp(s) \/ (subPc[s] = "connected" /\ SubmitCheck(s)))
       /\ WF_vars(SubmitPush(s) \/ SubmitCount(s))
  /\ \A w \in Workers : WF_vars(WorkerStep(w) /\ workerPc[w] # "running")
  /\ WF_vars(ShutdownStep)

\* run_agent returns: its iterations are bounded.  Only QueuedIsServed needs it.
AgentsReturn == \A w \in Workers : WF_vars(WorkerRunAgent(w))

FairSpec == Spec /\ Fairness

-------------------------------------------------------------------------------
(***************************************************************************)
(* Properties.                                                             *)
(***************************************************************************)
RedisTypeOK ==
  /\ pending \in Seq(Task)
  /\ results \in SUBSET Task
  /\ submittedCount \in Nat
  /\ completedCount \in Nat

ServerTypeOK ==
  /\ server \in {"down", "up", "closing", "draining", "awaiting"}
  /\ shutdownEvent \in BOOLEAN
  /\ snapshot \in SUBSET Task
  /\ drained \in SUBSET Task

SubmitTypeOK ==
  /\ subPc \in [Submitters -> {"idle", "connected", "checked", "pushed"}]
  /\ made \in [Submitters -> 0..MaxTasks]
  /\ accepted \in SUBSET Task

WorkerTypeOK ==
  /\ workerPc \in [Workers -> {"off", "checking", "polling", "running", "storing",
                              "counting", "stopped", "dead"}]
  /\ workerTask \in [Workers -> Task \cup {NoTask}]
  /\ starts \in [Task -> Nat]

\* Every variable keeps its type.
TypeOK ==
  /\ RedisTypeOK
  /\ ServerTypeOK
  /\ SubmitTypeOK
  /\ WorkerTypeOK
  /\ shadow \in [Processes -> [submitted : Nat, completed : Nat]]
  /\ faults \in 0..MaxFaults
  /\ lost \in SUBSET Task

\* At-most-once: no request is handed to run_agent twice, none is queued twice,
\* and no two workers hold the same one, whatever crashes, restarts and Redis
\* errors happen (worker_loop over BLPOP, which removes what it returns).
AtMostOnce ==
  /\ \A t \in Task : starts[t] <= 1
  /\ NoRepeat(pending)
  /\ \A v, w \in Busy : workerTask[v] = workerTask[w] => v = w

\* The queue's promise, in every state of the type above.
QueueSound == TypeOK /\ AtMostOnce

\* Backpressure (TaskQueue.submit): LLEN and RPUSH are separate commands, so
\* maxsize can be exceeded, but by no more than the submitters that were
\* between the two: one less than all of them.
LargestLimit == IF ApiMaxSize > DaemonMaxSize THEN ApiMaxSize ELSE DaemonMaxSize
BoundedBacklog == Len(pending) <= LargestLimit - 1 + Cardinality(Submitters)

\* The counters never overstate (submit and record_result count last): a
\* result is stored before it is counted, a request queued before it is
\* counted, and the local shadows the status shows never exceed Redis.
CountersNeverOverstate ==
  /\ completedCount + Cardinality(Busy \ InFlight) <= Cardinality(results)
  /\ submittedCount <= Cardinality(accepted)
  /\ \A p \in Processes : /\ shadow[p].completed <= completedCount
                          /\ shadow[p].submitted <= submittedCount

\* A request is somewhere a reader of Redis or of the log can find it, or died
\* with its holder.
Accounted(t) == t \in Queued(pending) \cup Held \cup results \cup drained \cup lost

\* Requests submitted inside the daemon are never dropped silently: run stops
\* the scheduler and waits for the open connections BEFORE shutdown drains.
DaemonRequestsAccounted ==
  \A t \in accepted : t[1] \notin ApiHandlers => Accounted(t)

\* drain "Remove[s] all pending tasks from the queue ... Returns the drained
\* tasks so they can be logged" (queue.py): what it removes, it returns.
DrainReturnsWhatItRemoves == \A t \in accepted : Accounted(t)

\* The daemon implements the ledger: one FIFO pass of every request.
Ledger == INSTANCE TaskLedger WITH
  queue <- pending,
  running <- Running,
  finished <- results,
  dropped <- accepted \ (Queued(pending) \cup Running \cup results)

LedgerSpec == Ledger!Spec

\* shutdown ends however long the agents run (worker_timeout cancels them).
ShutdownCompletes == shutdownEvent ~> server = "down"

\* While the daemon is up and a worker lives, a queued request ends with a
\* stored result (if agents return): one dead worker does not strand the queue.
NobodyServes ==
  server # "up" \/ shutdownEvent \/ \A w \in Workers : workerPc[w] = "dead"

QueuedIsServed ==
  AgentsReturn => \A t \in Task :
    t \in Queued(pending) \cup Running ~> t \in results \cup lost \/ NobodyServes
===============================================================================
