------------------------------ MODULE TaskQueue ------------------------------
(***************************************************************************)
(* The Redis side of silkroute.daemon.queue.TaskQueue: one LIST of pending *)
(* requests, one HASH of results and two counters, shared by every process *)
(* that builds a TaskQueue on the same Redis.  Each operator below is ONE  *)
(* Redis command of a TaskQueue method; the methods themselves span        *)
(* several commands with an await between them, so the callers (Daemon)    *)
(* take them one step at a time.                                           *)
(***************************************************************************)
EXTENDS Naturals, Sequences, FiniteSets

VARIABLES
  pending,         \* LIST silkroute:queue:pending, the head is popped first
  results,         \* the request ids present in HASH silkroute:results
  submittedCount,  \* STRING silkroute:counter:submitted
  completedCount   \* STRING silkroute:counter:completed

redisVars == <<pending, results, submittedCount, completedCount>>

\* The requests a LIST holds.
Queued(list) == {list[i] : i \in DOMAIN list}

\* No request is in a LIST twice.
NoRepeat(list) == \A i, j \in DOMAIN list : list[i] = list[j] => i = j

QueueInit ==
  /\ pending = <<>>
  /\ results = {}
  /\ submittedCount = 0
  /\ completedCount = 0

(***************************************************************************)
(* submit: LLEN against maxsize, then RPUSH, then INCR.                    *)
(***************************************************************************)
\* Mutated form of HasRoom: > written for >=.
HasRoomOffByOne(maxsize) == Len(pending) <= maxsize

HasRoom(maxsize) == Len(pending) < maxsize

Push(t) ==
  /\ pending' = Append(pending, t)
  /\ UNCHANGED <<results, submittedCount, completedCount>>

CountSubmitted ==
  /\ submittedCount' = submittedCount + 1
  /\ UNCHANGED <<pending, results, completedCount>>

(***************************************************************************)
(* consume: BLPOP.  It returns the head, or None after the timeout, which  *)
(* can only run out while the list stays empty.                            *)
(***************************************************************************)
\* Mutated forms of Pop: the head is read and left there; the newest is taken.
PopPeek(t) ==
  /\ pending # <<>>
  /\ t = Head(pending)
  /\ UNCHANGED redisVars

PopNewest(t) ==
  /\ pending # <<>>
  /\ t = pending[Len(pending)]
  /\ pending' = SubSeq(pending, 1, Len(pending) - 1)
  /\ UNCHANGED <<results, submittedCount, completedCount>>

Pop(t) ==
  /\ pending # <<>>
  /\ t = Head(pending)
  /\ pending' = Tail(pending)
  /\ UNCHANGED <<results, submittedCount, completedCount>>

NothingToPop == pending = <<>> /\ UNCHANGED redisVars

(***************************************************************************)
(* record_result: HSET, then INCR.                                         *)
(***************************************************************************)
Store(t) ==
  /\ results' = results \cup {t}
  /\ UNCHANGED <<pending, submittedCount, completedCount>>

CountCompleted ==
  /\ completedCount' = completedCount + 1
  /\ UNCHANGED <<pending, results, submittedCount>>

(***************************************************************************)
(* drain: LRANGE 0 -1, then DEL of the whole key if it returned anything.  *)
(* DEL removes what the list holds when it runs.                           *)
(***************************************************************************)
Range0ToEnd(items) == items = Queued(pending) /\ UNCHANGED redisVars

Delete ==
  /\ pending' = <<>>
  /\ UNCHANGED <<results, submittedCount, completedCount>>
==============================================================================
