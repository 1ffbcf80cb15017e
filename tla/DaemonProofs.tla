---------------------------- MODULE DaemonProofs ----------------------------
(***************************************************************************)
(* Proofs about Daemon, for any number of submitters and workers and any   *)
(* bounds.                                                                 *)
(***************************************************************************)
EXTENDS Daemon, FiniteSetTheorems, TLAPS

(***************************************************************************)
(* The strengthening of TypeOK: a submitter past LLEN has built a request, *)
(* and a busy worker holds one.                                            *)
(***************************************************************************)
RequestsBuilt == \A s \in Submitters : subPc[s] \in {"checked", "pushed"} => made[s] >= 1
HoldersHold == \A w \in Busy : workerTask[w] \in Task

TypeInv == TypeOK /\ RequestsBuilt /\ HoldersHold

LEMMA CurrentIsTask ==
  ASSUME TypeInv, NEW s \in Submitters, subPc[s] \in {"checked", "pushed"}
  PROVE  Current(s) \in Task
<1>1. made[s] \in 1..MaxTasks
  BY DaemonAssumption DEF TypeInv, TypeOK, SubmitTypeOK, RequestsBuilt
<1> QED
  BY <1>1 DEF Current, Task

LEMMA QueuedAreTasks == pending \in Seq(Task) => Queued(pending) \in SUBSET Task
BY DEF Queued

LEMMA HeldAreTasks == HoldersHold => Held \in SUBSET Task
BY DEF HoldersHold, Held

(***************************************************************************)
(* What a step can do to Redis: one command of one coroutine, or nothing.  *)
(***************************************************************************)
RedisStep ==
  \/ UNCHANGED redisVars
  \/ \E s \in Submitters : subPc[s] = "checked" /\ Push(Current(s))
  \/ \E s \in Submitters : subPc[s] = "pushed" /\ CountSubmitted
  \/ \E t \in Queued(pending) : Pop(t)
  \/ \E w \in Busy : workerPc[w] = "storing" /\ Store(workerTask[w])
  \/ \E w \in Busy : workerPc[w] = "counting" /\ CountCompleted
  \/ server = "draining" /\ Delete

LEMMA NextIsRedisStep == [Next]_vars => RedisStep
<1> SUFFICES ASSUME [Next]_vars PROVE RedisStep
  OBVIOUS
<1> USE DEF RedisStep, redisVars
<1>1. CASE UNCHANGED vars
  BY <1>1 DEF vars
<1>2. ASSUME NEW s \in Submitters, SubmitterStep(s) PROVE RedisStep
  BY <1>2 DEF SubmitterStep, Connect, HangUp, SubmitCheck, SubmitPush, SubmitCount
<1>3. ASSUME NEW w \in Workers, WorkerStep(w) PROVE RedisStep
  BY <1>3 DEF WorkerStep, WorkerCheckEvent, WorkerPollTimeout, WorkerPop, NothingToPop,
              WorkerRunAgent, WorkerStore, WorkerCount, Busy
<1>4. CASE ServerStart \/ ServerStop \/ ShutdownStep
  BY <1>4 DEF ServerStart, ServerStop, ShutdownStep, ServerCloseFrontDoor,
              ServerDrainRead, Range0ToEnd, ServerDrainDelete, ServerWorkersDone,
              ServerCancelWorkers
<1>5. CASE FaultStep
  <2>1. ASSUME NEW s \in Submitters, SubmitFails(s) PROVE RedisStep
    BY <2>1 DEF SubmitFails, Perhaps
  <2>2. ASSUME NEW w \in Workers, WorkerFails(w) PROVE RedisStep
    BY <2>2 DEF WorkerFails, Perhaps, Busy
  <2>3. CASE ServerDrainFails \/ DaemonCrash \/ ApiRestart
    BY <2>3 DEF ServerDrainFails, Perhaps, DaemonCrash, ApiRestart
  <2> QED
    BY <1>5, <2>1, <2>2, <2>3 DEF FaultStep
<1> QED
  BY <1>1, <1>2, <1>3, <1>4, <1>5 DEF Next

LEMMA RedisTypes == TypeInv /\ [Next]_vars => RedisTypeOK'
<1> SUFFICES ASSUME TypeInv, RedisStep PROVE RedisTypeOK'
  BY NextIsRedisStep
<1> USE DEF TypeInv, TypeOK, RedisTypeOK
<1>1. CASE UNCHANGED redisVars
  BY <1>1 DEF redisVars
<1>2. ASSUME NEW s \in Submitters, subPc[s] = "checked", Push(Current(s))
      PROVE  RedisTypeOK'
  BY <1>2, CurrentIsTask DEF Push
<1>3. CASE CountSubmitted
  BY <1>3 DEF CountSubmitted
<1>4. ASSUME NEW t \in Queued(pending), Pop(t) PROVE RedisTypeOK'
  BY <1>4 DEF Pop
<1>5. ASSUME NEW w \in Busy, Store(workerTask[w]) PROVE RedisTypeOK'
  BY <1>5 DEF Store, HoldersHold
<1>6. CASE CountCompleted
  BY <1>6 DEF CountCompleted
<1>7. CASE Delete
  BY <1>7 DEF Delete
<1> QED
  BY <1>1, <1>2, <1>3, <1>4, <1>5, <1>6, <1>7 DEF RedisStep

LEMMA ServerTypes == TypeInv /\ [Next]_vars => ServerTypeOK'
<1> SUFFICES ASSUME TypeInv, [Next]_vars PROVE ServerTypeOK'
  OBVIOUS
<1> USE DEF TypeInv, TypeOK, ServerTypeOK
<1>1. CASE UNCHANGED serverVars
  BY <1>1 DEF serverVars
<1>2. CASE ServerStart \/ ServerStop \/ ServerCloseFrontDoor
  BY <1>2 DEF ServerStart, ServerStop, ServerCloseFrontDoor
<1>3. CASE ServerDrainRead
  BY <1>3, QueuedAreTasks DEF ServerDrainRead, Range0ToEnd, RedisTypeOK
<1>4. CASE ServerDrainDelete
  BY <1>4 DEF ServerDrainDelete
<1>5. CASE ProcessEnds /\ UNCHANGED drained
  BY <1>5 DEF ProcessEnds
<1>6. UNCHANGED serverVars \/ ServerStart \/ ServerStop \/ ServerCloseFrontDoor
        \/ ServerDrainRead \/ ServerDrainDelete \/ (ProcessEnds /\ UNCHANGED drained)
  <2>1. ASSUME NEW s \in Submitters, SubmitterStep(s) \/ SubmitFails(s)
        PROVE  UNCHANGED serverVars
    BY <2>1 DEF SubmitterStep, Connect, HangUp, SubmitCheck, SubmitPush, SubmitCount,
                SubmitFails
  <2>2. ASSUME NEW w \in Workers, WorkerStep(w) \/ WorkerFails(w)
        PROVE  UNCHANGED serverVars
    BY <2>2 DEF WorkerStep, WorkerCheckEvent, WorkerPollTimeout, WorkerPop,
                WorkerRunAgent, WorkerStore, WorkerCount, WorkerFails
  <2>3. ASSUME ServerWorkersDone \/ ServerCancelWorkers \/ ServerDrainFails \/ DaemonCrash
        PROVE  ProcessEnds /\ UNCHANGED drained
    BY <2>3 DEF ServerWorkersDone, ServerCancelWorkers, ServerDrainFails, DaemonCrash
  <2>4. CASE ApiRestart \/ UNCHANGED vars
    BY <2>4 DEF ApiRestart, vars, serverVars
  <2> QED
    BY <2>1, <2>2, <2>3, <2>4 DEF Next, ShutdownStep, FaultStep
<1> QED
  BY <1>1, <1>2, <1>3, <1>4, <1>5, <1>6

(***************************************************************************)
(* What a step can do to the submitters.                                   *)
(***************************************************************************)
LEMMA SubmitTypes == TypeInv /\ [Next]_vars => SubmitTypeOK' /\ RequestsBuilt'
<1> SUFFICES ASSUME TypeInv, [Next]_vars PROVE SubmitTypeOK' /\ RequestsBuilt'
  OBVIOUS
<1> USE DaemonAssumption DEF TypeInv, TypeOK, SubmitTypeOK, RequestsBuilt
<1>1. CASE UNCHANGED submitVars
  BY <1>1 DEF submitVars
<1>2. ASSUME NEW s \in Submitters, Connect(s) \/ HangUp(s)
      PROVE  SubmitTypeOK' /\ RequestsBuilt'
  BY <1>2 DEF Connect, HangUp
<1>3. ASSUME NEW s \in Submitters, SubmitCheck(s)
      PROVE  SubmitTypeOK' /\ RequestsBuilt'
  BY <1>3 DEF SubmitCheck
<1>4. ASSUME NEW s \in Submitters, SubmitPush(s)
      PROVE  SubmitTypeOK' /\ RequestsBuilt'
  BY <1>4, CurrentIsTask DEF SubmitPush
<1>5. ASSUME NEW s \in Submitters, SubmitCount(s)
      PROVE  SubmitTypeOK' /\ RequestsBuilt'
  BY <1>5 DEF SubmitCount
<1>6. ASSUME NEW s \in Submitters, SubmitFails(s)
      PROVE  SubmitTypeOK' /\ RequestsBuilt'
  BY <1>6, CurrentIsTask DEF SubmitFails
<1>7. ASSUME NEW S, Abandon(S), UNCHANGED <<made, accepted>>
      PROVE  SubmitTypeOK' /\ RequestsBuilt'
  BY <1>7 DEF Abandon
<1>8. CASE ServerCloseFrontDoor \/ DaemonCrash \/ ApiRestart
  BY <1>7, <1>8 DEF ServerCloseFrontDoor, DaemonCrash, ApiRestart
<1>9. ASSUME NEW w \in Workers, WorkerStep(w) \/ WorkerFails(w)
      PROVE  UNCHANGED submitVars
  BY <1>9 DEF WorkerStep, WorkerCheckEvent, WorkerPollTimeout, WorkerPop,
              WorkerRunAgent, WorkerStore, WorkerCount, WorkerFails
<1>10. CASE ServerStart \/ ServerStop \/ ServerDrainRead \/ ServerDrainDelete
              \/ ServerWorkersDone \/ ServerCancelWorkers \/ ServerDrainFails
              \/ UNCHANGED vars
  <2> UNCHANGED submitVars
    BY <1>10 DEF ServerStart, ServerStop, ServerDrainRead, ServerDrainDelete,
                 ServerWorkersDone, ServerCancelWorkers, ServerDrainFails, vars
  <2> QED
    BY <1>1
<1> QED
  BY <1>1, <1>2, <1>3, <1>4, <1>5, <1>6, <1>8, <1>9, <1>10
     DEF Next, SubmitterStep, ShutdownStep, FaultStep

(***************************************************************************)
(* What a step can do to the workers.                                      *)
(***************************************************************************)
LEMMA WorkerTypes == TypeInv /\ [Next]_vars => WorkerTypeOK' /\ HoldersHold'
<1> SUFFICES ASSUME TypeInv, [Next]_vars PROVE WorkerTypeOK' /\ HoldersHold'
  OBVIOUS
<1> USE DaemonAssumption DEF TypeInv, TypeOK, WorkerTypeOK, HoldersHold, Busy
<1>1. CASE UNCHANGED workerVars
  BY <1>1 DEF workerVars
<1>2. ASSUME NEW w \in Workers,
             WorkerCheckEvent(w) \/ WorkerPollTimeout(w) \/ WorkerRunAgent(w)
               \/ WorkerStore(w)
      PROVE  WorkerTypeOK' /\ HoldersHold'
  BY <1>2 DEF WorkerCheckEvent, WorkerPollTimeout, WorkerRunAgent, WorkerStore
<1>3. ASSUME NEW w \in Workers, WorkerPop(w) PROVE WorkerTypeOK' /\ HoldersHold'
  BY <1>3, QueuedAreTasks DEF WorkerPop, RedisTypeOK
<1>4. ASSUME NEW w \in Workers, WorkerCount(w) PROVE WorkerTypeOK' /\ HoldersHold'
  BY <1>4 DEF WorkerCount
<1>5. ASSUME NEW w \in Workers, WorkerFails(w) PROVE WorkerTypeOK' /\ HoldersHold'
  BY <1>5 DEF WorkerFails
<1>6. ASSUME NEW pc \in {"off", "checking"}, AllWorkers(pc), UNCHANGED starts
      PROVE  WorkerTypeOK' /\ HoldersHold'
  BY <1>6 DEF AllWorkers
<1>7. CASE ServerStart
  BY <1>6, <1>7 DEF ServerStart
<1>8. CASE ServerWorkersDone \/ ServerCancelWorkers \/ ServerDrainFails \/ DaemonCrash
  BY <1>6, <1>8 DEF ServerWorkersDone, ServerCancelWorkers, ServerDrainFails,
                    DaemonCrash, ProcessEnds
<1>9. ASSUME NEW s \in Submitters, SubmitterStep(s) \/ SubmitFails(s)
      PROVE  UNCHANGED workerVars
  BY <1>9 DEF SubmitterStep, Connect, HangUp, SubmitCheck, SubmitPush, SubmitCount,
              SubmitFails
<1>10. CASE ServerStop \/ ServerCloseFrontDoor \/ ServerDrainRead \/ ServerDrainDelete
              \/ ApiRestart \/ UNCHANGED vars
  <2> UNCHANGED workerVars
    BY <1>10 DEF ServerStop, ServerCloseFrontDoor, ServerDrainRead, ServerDrainDelete,
                 ApiRestart, vars
  <2> QED
    BY <1>1
<1> QED
  BY <1>1, <1>2, <1>3, <1>4, <1>5, <1>7, <1>8, <1>9, <1>10
     DEF Next, WorkerStep, ShutdownStep, FaultStep

LEMMA CountersGrow ==
  ASSUME NEW c \in [submitted : Nat, completed : Nat]
  PROVE  /\ [c EXCEPT !.submitted = @ + 1] \in [submitted : Nat, completed : Nat]
         /\ [c EXCEPT !.completed = @ + 1] \in [submitted : Nat, completed : Nat]
OBVIOUS

LEMMA OtherTypes ==
  TypeInv /\ [Next]_vars =>
    /\ shadow' \in [Processes -> [submitted : Nat, completed : Nat]]
    /\ faults' \in 0..MaxFaults
    /\ lost' \in SUBSET Task
<1> SUFFICES ASSUME TypeInv, [Next]_vars
             PROVE  /\ shadow' \in [Processes -> [submitted : Nat, completed : Nat]]
                    /\ faults' \in 0..MaxFaults
                    /\ lost' \in SUBSET Task
  OBVIOUS
<1> DEFINE Count == [submitted : Nat, completed : Nat]
<1> USE DaemonAssumption DEF TypeInv, TypeOK, RedisTypeOK, Processes
<1>1. \A p \in Processes : shadow[p] = [submitted |-> shadow[p].submitted,
                                       completed |-> shadow[p].completed]
                         /\ shadow[p].submitted \in Nat /\ shadow[p].completed \in Nat
  OBVIOUS
<1>2. LoadedCounters \in Count /\ NoCounters \in Count
  BY DEF LoadedCounters, NoCounters
<1>3. ASSUME NEW s \in Submitters, SubmitterStep(s)
      PROVE  shadow' \in [Processes -> Count] /\ UNCHANGED <<faults, lost>>
  <2>1. CASE SubmitCount(s)
    <3>1. Home(s) \in Processes
      BY DEF Home
    <3>2. shadow' = [shadow EXCEPT ![Home(s)].submitted = @ + 1] /\ UNCHANGED <<faults, lost>>
      BY <2>1 DEF SubmitCount
    <3>3. shadow[Home(s)] \in Count /\ [shadow[Home(s)] EXCEPT !.submitted = @ + 1] \in Count
      BY <3>1, CountersGrow
    <3> QED
      BY <3>1, <3>2, <3>3
  <2> QED
    BY <1>3, <2>1 DEF SubmitterStep, Connect, HangUp, SubmitCheck, SubmitPush
<1>4. ASSUME NEW w \in Workers, WorkerStep(w)
      PROVE  shadow' \in [Processes -> Count] /\ UNCHANGED <<faults, lost>>
  <2>1. CASE WorkerCount(w)
    <3>1. shadow["daemon"] \in Count /\ [shadow["daemon"] EXCEPT !.completed = @ + 1] \in Count
      BY CountersGrow
    <3>2. shadow' = [shadow EXCEPT !["daemon"].completed = @ + 1] /\ UNCHANGED <<faults, lost>>
      BY <2>1 DEF WorkerCount
    <3> QED
      BY <3>1, <3>2
  <2> QED
    BY <1>4, <2>1 DEF WorkerStep, WorkerCheckEvent, WorkerPollTimeout, WorkerPop,
                      WorkerRunAgent, WorkerStore
<1>5. CASE ServerStart
  BY <1>2, <1>5 DEF ServerStart
<1>6. CASE ServerStop \/ ServerCloseFrontDoor \/ ServerDrainRead \/ ServerDrainDelete
             \/ UNCHANGED vars
  BY <1>6 DEF ServerStop, ServerCloseFrontDoor, ServerDrainRead, ServerDrainDelete, vars
<1>7. ASSUME ProcessEnds
      PROVE  shadow' \in [Processes -> Count] /\ lost' \in SUBSET Task
  BY <1>2, <1>7, QueuedAreTasks, HeldAreTasks DEF ProcessEnds
<1>8. CASE ServerWorkersDone \/ ServerCancelWorkers
  BY <1>7, <1>8 DEF ServerWorkersDone, ServerCancelWorkers
<1>9. CASE ServerDrainFails \/ DaemonCrash
  BY <1>7, <1>9 DEF ServerDrainFails, DaemonCrash, Fault
<1>10. ASSUME NEW s \in Submitters, SubmitFails(s)
       PROVE  UNCHANGED <<shadow, lost>> /\ faults' \in 0..MaxFaults
  BY <1>10 DEF SubmitFails, Fault
<1>11. ASSUME NEW w \in Workers, WorkerFails(w)
       PROVE  UNCHANGED shadow /\ faults' \in 0..MaxFaults /\ lost' \in SUBSET Task
  <2>1. workerPc[w] \in {"storing", "counting"} => workerTask[w] \in Task
    BY DEF HoldersHold, Busy
  <2>2. Queued(pending) \in SUBSET Task
    BY QueuedAreTasks
  <2> QED
    BY <1>11, <2>1, <2>2 DEF WorkerFails, Fault
<1>12. CASE ApiRestart
  BY <1>2, <1>12 DEF ApiRestart, Fault
<1> QED
  BY <1>3, <1>4, <1>5, <1>6, <1>8, <1>9, <1>10, <1>11, <1>12
     DEF Next, ShutdownStep, FaultStep

LEMMA TypeInvPreserved == TypeInv /\ [Next]_vars => TypeInv'
BY RedisTypes, ServerTypes, SubmitTypes, WorkerTypes, OtherTypes DEF TypeInv, TypeOK

LEMMA TypeInvHolds == Spec => []TypeInv
<1>1. Init => TypeInv
  <2> SUFFICES ASSUME Init PROVE TypeInv
    OBVIOUS
  <2> USE DaemonAssumption DEF Init
  <2>1. RedisTypeOK
    BY DEF QueueInit, RedisTypeOK
  <2>2. ServerTypeOK
    BY DEF ServerTypeOK
  <2>3. SubmitTypeOK /\ RequestsBuilt
    BY DEF SubmitTypeOK, RequestsBuilt
  <2>4. WorkerTypeOK /\ HoldersHold
    BY DEF WorkerTypeOK, HoldersHold, Busy
  <2>5. shadow \in [Processes -> [submitted : Nat, completed : Nat]]
    BY DEF Processes
  <2> QED
    BY <2>1, <2>2, <2>3, <2>4, <2>5 DEF TypeInv, TypeOK
<1> QED
  BY <1>1, TypeInvPreserved, PTL DEF Spec

\* Every variable of the daemon, the API process and Redis keeps its type, for
\* any number of submitters and workers and any bounds.
THEOREM TypeCorrect == Spec => []TypeOK
<1>1. TypeInv => TypeOK
  BY DEF TypeInv
<1> QED
  BY <1>1, TypeInvHolds, PTL

-----------------------------------------------------------------------------
(***************************************************************************)
(* At most once.  AtMostOnce is not inductive: it needs that a request     *)
(* about to be pushed is new (SubmissionInv), that a queued request was    *)
(* never started (QueueInv), and that a held or finished one was           *)
(* (HolderInv).                                                            *)
(***************************************************************************)
SubmissionInv ==
  /\ \A t \in accepted : t[2] <= made[t[1]]
  /\ \A s \in Submitters : subPc[s] = "checked" => Current(s) \notin accepted

QueueInv ==
  /\ NoRepeat(pending)
  /\ Queued(pending) \subseteq accepted
  /\ \A t \in Task : starts[t] <= 1
  /\ \A t \in Task : starts[t] # 0 => t \in accepted \ Queued(pending)

HolderInv ==
  /\ \A w \in Busy : starts[workerTask[w]] # 0
  /\ \A v, w \in Busy : workerTask[v] = workerTask[w] => v = w
  /\ \A t \in results : starts[t] # 0
  /\ \A w \in InFlight : workerTask[w] \notin results

OnceInv == TypeInv /\ SubmissionInv /\ QueueInv /\ HolderInv

LEMMA AppendFacts ==
  ASSUME NEW T, NEW q \in Seq(T), NEW t \in T, NoRepeat(q), t \notin Queued(q)
  PROVE  Queued(Append(q, t)) = Queued(q) \cup {t} /\ NoRepeat(Append(q, t))
<1> DEFINE a == Append(q, t)
<1>1. /\ DOMAIN q = 1..Len(q) /\ DOMAIN a = 1..(Len(q) + 1) /\ Len(q) \in Nat
      /\ \A i \in 1..Len(q) : a[i] = q[i]
      /\ a[Len(q) + 1] = t
  OBVIOUS
<1> HIDE DEF a
<1>2. DOMAIN a = DOMAIN q \cup {Len(q) + 1} /\ Len(q) + 1 \notin DOMAIN q
  BY <1>1
<1>3. \A i \in DOMAIN q : a[i] = q[i] /\ q[i] # t
  BY <1>1 DEF Queued
<1>4. Queued(a) = Queued(q) \cup {t}
  BY <1>1, <1>2, <1>3 DEF Queued
<1>5. NoRepeat(a)
  BY <1>1, <1>2, <1>3 DEF NoRepeat
<1> QED
  BY <1>4, <1>5 DEF a

LEMMA TailFacts ==
  ASSUME NEW T, NEW q \in Seq(T), NoRepeat(q), q # <<>>
  PROVE  /\ Queued(Tail(q)) = Queued(q) \ {Head(q)}
         /\ Head(q) \in Queued(q)
         /\ NoRepeat(Tail(q))
<1>1. Head(q) = q[1] /\ 1 \in DOMAIN q
  OBVIOUS
<1>2. \A i \in DOMAIN Tail(q) : i + 1 \in DOMAIN q /\ Tail(q)[i] = q[i + 1]
  OBVIOUS
<1>3. \A i \in DOMAIN q : i # 1 => i - 1 \in DOMAIN Tail(q) /\ Tail(q)[i - 1] = q[i]
  OBVIOUS
<1>4. NoRepeat(Tail(q))
  BY <1>2 DEF NoRepeat
<1>5. ASSUME NEW x \in Queued(Tail(q)) PROVE x \in Queued(q) \ {Head(q)}
  <2>1. PICK i \in DOMAIN Tail(q) : x = Tail(q)[i]
    BY DEF Queued
  <2>2. i + 1 # 1 /\ q[i + 1] # q[1]
    BY <1>1, <1>2 DEF NoRepeat
  <2> QED
    BY <1>1, <1>2, <2>1, <2>2 DEF Queued
<1>6. ASSUME NEW x \in Queued(q), x # Head(q) PROVE x \in Queued(Tail(q))
  <2>1. PICK i \in DOMAIN q : x = q[i]
    BY DEF Queued
  <2> QED
    BY <1>1, <1>3, <1>6, <2>1 DEF Queued
<1> QED
  BY <1>1, <1>4, <1>5, <1>6 DEF Queued

LEMMA SubmissionStep == TypeInv /\ SubmissionInv /\ [Next]_vars => SubmissionInv'
<1> SUFFICES ASSUME TypeInv, SubmissionInv, [Next]_vars PROVE SubmissionInv'
  OBVIOUS
<1> USE DaemonAssumption DEF TypeInv, TypeOK, SubmitTypeOK, RequestsBuilt, SubmissionInv
<1>0. \A s \in Submitters : Current(s) = <<s, made[s]>> /\ Current(s)' = <<s, made'[s]>>
  BY DEF Current
<1>1. CASE UNCHANGED submitVars
  BY <1>0, <1>1 DEF submitVars
<1>2. ASSUME NEW s \in Submitters, Connect(s) \/ HangUp(s) \/ SubmitCount(s)
      PROVE  SubmissionInv'
  BY <1>0, <1>2 DEF Connect, HangUp, SubmitCount
<1>3. ASSUME NEW s \in Submitters, SubmitCheck(s)
      PROVE  SubmissionInv'
  <2>1. accepted' = accepted /\ made' = [made EXCEPT ![s] = @ + 1]
    BY <1>3 DEF SubmitCheck
  <2>2. \A t \in accepted : t[1] \in Submitters /\ t[2] \in Nat
    BY DEF Task
  <2>3. \A t \in accepted : t[2] <= made'[t[1]]
    BY <2>1, <2>2
  <2>4. <<s, made'[s]>> \notin accepted
    BY <2>1, <2>2
  <2>5. ASSUME NEW r \in Submitters, r # s, subPc'[r] = "checked"
        PROVE  Current(r)' \notin accepted'
    <3>1. subPc[r] = "checked"
      BY <1>3, <2>5 DEF SubmitCheck
    <3>2. Current(r)' = Current(r)
      BY <1>0, <2>1, <2>5
    <3> QED
      BY <2>1, <3>1, <3>2
  <2>6. \A r \in Submitters : subPc'[r] = "checked" => Current(r)' \notin accepted'
    BY <1>0, <2>1, <2>4, <2>5
  <2>7. \A t \in accepted' : t[2] <= made'[t[1]]
    BY <2>1, <2>3
  <2> QED
    BY <1>0, <2>6, <2>7
<1>4. ASSUME NEW s \in Submitters, subPc[s] = "checked", UNCHANGED made,
             accepted' \in {accepted, accepted \cup {Current(s)}},
             subPc' \in {[subPc EXCEPT ![s] = "pushed"], [subPc EXCEPT ![s] = "idle"]}
      PROVE  SubmissionInv'
  <2>1. made[s] \in Nat /\ Current(s) = <<s, made[s]>>
    BY <1>0
  <2>2. \A t \in accepted' : t[2] <= made'[t[1]]
    BY <1>4, <2>1
  <2>3. ASSUME NEW r \in Submitters, subPc'[r] = "checked" PROVE Current(r)' \notin accepted'
    <3>1. r # s /\ subPc[r] = "checked"
      BY <1>4, <2>3
    <3>2. Current(r)' = Current(r) /\ Current(r) # Current(s)
      BY <1>0, <1>4, <3>1
    <3> QED
      BY <1>4, <3>1, <3>2
  <2> QED
    BY <2>2, <2>3
<1>5. ASSUME NEW s \in Submitters, SubmitPush(s)
      PROVE  SubmissionInv'
  BY <1>4, <1>5 DEF SubmitPush
<1>6. ASSUME NEW s \in Submitters, SubmitFails(s)
      PROVE  SubmissionInv'
  <2>1. CASE subPc[s] = "checked"
    BY <1>4, <1>6, <2>1 DEF SubmitFails
  <2>2. CASE subPc[s] = "pushed"
    BY <1>0, <1>6, <2>2 DEF SubmitFails
  <2> QED
    BY <1>6, <2>1, <2>2 DEF SubmitFails
<1>7. ASSUME NEW S, Abandon(S), UNCHANGED <<made, accepted>>
      PROVE  SubmissionInv'
  BY <1>0, <1>7 DEF Abandon
<1>8. CASE ServerCloseFrontDoor \/ DaemonCrash \/ ApiRestart
  BY <1>7, <1>8 DEF ServerCloseFrontDoor, DaemonCrash, ApiRestart
<1>9. ASSUME NEW w \in Workers, WorkerStep(w) \/ WorkerFails(w)
      PROVE  UNCHANGED submitVars
  BY <1>9 DEF WorkerStep, WorkerCheckEvent, WorkerPollTimeout, WorkerPop,
              WorkerRunAgent, WorkerStore, WorkerCount, WorkerFails
<1>10. CASE ServerStart \/ ServerStop \/ ServerDrainRead \/ ServerDrainDelete
              \/ ServerWorkersDone \/ ServerCancelWorkers \/ ServerDrainFails
              \/ UNCHANGED vars
  <2> UNCHANGED submitVars
    BY <1>10 DEF ServerStart, ServerStop, ServerDrainRead, ServerDrainDelete,
                 ServerWorkersDone, ServerCancelWorkers, ServerDrainFails, vars
  <2> QED
    BY <1>1
<1> QED
  BY <1>1, <1>2, <1>3, <1>5, <1>6, <1>8, <1>9, <1>10
     DEF Next, SubmitterStep, ShutdownStep, FaultStep

(***************************************************************************)
(* What a step can do to the list, the accepted requests and their starts. *)
(***************************************************************************)
LEMMA QueueSteps ==
  [Next]_vars =>
    \/ UNCHANGED <<pending, accepted, starts>>
    \/ \E s \in Submitters :
         /\ subPc[s] = "checked"
         /\ Push(Current(s))
         /\ accepted' = accepted \cup {Current(s)}
         /\ UNCHANGED starts
    \/ \E t \in Queued(pending) :
         /\ Pop(t)
         /\ starts' \in {starts, [starts EXCEPT ![t] = @ + 1]}
         /\ UNCHANGED accepted
    \/ pending' = <<>> /\ UNCHANGED <<accepted, starts>>
<1> SUFFICES ASSUME [Next]_vars
             PROVE  \/ UNCHANGED <<pending, accepted, starts>>
                    \/ \E s \in Submitters :
                         /\ subPc[s] = "checked"
                         /\ Push(Current(s))
                         /\ accepted' = accepted \cup {Current(s)}
                         /\ UNCHANGED starts
                    \/ \E t \in Queued(pending) :
                         /\ Pop(t)
                         /\ starts' \in {starts, [starts EXCEPT ![t] = @ + 1]}
                         /\ UNCHANGED accepted
                    \/ pending' = <<>> /\ UNCHANGED <<accepted, starts>>
  OBVIOUS
<1> USE DEF redisVars, submitVars, workerVars
<1>1. ASSUME NEW s \in Submitters, SubmitterStep(s)
      PROVE  \/ UNCHANGED <<pending, accepted, starts>>
             \/ /\ subPc[s] = "checked"
                /\ Push(Current(s))
                /\ accepted' = accepted \cup {Current(s)}
                /\ UNCHANGED starts
  BY <1>1 DEF SubmitterStep, Connect, HangUp, SubmitCheck, SubmitPush, SubmitCount,
              CountSubmitted
<1>2. ASSUME NEW s \in Submitters, SubmitFails(s)
      PROVE  \/ UNCHANGED <<pending, accepted, starts>>
             \/ /\ subPc[s] = "checked"
                /\ Push(Current(s))
                /\ accepted' = accepted \cup {Current(s)}
                /\ UNCHANGED starts
  <2>1. UNCHANGED starts
    BY <1>2 DEF SubmitFails
  <2>2. CASE subPc[s] = "pushed"
    BY <1>2, <2>1, <2>2 DEF SubmitFails, Perhaps, CountSubmitted
  <2>3. CASE subPc[s] = "checked"
    <3>1. /\ Push(Current(s)) \/ UNCHANGED redisVars
          /\ accepted' = IF pending' = pending THEN accepted
                                               ELSE accepted \cup {Current(s)}
      BY <1>2, <2>3 DEF SubmitFails, Perhaps
    <3>2. CASE pending' = pending
      BY <2>1, <3>1, <3>2
    <3>3. CASE pending' # pending
      BY <2>1, <2>3, <3>1, <3>3
    <3> QED
      BY <3>2, <3>3
  <2> QED
    BY <1>2, <2>2, <2>3 DEF SubmitFails
<1>3. ASSUME NEW w \in Workers, WorkerStep(w)
      PROVE  \/ UNCHANGED <<pending, accepted, starts>>
             \/ \E t \in Queued(pending) :
                  /\ Pop(t)
                  /\ starts' = [starts EXCEPT ![t] = @ + 1]
                  /\ UNCHANGED accepted
  BY <1>3 DEF WorkerStep, WorkerCheckEvent, WorkerPollTimeout, NothingToPop, WorkerPop,
              WorkerRunAgent, WorkerStore, Store, WorkerCount, CountCompleted
<1>4. ASSUME NEW w \in Workers, WorkerFails(w)
      PROVE  \/ UNCHANGED <<pending, accepted, starts>>
             \/ \E t \in Queued(pending) : Pop(t) /\ UNCHANGED <<accepted, starts>>
  BY <1>4 DEF WorkerFails, Perhaps, Store, CountCompleted
<1>5. CASE ServerDrainDelete \/ ServerDrainFails
  BY <1>5 DEF ServerDrainDelete, ServerDrainFails, Perhaps, Delete
<1>6. CASE ServerStart \/ ServerStop \/ ServerCloseFrontDoor \/ ServerDrainRead
             \/ ServerWorkersDone \/ ServerCancelWorkers \/ DaemonCrash \/ ApiRestart
             \/ UNCHANGED vars
  BY <1>6 DEF ServerStart, ServerStop, ServerCloseFrontDoor, ServerDrainRead, Range0ToEnd,
              ServerWorkersDone, ServerCancelWorkers, DaemonCrash, ApiRestart, vars
<1> QED
  BY <1>1, <1>2, <1>3, <1>4, <1>5, <1>6 DEF Next, ShutdownStep, FaultStep

LEMMA QueueStep == TypeInv /\ SubmissionInv /\ QueueInv /\ [Next]_vars => QueueInv'
<1> SUFFICES ASSUME TypeInv, SubmissionInv, QueueInv, [Next]_vars PROVE QueueInv'
  OBVIOUS
<1>0. pending \in Seq(Task) /\ starts \in [Task -> Nat] /\ accepted \in SUBSET Task
  BY DEF TypeInv, TypeOK, RedisTypeOK, WorkerTypeOK, SubmitTypeOK
<1>1. CASE UNCHANGED <<pending, accepted, starts>>
  BY <1>1 DEF QueueInv, Queued, NoRepeat
<1>2. ASSUME NEW s \in Submitters, subPc[s] = "checked", Push(Current(s)),
             accepted' = accepted \cup {Current(s)}, UNCHANGED starts
      PROVE  QueueInv'
  <2>1. Current(s) \in Task
    BY <1>2, CurrentIsTask
  <2>2. Current(s) \notin accepted /\ Current(s) \notin Queued(pending)
    BY <1>2 DEF SubmissionInv, QueueInv
  <2>3. Queued(pending') = Queued(pending) \cup {Current(s)} /\ NoRepeat(pending')
    BY <1>0, <1>2, <2>1, <2>2, AppendFacts DEF Push, QueueInv
  <2> QED
    BY <1>0, <1>2, <2>2, <2>3 DEF QueueInv
<1>3. ASSUME NEW t \in Queued(pending), Pop(t),
             starts' \in {starts, [starts EXCEPT ![t] = @ + 1]}, UNCHANGED accepted
      PROVE  QueueInv'
  <2>1. t \in Task /\ t \in accepted /\ starts[t] = 0
    BY <1>0, QueuedAreTasks DEF QueueInv
  <2>2. Queued(pending') = Queued(pending) \ {t} /\ NoRepeat(pending')
    BY <1>0, <1>3, TailFacts DEF Pop, QueueInv
  <2> QED
    BY <1>0, <1>3, <2>1, <2>2 DEF QueueInv
<1>4. CASE pending' = <<>> /\ UNCHANGED <<accepted, starts>>
  BY <1>4 DEF QueueInv, Queued, NoRepeat
<1> QED
  BY <1>1, <1>2, <1>3, <1>4, QueueSteps

LEMMA HolderStep ==
  TypeInv /\ QueueInv /\ HolderInv /\ [Next]_vars => HolderInv'
<1> SUFFICES ASSUME TypeInv, QueueInv, HolderInv, [Next]_vars PROVE HolderInv'
  OBVIOUS
<1>0. /\ workerPc \in [Workers -> {"off", "checking", "polling", "running", "storing",
                                 "counting", "stopped", "dead"}]
      /\ workerTask \in [Workers -> Task \cup {NoTask}]
      /\ starts \in [Task -> Nat]
      /\ results \in SUBSET Task
      /\ \A w \in Busy : workerTask[w] \in Task
  BY DEF TypeInv, TypeOK, RedisTypeOK, WorkerTypeOK, HoldersHold
<1> USE DEF HolderInv, Busy, InFlight
<1>1. CASE UNCHANGED <<workerVars, results>>
  BY <1>1 DEF workerVars
<1>2. ASSUME NEW w \in Workers,
             WorkerCheckEvent(w) \/ WorkerPollTimeout(w) \/ WorkerRunAgent(w)
      PROVE  HolderInv'
  BY <1>0, <1>2 DEF WorkerCheckEvent, WorkerPollTimeout, WorkerRunAgent, NothingToPop,
                    redisVars
<1>3. ASSUME NEW w \in Workers, WorkerPop(w) PROVE HolderInv'
  <2>1. PICK t \in Queued(pending) :
          /\ Pop(t)
          /\ workerTask' = [workerTask EXCEPT ![w] = t]
          /\ starts' = [starts EXCEPT ![t] = @ + 1]
    BY <1>3 DEF WorkerPop
  <2>2. t \in Task /\ starts[t] = 0
    BY QueuedAreTasks DEF QueueInv, TypeInv, TypeOK, RedisTypeOK
  <2>3. results' = results /\ workerPc' = [workerPc EXCEPT ![w] = "running"]
    BY <1>3, <2>1 DEF WorkerPop, Pop
  <2>4. t \notin results /\ \A v \in Busy : workerTask[v] # t
    BY <2>2
  <2> QED
    BY <1>0, <2>1, <2>2, <2>3, <2>4
<1>4. ASSUME NEW w \in Busy, workerPc[w] = "storing", UNCHANGED starts,
             results' \in {results, results \cup {workerTask[w]}},
             \/ workerPc' = [workerPc EXCEPT ![w] = "counting"] /\ UNCHANGED workerTask
             \/ /\ workerPc' = [workerPc EXCEPT ![w] = "dead"]
                /\ workerTask' = [workerTask EXCEPT ![w] = NoTask]
      PROVE  HolderInv'
  BY <1>0, <1>4
<1>5. ASSUME NEW w \in Workers, WorkerStore(w) PROVE HolderInv'
  BY <1>4, <1>5 DEF WorkerStore, Store
<1>6. ASSUME NEW w \in Workers, NEW pc \in {"checking", "dead"},
             workerPc' = [workerPc EXCEPT ![w] = pc],
             workerTask' = [workerTask EXCEPT ![w] = NoTask],
             UNCHANGED <<starts, results>>
      PROVE  HolderInv'
  BY <1>0, <1>6
<1>7. ASSUME NEW w \in Workers, WorkerCount(w) PROVE HolderInv'
  BY <1>6, <1>7 DEF WorkerCount, CountCompleted
<1>8. ASSUME NEW w \in Workers, WorkerFails(w) PROVE HolderInv'
  <2>1. CASE workerPc[w] = "storing"
    BY <1>4, <1>8, <2>1 DEF WorkerFails, Perhaps, Store, redisVars
  <2>2. CASE workerPc[w] # "storing"
    BY <1>6, <1>8, <2>2 DEF WorkerFails, Perhaps, Pop, CountCompleted, redisVars
  <2> QED
    BY <2>1, <2>2
<1>9. ASSUME NEW pc \in {"off", "checking"}, AllWorkers(pc), UNCHANGED <<starts, results>>
      PROVE  HolderInv'
  BY <1>9 DEF AllWorkers
<1>10. CASE ServerStart \/ ServerWorkersDone \/ ServerCancelWorkers \/ ServerDrainFails
              \/ DaemonCrash
  BY <1>9, <1>10 DEF ServerStart, ServerWorkersDone, ServerCancelWorkers, ServerDrainFails,
                     DaemonCrash, ProcessEnds, Perhaps, Delete, redisVars
<1>11. ASSUME NEW s \in Submitters, SubmitterStep(s) \/ SubmitFails(s)
       PROVE  UNCHANGED <<workerVars, results>>
  BY <1>11 DEF SubmitterStep, Connect, HangUp, SubmitCheck, SubmitPush, SubmitCount,
               SubmitFails, Perhaps, Push, CountSubmitted, redisVars
<1>12. CASE ServerStop \/ ServerCloseFrontDoor \/ ServerDrainRead \/ ServerDrainDelete
              \/ ApiRestart \/ UNCHANGED vars
  <2> UNCHANGED <<workerVars, results>>
    BY <1>12 DEF ServerStop, ServerCloseFrontDoor, ServerDrainRead, Range0ToEnd,
                 ServerDrainDelete, Delete, ApiRestart, vars, redisVars
  <2> QED
    BY <1>1
<1> QED
  BY <1>1, <1>2, <1>3, <1>5, <1>7, <1>8, <1>10, <1>11, <1>12
     DEF Next, WorkerStep, ShutdownStep, FaultStep

LEMMA OnceInvHolds == Spec => []OnceInv
<1>1. Init => SubmissionInv /\ QueueInv /\ HolderInv
  BY DEF Init, QueueInit, SubmissionInv, QueueInv, HolderInv, NoRepeat, Queued, Busy,
         InFlight
<1>2. OnceInv /\ [Next]_vars => SubmissionInv' /\ QueueInv' /\ HolderInv'
  BY SubmissionStep, QueueStep, HolderStep DEF OnceInv
<1> QED
  BY <1>1, <1>2, TypeInvHolds, PTL DEF Spec, OnceInv

\* At-most-once execution, for any number of workers, submitters, crashes,
\* restarts and Redis errors.
THEOREM AtMostOnceHolds == Spec => []AtMostOnce
<1>1. OnceInv => AtMostOnce
  BY DEF OnceInv, QueueInv, HolderInv, AtMostOnce
<1> QED
  BY <1>1, OnceInvHolds, PTL

\* Types and at-most-once execution, as the run checks them.
THEOREM QueueIsSound == Spec => []QueueSound
<1>1. TypeOK /\ AtMostOnce => QueueSound
  BY DEF QueueSound
<1> QED
  BY <1>1, TypeCorrect, AtMostOnceHolds, PTL

-----------------------------------------------------------------------------
(***************************************************************************)
(* Backpressure.  A submitter that has read LLEN but not pushed is a       *)
(* reservation nobody sees: the inductive bound counts it.                 *)
(***************************************************************************)
Checked == {s \in Submitters : subPc[s] = "checked"}

BacklogInv ==
  Len(pending) + Cardinality(Checked) <= LargestLimit - 1 + Cardinality(Submitters)

LEMMA CheckedIsFinite ==
  /\ IsFiniteSet(Checked)
  /\ Cardinality(Checked) \in Nat
  /\ Cardinality(Submitters) \in Nat
  /\ Cardinality(Checked) <= Cardinality(Submitters)
BY DaemonAssumption, FS_Subset, FS_CardinalityType DEF Checked

\* A step turns a reservation into a queued request, makes one while there is
\* room, or makes neither.
LEMMA BacklogSteps ==
  TypeInv /\ [Next]_vars =>
    \/ Len(pending) <= LargestLimit - 1 /\ pending' = pending
    \/ Len(pending') <= Len(pending) /\ Checked' \subseteq Checked
    \/ \E s \in Checked : Checked' = Checked \ {s} /\ Len(pending') = Len(pending) + 1
<1> SUFFICES ASSUME TypeInv, [Next]_vars
             PROVE  \/ Len(pending) <= LargestLimit - 1 /\ pending' = pending
                    \/ Len(pending') <= Len(pending) /\ Checked' \subseteq Checked
                    \/ \E s \in Checked : /\ Checked' = Checked \ {s}
                                          /\ Len(pending') = Len(pending) + 1
  OBVIOUS
<1> USE DaemonAssumption DEF Checked
<1>0. pending \in Seq(Task) /\ subPc \in [Submitters -> {"idle", "connected", "checked", "pushed"}]
  BY DEF TypeInv, TypeOK, RedisTypeOK, SubmitTypeOK
<1>1. ASSUME NEW t, Pop(t) PROVE Len(pending') <= Len(pending)
  BY <1>0, <1>1 DEF Pop
<1>2. ASSUME NEW s \in Submitters, SubmitCheck(s), subPc' # [subPc EXCEPT ![s] = "idle"]
      PROVE  Len(pending) <= LargestLimit - 1 /\ pending' = pending
  BY <1>0, <1>2 DEF SubmitCheck, HasRoom, Limit, LargestLimit, redisVars
<1>3. ASSUME NEW s \in Submitters, SubmitCheck(s), subPc' = [subPc EXCEPT ![s] = "idle"]
      PROVE  Len(pending') <= Len(pending) /\ Checked' \subseteq Checked
  BY <1>0, <1>3 DEF SubmitCheck, redisVars
<1>4. ASSUME NEW s \in Submitters, subPc[s] = "checked", Push(Current(s)),
             subPc' \in {[subPc EXCEPT ![s] = "pushed"], [subPc EXCEPT ![s] = "idle"]}
      PROVE  s \in Checked /\ Checked' = Checked \ {s} /\ Len(pending') = Len(pending) + 1
  <2>1. Len(pending') = Len(pending) + 1
    BY <1>0, <1>4, CurrentIsTask DEF Push
  <2> QED
    BY <1>0, <1>4, <2>1
<1>5. ASSUME NEW s \in Submitters, Connect(s) \/ HangUp(s) \/ SubmitCount(s)
      PROVE  Len(pending') <= Len(pending) /\ Checked' \subseteq Checked
  BY <1>0, <1>5 DEF Connect, HangUp, SubmitCount, CountSubmitted, redisVars
<1>6. ASSUME NEW s \in Submitters, SubmitFails(s)
      PROVE  \/ Len(pending') <= Len(pending) /\ Checked' \subseteq Checked
             \/ subPc[s] = "checked" /\ Push(Current(s))
  <2>1. pending' = pending \/ (subPc[s] = "checked" /\ Push(Current(s)))
    BY <1>6 DEF SubmitFails, Perhaps, CountSubmitted, redisVars
  <2>2. subPc' = [subPc EXCEPT ![s] = "idle"]
    BY <1>6 DEF SubmitFails
  <2> QED
    BY <1>0, <2>1, <2>2
<1>7. ASSUME NEW S, Abandon(S), UNCHANGED pending
      PROVE  Len(pending') <= Len(pending) /\ Checked' \subseteq Checked
  BY <1>0, <1>7 DEF Abandon
<1>8. CASE ServerCloseFrontDoor \/ DaemonCrash \/ ApiRestart
  BY <1>7, <1>8 DEF ServerCloseFrontDoor, DaemonCrash, ApiRestart, redisVars
<1>9. ASSUME NEW w \in Workers, WorkerStep(w) \/ WorkerFails(w)
      PROVE  Len(pending') <= Len(pending) /\ Checked' \subseteq Checked
  <2>1. UNCHANGED subPc
    BY <1>9 DEF WorkerStep, WorkerCheckEvent, WorkerPollTimeout, WorkerPop,
                WorkerRunAgent, WorkerStore, WorkerCount, WorkerFails, submitVars
  <2>2. UNCHANGED pending \/ \E t \in Queued(pending) : Pop(t)
    BY <1>9 DEF WorkerStep, WorkerCheckEvent, WorkerPollTimeout, NothingToPop, WorkerPop,
                WorkerRunAgent, WorkerStore, WorkerCount, WorkerFails, Store,
                CountCompleted, Perhaps, redisVars
  <2> QED
    BY <1>0, <1>1, <2>1, <2>2
<1>10. CASE ServerStart \/ ServerStop \/ ServerDrainRead \/ ServerDrainDelete
              \/ ServerWorkersDone \/ ServerCancelWorkers \/ ServerDrainFails
              \/ UNCHANGED vars
  <2>1. UNCHANGED subPc
    BY <1>10 DEF ServerStart, ServerStop, ServerDrainRead, ServerDrainDelete,
                 ServerWorkersDone, ServerCancelWorkers, ServerDrainFails, vars, submitVars
  <2>2. pending' = pending \/ pending' = <<>>
    BY <1>10 DEF ServerStart, ServerStop, ServerDrainRead, Range0ToEnd, ServerDrainDelete,
                 ServerWorkersDone, ServerCancelWorkers, ServerDrainFails, Perhaps, Delete,
                 vars, redisVars
  <2> QED
    BY <1>0, <2>1, <2>2
<1>11. ASSUME NEW s \in Submitters, SubmitPush(s)
       PROVE  s \in Checked /\ Checked' = Checked \ {s} /\ Len(pending') = Len(pending) + 1
  BY <1>4, <1>11 DEF SubmitPush
<1>12. ASSUME NEW s \in Submitters, SubmitFails(s), subPc[s] = "checked", Push(Current(s))
       PROVE  s \in Checked /\ Checked' = Checked \ {s} /\ Len(pending') = Len(pending) + 1
  BY <1>4, <1>12 DEF SubmitFails
<1>13. ASSUME NEW s \in Submitters, SubmitterStep(s) \/ SubmitFails(s)
       PROVE  \/ Len(pending) <= LargestLimit - 1 /\ pending' = pending
              \/ Len(pending') <= Len(pending) /\ Checked' \subseteq Checked
              \/ \E r \in Checked : /\ Checked' = Checked \ {r}
                                    /\ Len(pending') = Len(pending) + 1
  BY <1>2, <1>3, <1>5, <1>6, <1>11, <1>12, <1>13 DEF SubmitterStep
<1> QED
  BY <1>8, <1>9, <1>10, <1>13 DEF Next, ShutdownStep, FaultStep

\* The backlog may exceed maxsize (LLEN and RPUSH are two commands), by less
\* than the number of submitters, however they interleave.
THEOREM BacklogBounded == Spec => []BoundedBacklog
<1> USE DEF BacklogInv
<1>0. LargestLimit \in Nat \ {0}
  BY DaemonAssumption DEF LargestLimit
<1>1. Init => BacklogInv
  <2> SUFFICES ASSUME Init PROVE BacklogInv
    OBVIOUS
  <2>1. Len(pending) = 0
    BY DEF Init, QueueInit
  <2> QED
    BY <1>0, <2>1, CheckedIsFinite
<1>2. TypeInv /\ BacklogInv /\ [Next]_vars => BacklogInv'
  <2> SUFFICES ASSUME TypeInv, TypeInv', BacklogInv, [Next]_vars PROVE BacklogInv'
    BY TypeInvPreserved
  <2>0. Len(pending) \in Nat /\ Len(pending') \in Nat /\ LargestLimit' = LargestLimit
    BY DEF TypeInv, TypeOK, RedisTypeOK, LargestLimit
  <2>1. /\ Cardinality(Checked') \in Nat
        /\ Cardinality(Checked') <= Cardinality(Submitters)
    BY DaemonAssumption, FS_Subset, FS_CardinalityType DEF Checked
  <2>2. CASE Len(pending) <= LargestLimit - 1 /\ pending' = pending
    BY <1>0, <2>0, <2>1, <2>2, CheckedIsFinite
  <2>3. CASE Len(pending') <= Len(pending) /\ Checked' \subseteq Checked
    <3>1. Cardinality(Checked') <= Cardinality(Checked)
      BY <2>3, CheckedIsFinite, FS_Subset
    <3> QED
      BY <1>0, <2>0, <2>1, <2>3, <3>1, CheckedIsFinite
  <2>4. ASSUME NEW s \in Checked, Checked' = Checked \ {s}, Len(pending') = Len(pending) + 1
        PROVE  BacklogInv'
    <3>1. Cardinality(Checked') = Cardinality(Checked) - 1
      BY <2>4, CheckedIsFinite, FS_RemoveElement
    <3> QED
      BY <1>0, <2>0, <2>4, <3>1, CheckedIsFinite
  <2> QED
    BY <2>2, <2>3, <2>4, BacklogSteps
<1>3. TypeInv /\ BacklogInv => BoundedBacklog
  <2> SUFFICES ASSUME TypeInv, BacklogInv PROVE BoundedBacklog
    OBVIOUS
  <2>1. Len(pending) \in Nat
    BY DEF TypeInv, TypeOK, RedisTypeOK
  <2> QED
    BY <1>0, <2>1, CheckedIsFinite DEF BoundedBacklog
<1> QED
  BY <1>1, <1>2, <1>3, TypeInvHolds, PTL DEF Spec

-----------------------------------------------------------------------------
(***************************************************************************)
(* Nothing submitted inside the daemon vanishes.  The order of run's       *)
(* shutdown is what the proof turns on: once drain has read the list, no   *)
(* cron job and no connection can push (DoorClosed), so the list DEL       *)
(* removes holds, of the daemon's own requests, only what was read         *)
(* (SnapshotCovers).                                                       *)
(***************************************************************************)
Inside == SocketClients \cup CronJobs

DoorClosed ==
  /\ server # "up" => \A s \in CronJobs : subPc[s] = "idle"
  /\ server = "draining" => \A s \in SocketClients : subPc[s] = "idle"

SnapshotCovers ==
  server = "draining" => \A t \in Queued(pending) : t[1] \in Inside => t \in snapshot

WorkersFollow ==
  /\ server = "down" => \A w \in Workers : workerPc[w] = "off"
  /\ \A w \in Workers : workerPc[w] = "counting" => workerTask[w] \in results

AccountInv == DoorClosed /\ SnapshotCovers /\ WorkersFollow /\ DaemonRequestsAccounted

LEMMA DoorStep == TypeInv /\ DoorClosed /\ [Next]_vars => DoorClosed'
<1> SUFFICES ASSUME TypeInv, DoorClosed, [Next]_vars PROVE DoorClosed'
  OBVIOUS
<1> USE DaemonAssumption DEF DoorClosed, Submitters
<1>0. subPc \in [Submitters -> {"idle", "connected", "checked", "pushed"}]
  BY DEF TypeInv, TypeOK, SubmitTypeOK
<1>1. ASSUME NEW s \in Submitters, SubmitterStep(s) PROVE DoorClosed'
  BY <1>0, <1>1 DEF SubmitterStep, Connect, HangUp, SubmitCheck, MaySubmit, SubmitPush,
                    SubmitCount, serverVars
<1>2. ASSUME NEW s \in Submitters, SubmitFails(s) PROVE DoorClosed'
  BY <1>0, <1>2 DEF SubmitFails, serverVars
<1>3. ASSUME NEW w \in Workers, WorkerStep(w) \/ WorkerFails(w) PROVE DoorClosed'
  BY <1>3 DEF WorkerStep, WorkerCheckEvent, WorkerPollTimeout, WorkerPop, WorkerRunAgent,
              WorkerStore, WorkerCount, WorkerFails, serverVars, submitVars
<1>4. CASE ServerCloseFrontDoor \/ DaemonCrash \/ ApiRestart
  BY <1>0, <1>4 DEF ServerCloseFrontDoor, DaemonCrash, ApiRestart, Abandon, ProcessEnds,
                    serverVars
<1>5. CASE ServerStart \/ ServerStop \/ ServerDrainRead \/ ServerDrainDelete
             \/ ServerWorkersDone \/ ServerCancelWorkers \/ ServerDrainFails
             \/ UNCHANGED vars
  BY <1>5 DEF ServerStart, ServerStop, ServerDrainRead, ServerDrainDelete,
              ServerWorkersDone, ServerCancelWorkers, ServerDrainFails, ProcessEnds,
              submitVars, serverVars, vars
<1> QED
  BY <1>1, <1>2, <1>3, <1>4, <1>5 DEF Next, ShutdownStep, FaultStep

LEMMA SnapshotStep ==
  TypeInv /\ DoorClosed /\ SnapshotCovers /\ [Next]_vars => SnapshotCovers'
<1> SUFFICES ASSUME TypeInv, DoorClosed, SnapshotCovers, [Next]_vars,
                    server' = "draining", NEW t \in Queued(pending'), t[1] \in Inside
             PROVE  t \in snapshot'
  BY DEF SnapshotCovers, Inside
<1>0. pending \in Seq(Task) /\ subPc \in [Submitters -> {"idle", "connected", "checked", "pushed"}]
  BY DEF TypeInv, TypeOK, RedisTypeOK, SubmitTypeOK
<1>1. CASE ServerDrainRead
  BY <1>1 DEF ServerDrainRead, Range0ToEnd, redisVars
<1>2. ASSUME ~ServerDrainRead PROVE server = "draining" /\ snapshot' = snapshot
  BY <1>2 DEF Next, ShutdownStep, FaultStep, SubmitterStep, Connect, HangUp, SubmitCheck,
       SubmitPush, SubmitCount, SubmitFails, WorkerStep, WorkerCheckEvent,
       WorkerPollTimeout, WorkerPop, WorkerRunAgent, WorkerStore, WorkerCount,
       WorkerFails, ServerStart, ServerStop, ServerCloseFrontDoor, ServerDrainDelete,
       ServerWorkersDone, ServerCancelWorkers, ServerDrainFails, DaemonCrash, ApiRestart,
       ProcessEnds, serverVars, vars
<1>3. ASSUME server = "draining", NEW s \in Submitters, subPc[s] = "checked",
             Push(Current(s)), t \notin Queued(pending)
      PROVE  FALSE
  <2>1. Current(s) \in Task /\ pending' = Append(pending, Current(s))
    BY <1>3, CurrentIsTask DEF Push
  <2>2. t = Current(s)
    BY <1>0, <1>3, <2>1 DEF Queued
  <2>3. s \in Inside
    BY <2>2 DEF Current
  <2> QED
    BY <1>3, <2>3 DEF Inside, DoorClosed
<1>4. ASSUME NEW r, Pop(r), t \notin Queued(pending) PROVE FALSE
  <2>1. pending' = Tail(pending) /\ pending # <<>>
    BY <1>4 DEF Pop
  <2>2. \A i \in DOMAIN Tail(pending) : i + 1 \in DOMAIN pending
                                        /\ Tail(pending)[i] = pending[i + 1]
    BY <1>0, <2>1
  <2> QED
    BY <1>4, <2>1, <2>2 DEF Queued
<1>5. CASE server = "draining" /\ t \in Queued(pending) /\ snapshot' = snapshot
  BY <1>5 DEF SnapshotCovers
<1>6. ASSUME server = "draining" PROVE t \in Queued(pending)
  <2>1. CASE UNCHANGED redisVars
    BY <2>1 DEF redisVars
  <2>2. CASE Delete
    BY <2>2 DEF Delete, Queued
  <2> QED
    BY <1>3, <1>4, <1>6, <2>1, <2>2, NextIsRedisStep
       DEF RedisStep, CountSubmitted, CountCompleted, Store
<1> QED
  BY <1>1, <1>2, <1>5, <1>6

LEMMA WorkersStep == TypeInv /\ WorkersFollow /\ [Next]_vars => WorkersFollow'
<1> SUFFICES ASSUME TypeInv, WorkersFollow, [Next]_vars PROVE WorkersFollow'
  OBVIOUS
<1> USE DEF WorkersFollow
<1>0. /\ workerPc \in [Workers -> {"off", "checking", "polling", "running", "storing",
                                 "counting", "stopped", "dead"}]
      /\ workerTask \in [Workers -> Task \cup {NoTask}]
      /\ results \subseteq results'
  <2>1. results \subseteq results'
    BY NextIsRedisStep DEF RedisStep, redisVars, Push, CountSubmitted, Pop, Store,
       CountCompleted, Delete
  <2> QED
    BY <2>1 DEF TypeInv, TypeOK, WorkerTypeOK
<1>1. ASSUME NEW s \in Submitters, SubmitterStep(s) \/ SubmitFails(s) PROVE WorkersFollow'
  BY <1>0, <1>1 DEF SubmitterStep, Connect, HangUp, SubmitCheck, SubmitPush, SubmitCount,
                    SubmitFails, serverVars, workerVars
<1>2. ASSUME NEW w \in Workers, WorkerStep(w) PROVE WorkersFollow'
  BY <1>0, <1>2 DEF WorkerStep, WorkerCheckEvent, WorkerPollTimeout, WorkerPop,
                    WorkerRunAgent, WorkerStore, Store, WorkerCount, serverVars
<1>3. ASSUME NEW w \in Workers, WorkerFails(w) PROVE WorkersFollow'
  BY <1>0, <1>3 DEF WorkerFails, serverVars
<1>4. CASE ServerStart \/ ServerWorkersDone \/ ServerCancelWorkers \/ ServerDrainFails
             \/ DaemonCrash
  BY <1>0, <1>4 DEF ServerStart, ServerWorkersDone, ServerCancelWorkers, ServerDrainFails,
                    DaemonCrash, ProcessEnds, AllWorkers
<1>5. CASE ServerStop \/ ServerCloseFrontDoor \/ ServerDrainRead \/ ServerDrainDelete
             \/ ApiRestart \/ UNCHANGED vars
  BY <1>0, <1>5 DEF ServerStop, ServerCloseFrontDoor, ServerDrainRead, ServerDrainDelete,
                    ApiRestart, serverVars, workerVars, vars
<1> QED
  BY <1>1, <1>2, <1>3, <1>4, <1>5 DEF Next, ShutdownStep, FaultStep

\* A request leaves the list, a worker's hands or the drain only for a place
\* a reader can find.
LEMMA AccountStep ==
  TypeInv /\ AccountInv /\ [Next]_vars => DaemonRequestsAccounted'
<1> SUFFICES ASSUME TypeInv, AccountInv, [Next]_vars,
                    NEW t \in accepted', t[1] \notin ApiHandlers
             PROVE  Accounted(t)'
  BY DEF DaemonRequestsAccounted
<1> USE DEF Accounted
<1>0. /\ workerPc \in [Workers -> {"off", "checking", "polling", "running", "storing",
                                 "counting", "stopped", "dead"}]
      /\ workerTask \in [Workers -> Task \cup {NoTask}]
      /\ pending \in Seq(Task) /\ accepted \subseteq Task
  BY DEF TypeInv, TypeOK, RedisTypeOK, SubmitTypeOK, WorkerTypeOK
<1>1. t \in accepted => Accounted(t)
  BY DEF AccountInv, DaemonRequestsAccounted
<1>2. /\ \A x : x \in Held <=> \E w \in Workers :
           workerPc[w] \in {"running", "storing", "counting"} /\ workerTask[w] = x
      /\ \A x : x \in Held' <=> \E w \in Workers :
           workerPc'[w] \in {"running", "storing", "counting"} /\ workerTask'[w] = x
  BY DEF Held, Busy
<1>3. /\ results \subseteq results' /\ drained \subseteq drained' /\ lost \subseteq lost'
  <2>1. results \subseteq results'
    BY NextIsRedisStep DEF RedisStep, redisVars, Push, CountSubmitted, Pop, Store,
       CountCompleted, Delete
  <2>2. drained \subseteq drained' /\ lost \subseteq lost'
    BY DEF Next, ShutdownStep, FaultStep, SubmitterStep, Connect, HangUp, SubmitCheck,
       SubmitPush, SubmitCount, SubmitFails, WorkerStep, WorkerCheckEvent,
       WorkerPollTimeout, WorkerPop, WorkerRunAgent, WorkerStore, WorkerCount,
       WorkerFails, ServerStart, ServerStop, ServerCloseFrontDoor, ServerDrainRead,
       ServerDrainDelete, ServerWorkersDone, ServerCancelWorkers, ServerDrainFails,
       DaemonCrash, ApiRestart, ProcessEnds, serverVars, vars
  <2> QED
    BY <2>1, <2>2
<1>4. ASSUME NEW s \in Submitters, SubmitterStep(s) \/ SubmitFails(s) PROVE Accounted(t)'
  <2>1. Held' = Held
    BY <1>4 DEF SubmitterStep, Connect, HangUp, SubmitCheck, SubmitPush, SubmitCount,
                SubmitFails, workerVars, Held, Busy
  <2>2. CASE UNCHANGED <<pending, accepted>>
    BY <1>1, <1>3, <2>1, <2>2
  <2>3. CASE subPc[s] = "checked" /\ Push(Current(s)) /\ accepted' = accepted \cup {Current(s)}
    <3>1. Current(s) \in Task /\ pending' = Append(pending, Current(s))
      BY <2>3, CurrentIsTask DEF Push
    <3>2. Queued(pending') = Queued(pending) \cup {Current(s)}
      BY <1>0, <3>1 DEF Queued
    <3> QED
      BY <1>1, <1>3, <2>1, <2>3, <3>2
  <2>4. \/ UNCHANGED <<pending, accepted>>
        \/ subPc[s] = "checked" /\ Push(Current(s)) /\ accepted' = accepted \cup {Current(s)}
    <3>1. UNCHANGED starts
      BY <1>4 DEF SubmitterStep, Connect, HangUp, SubmitCheck, SubmitPush, SubmitCount,
                  SubmitFails, workerVars
    <3>2. CASE SubmitterStep(s)
      BY <3>2 DEF SubmitterStep, Connect, HangUp, SubmitCheck, SubmitPush, SubmitCount,
                  CountSubmitted, redisVars
    <3>3. CASE SubmitFails(s) /\ pending' = pending
      BY <3>3 DEF SubmitFails
    <3>4. CASE SubmitFails(s) /\ pending' # pending
      BY <3>4 DEF SubmitFails, Perhaps, CountSubmitted, redisVars
    <3> QED
      BY <1>4, <3>2, <3>3, <3>4
  <2> QED
    BY <2>2, <2>3, <2>4
<1>5. ASSUME NEW r, Pop(r) PROVE Queued(pending) \subseteq Queued(pending') \cup {r}
  <2>1. pending' = Tail(pending) /\ pending # <<>> /\ r = pending[1]
    BY <1>0, <1>5 DEF Pop
  <2>2. \A i \in DOMAIN pending : i # 1 => i - 1 \in DOMAIN Tail(pending)
                                           /\ Tail(pending)[i - 1] = pending[i]
    BY <1>0
  <2>3. ASSUME NEW i \in DOMAIN pending PROVE pending[i] \in Queued(pending') \cup {r}
    <3>1. CASE i = 1
      BY <2>1, <3>1
    <3>2. CASE i # 1
      <4>1. i - 1 \in DOMAIN pending' /\ pending'[i - 1] = pending[i]
        BY <2>1, <2>2, <3>2
      <4> QED
        BY <4>1 DEF Queued
    <3> QED
      BY <3>1, <3>2
  <2> QED
    BY <2>3 DEF Queued
<1>6. ASSUME NEW w \in Workers, WorkerStep(w) \/ WorkerFails(w) PROVE Accounted(t)'
  <2>0. t \in accepted
    BY <1>6 DEF WorkerStep, WorkerCheckEvent, WorkerPollTimeout, WorkerPop, WorkerRunAgent,
                WorkerStore, WorkerCount, WorkerFails, submitVars
  <2>1. CASE WorkerCheckEvent(w) \/ WorkerPollTimeout(w) \/ WorkerRunAgent(w)
    BY <1>0, <1>1, <1>2, <1>3, <2>0, <2>1
       DEF WorkerCheckEvent, WorkerPollTimeout, NothingToPop, WorkerRunAgent, redisVars
  <2>2. CASE WorkerPop(w)
    <3>1. PICK r \in Queued(pending) : Pop(r) /\ workerTask' = [workerTask EXCEPT ![w] = r]
      BY <2>2 DEF WorkerPop
    <3>2. workerPc[w] = "polling" /\ workerPc' = [workerPc EXCEPT ![w] = "running"]
      BY <2>2 DEF WorkerPop
    <3>3. Held \cup {r} \subseteq Held'
      BY <1>0, <1>2, <3>1, <3>2
    <3> QED
      BY <1>1, <1>3, <1>5, <2>0, <3>1, <3>3
  <2>3. CASE WorkerStore(w)
    BY <1>0, <1>1, <1>2, <1>3, <2>0, <2>3 DEF WorkerStore, Store
  <2>4. CASE WorkerCount(w)
    <3>1. workerTask[w] \in results
      BY <2>4 DEF WorkerCount, AccountInv, WorkersFollow
    <3> QED
      BY <1>0, <1>1, <1>2, <1>3, <2>0, <2>4, <3>1 DEF WorkerCount, CountCompleted
  <2>5. CASE WorkerFails(w)
    <3>1. Held \subseteq Held' \cup lost'
      BY <1>0, <1>2, <2>5 DEF WorkerFails
    <3>2. Queued(pending) \subseteq Queued(pending') \cup lost'
      BY <1>5, <2>5 DEF WorkerFails, Perhaps, Store, CountCompleted, redisVars
    <3> QED
      BY <1>1, <1>3, <2>0, <3>1, <3>2
  <2> QED
    BY <1>6, <2>1, <2>2, <2>3, <2>4, <2>5 DEF WorkerStep
<1>7. CASE ServerStart
  <2>1. Held = {}
    BY <1>2, <1>7 DEF ServerStart, AccountInv, WorkersFollow
  <2> QED
    BY <1>1, <1>3, <1>7, <2>1 DEF ServerStart, redisVars, submitVars
<1>8. CASE ServerDrainDelete
  <2>1. UNCHANGED <<accepted, workerPc, workerTask>> /\ drained' = drained \cup snapshot
    BY <1>8 DEF ServerDrainDelete, submitVars, workerVars
  <2>2. t[1] \in Inside
    BY <1>0, <2>1 DEF Task, Submitters, Inside
  <2>3. t \in Queued(pending) => t \in drained'
    BY <1>8, <2>1, <2>2 DEF ServerDrainDelete, AccountInv, SnapshotCovers
  <2>4. Held' = Held
    BY <2>1 DEF Held, Busy
  <2> QED
    BY <1>1, <1>3, <2>1, <2>3, <2>4
<1>9. CASE ServerWorkersDone \/ ServerCancelWorkers \/ ServerDrainFails \/ DaemonCrash
  <2>1. UNCHANGED accepted /\ lost' = lost \cup Held \cup (Queued(pending) \ Queued(pending'))
    BY <1>9 DEF ServerWorkersDone, ServerCancelWorkers, ServerDrainFails, DaemonCrash,
                ProcessEnds, submitVars
  <2> QED
    BY <1>1, <1>3, <2>1
<1>10. CASE ServerStop \/ ServerCloseFrontDoor \/ ServerDrainRead \/ ApiRestart
              \/ UNCHANGED vars
  <2>1. UNCHANGED <<pending, accepted, workerPc, workerTask>>
    BY <1>10 DEF ServerStop, ServerCloseFrontDoor, ServerDrainRead, Range0ToEnd, ApiRestart,
                 vars, redisVars, submitVars, workerVars
  <2>2. Held' = Held
    BY <2>1 DEF Held, Busy
  <2> QED
    BY <1>1, <1>3, <2>1, <2>2
<1> QED
  BY <1>4, <1>6, <1>7, <1>8, <1>9, <1>10 DEF Next, ShutdownStep, FaultStep

\* Every request a socket client or a cron job put on the list stays findable
\* (queued, held, finished, drained and logged) or is lost with its holder:
\* the drain at shutdown swallows none.
THEOREM DaemonRequestsAreAccounted == Spec => []DaemonRequestsAccounted
<1>1. Init => AccountInv
  <2> SUFFICES ASSUME Init PROVE AccountInv
    OBVIOUS
  <2> USE DaemonAssumption DEF Init
  <2>1. DoorClosed
    BY DEF DoorClosed, Submitters
  <2>2. SnapshotCovers /\ WorkersFollow /\ DaemonRequestsAccounted
    BY DEF SnapshotCovers, WorkersFollow, DaemonRequestsAccounted
  <2> QED
    BY <2>1, <2>2 DEF AccountInv
<1>2. TypeInv /\ AccountInv /\ [Next]_vars => AccountInv'
  BY DoorStep, SnapshotStep, WorkersStep, AccountStep DEF AccountInv
<1>3. AccountInv => DaemonRequestsAccounted
  BY DEF AccountInv
<1> QED
  BY <1>1, <1>2, <1>3, TypeInvHolds, PTL DEF Spec
-----------------------------------------------------------------------------
(***************************************************************************)
(* The counters never overstate.  A worker between HSET and INCR, and a    *)
(* submitter between RPUSH and INCR, owe the counter one: the inductive    *)
(* bound counts what is owed.  It needs that a result is stored and a      *)
(* request accepted once only, which is OnceInv.                           *)
(***************************************************************************)
Counting == {w \in Workers : workerPc[w] = "counting"}
Pushed == {s \in Submitters : subPc[s] = "pushed"}

ShadowsBehind ==
  \A p \in Processes : /\ shadow[p].completed <= completedCount
                       /\ shadow[p].submitted <= submittedCount

CounterInv ==
  /\ completedCount + Cardinality(Counting) <= Cardinality(results)
  /\ submittedCount + Cardinality(Pushed) <= Cardinality(accepted)
  /\ ShadowsBehind

LEMMA TasksAreFinite == IsFiniteSet(Task)
<1>1. IsFiniteSet(1..MaxTasks)
  BY DaemonAssumption, FS_Interval
<1> QED
  BY <1>1, DaemonAssumption, FS_Product DEF Task

LEMMA CountsAreNumbers ==
  TypeInv => /\ IsFiniteSet(results) /\ Cardinality(results) \in Nat
             /\ IsFiniteSet(accepted) /\ Cardinality(accepted) \in Nat
             /\ completedCount \in Nat /\ submittedCount \in Nat
BY TasksAreFinite, FS_Subset, FS_CardinalityType
   DEF TypeInv, TypeOK, RedisTypeOK, SubmitTypeOK

LEMMA OwedIsFinite ==
  /\ IsFiniteSet(Counting) /\ Cardinality(Counting) \in Nat
  /\ IsFiniteSet(Pushed) /\ Cardinality(Pushed) \in Nat
BY DaemonAssumption, FS_Subset, FS_CardinalityType DEF Counting, Pushed

\* What is owed, what was counted and what is there, after a step that
\* forgets a debt, pays one, or makes one with the thing it stands for.
LEMMA DebtStep ==
  ASSUME NEW count \in Nat, NEW count2 \in Nat, NEW Owed, NEW Owed2, NEW Done, NEW Done2,
         IsFiniteSet(Owed), IsFiniteSet(Done), IsFiniteSet(Done2),
         count + Cardinality(Owed) <= Cardinality(Done),
         \/ count2 = count /\ Owed2 \subseteq Owed /\ Done \subseteq Done2
         \/ \E x \in Owed : count2 = count + 1 /\ Owed2 = Owed \ {x} /\ Done2 = Done
         \/ \E x, t : /\ x \notin Owed /\ t \notin Done
                      /\ count2 = count /\ Owed2 = Owed \cup {x} /\ Done2 = Done \cup {t}
  PROVE  count2 + Cardinality(Owed2) <= Cardinality(Done2)
<1>1. Cardinality(Owed) \in Nat /\ Cardinality(Done) \in Nat /\ Cardinality(Done2) \in Nat
  BY FS_CardinalityType
<1>2. CASE count2 = count /\ Owed2 \subseteq Owed /\ Done \subseteq Done2
  <2>1. /\ Cardinality(Owed2) \in Nat /\ Cardinality(Owed2) <= Cardinality(Owed)
        /\ Cardinality(Done) <= Cardinality(Done2)
    BY <1>2, FS_Subset, FS_CardinalityType
  <2> QED
    BY <1>1, <1>2, <2>1
<1>3. ASSUME NEW x \in Owed, count2 = count + 1, Owed2 = Owed \ {x}, Done2 = Done
      PROVE  count2 + Cardinality(Owed2) <= Cardinality(Done2)
  <2>1. Cardinality(Owed2) = Cardinality(Owed) - 1
    BY <1>3, FS_RemoveElement
  <2> QED
    BY <1>1, <1>3, <2>1
<1>4. ASSUME NEW x, NEW t, x \notin Owed, t \notin Done, count2 = count,
             Owed2 = Owed \cup {x}, Done2 = Done \cup {t}
      PROVE  count2 + Cardinality(Owed2) <= Cardinality(Done2)
  <2>1. /\ Cardinality(Owed2) = Cardinality(Owed) + 1
        /\ Cardinality(Done2) = Cardinality(Done) + 1
    BY <1>4, FS_AddElement
  <2> QED
    BY <1>1, <1>4, <2>1
<1> QED
  BY <1>2, <1>3, <1>4

\* The workers' side.
LEMMA CompletedSteps ==
  OnceInv /\ [Next]_vars =>
    \/ completedCount' = completedCount /\ Counting' \subseteq Counting
         /\ results \subseteq results'
    \/ \E w \in Counting : /\ completedCount' = completedCount + 1
                           /\ Counting' = Counting \ {w} /\ results' = results
    \/ \E w, t : /\ w \notin Counting /\ t \notin results
                 /\ completedCount' = completedCount
                 /\ Counting' = Counting \cup {w} /\ results' = results \cup {t}
<1> DEFINE Forgets == completedCount' = completedCount /\ Counting' \subseteq Counting
                        /\ results \subseteq results'
           Pays == \E w \in Counting : /\ completedCount' = completedCount + 1
                                       /\ Counting' = Counting \ {w} /\ results' = results
           Owes == \E w, t : /\ w \notin Counting /\ t \notin results
                             /\ completedCount' = completedCount
                             /\ Counting' = Counting \cup {w}
                             /\ results' = results \cup {t}
<1> SUFFICES ASSUME OnceInv, [Next]_vars PROVE Forgets \/ Pays \/ Owes
  OBVIOUS
<1>0. workerPc \in [Workers -> {"off", "checking", "polling", "running", "storing",
                               "counting", "stopped", "dead"}]
  BY DEF OnceInv, TypeInv, TypeOK, WorkerTypeOK
<1>1. ASSUME NEW s \in Submitters, SubmitterStep(s) \/ SubmitFails(s) PROVE Forgets
  BY <1>1 DEF SubmitterStep, Connect, HangUp, SubmitCheck, SubmitPush, SubmitCount,
       SubmitFails, Perhaps, Push, CountSubmitted, redisVars, workerVars, Counting
<1>2. ASSUME NEW w \in Workers,
             WorkerCheckEvent(w) \/ WorkerPollTimeout(w) \/ WorkerPop(w) \/ WorkerRunAgent(w)
      PROVE  Forgets
  BY <1>0, <1>2 DEF WorkerCheckEvent, WorkerPollTimeout, NothingToPop, WorkerPop, Pop,
       WorkerRunAgent, redisVars, Counting
<1>3. ASSUME NEW w \in Workers, WorkerStore(w) PROVE Owes
  <2>1. w \notin Counting /\ workerTask[w] \notin results
    BY <1>3 DEF WorkerStore, Counting, OnceInv, HolderInv, InFlight, Busy
  <2>2. completedCount' = completedCount /\ results' = results \cup {workerTask[w]}
    BY <1>3 DEF WorkerStore, Store
  <2>3. Counting' = Counting \cup {w}
    BY <1>0, <1>3 DEF WorkerStore, Counting
  <2> QED
    BY <2>1, <2>2, <2>3
<1>4. ASSUME NEW w \in Workers, workerPc[w] = "counting", CountCompleted,
             workerPc' \in {[workerPc EXCEPT ![w] = "checking"], [workerPc EXCEPT ![w] = "dead"]}
      PROVE  Pays
  <2>1. w \in Counting /\ Counting' = Counting \ {w}
    BY <1>0, <1>4 DEF Counting
  <2> QED
    BY <1>4, <2>1 DEF CountCompleted
<1>5. ASSUME NEW w \in Workers, WorkerCount(w) PROVE Pays
  BY <1>4, <1>5 DEF WorkerCount
<1>6. ASSUME NEW w \in Workers, WorkerFails(w) PROVE Forgets \/ Pays
  <2>1. workerPc' = [workerPc EXCEPT ![w] = "dead"] /\ Counting' \subseteq Counting
    BY <1>0, <1>6 DEF WorkerFails, Counting
  <2>2. \/ completedCount' = completedCount /\ results \subseteq results'
        \/ workerPc[w] = "counting" /\ CountCompleted
    BY <1>6 DEF WorkerFails, Perhaps, Pop, Store, redisVars
  <2> QED
    BY <1>4, <2>1, <2>2
<1>7. ASSUME NEW pc \in {"off", "checking"}, AllWorkers(pc),
             UNCHANGED <<completedCount, results>>
      PROVE  Forgets
  BY <1>7 DEF AllWorkers, Counting
<1>8. CASE ServerStart \/ ServerWorkersDone \/ ServerCancelWorkers \/ ServerDrainFails
             \/ DaemonCrash
  BY <1>7, <1>8 DEF ServerStart, ServerWorkersDone, ServerCancelWorkers, ServerDrainFails,
       DaemonCrash, ProcessEnds, Perhaps, Delete, redisVars
<1>9. CASE ServerStop \/ ServerCloseFrontDoor \/ ServerDrainRead \/ ServerDrainDelete
             \/ ApiRestart \/ UNCHANGED vars
  BY <1>9 DEF ServerStop, ServerCloseFrontDoor, ServerDrainRead, Range0ToEnd,
       ServerDrainDelete, Delete, ApiRestart, vars, redisVars, workerVars, Counting
<1> QED
  BY <1>1, <1>2, <1>3, <1>5, <1>6, <1>8, <1>9 DEF Next, WorkerStep, ShutdownStep, FaultStep

\* The submitters' side.
LEMMA SubmittedSteps ==
  OnceInv /\ [Next]_vars =>
    \/ submittedCount' = submittedCount /\ Pushed' \subseteq Pushed
         /\ accepted \subseteq accepted'
    \/ \E s \in Pushed : /\ submittedCount' = submittedCount + 1
                         /\ Pushed' = Pushed \ {s} /\ accepted' = accepted
    \/ \E s, t : /\ s \notin Pushed /\ t \notin accepted
                 /\ submittedCount' = submittedCount
                 /\ Pushed' = Pushed \cup {s} /\ accepted' = accepted \cup {t}
<1> DEFINE Forgets == submittedCount' = submittedCount /\ Pushed' \subseteq Pushed
                        /\ accepted \subseteq accepted'
           Pays == \E s \in Pushed : /\ submittedCount' = submittedCount + 1
                                     /\ Pushed' = Pushed \ {s} /\ accepted' = accepted
           Owes == \E s, t : /\ s \notin Pushed /\ t \notin accepted
                             /\ submittedCount' = submittedCount
                             /\ Pushed' = Pushed \cup {s}
                             /\ accepted' = accepted \cup {t}
<1> SUFFICES ASSUME OnceInv, [Next]_vars PROVE Forgets \/ Pays \/ Owes
  OBVIOUS
<1>0. subPc \in [Submitters -> {"idle", "connected", "checked", "pushed"}]
  BY DEF OnceInv, TypeInv, TypeOK, SubmitTypeOK
<1>1. ASSUME NEW s \in Submitters, Connect(s) \/ HangUp(s) \/ SubmitCheck(s) PROVE Forgets
  BY <1>0, <1>1 DEF Connect, HangUp, SubmitCheck, redisVars, Pushed
<1>2. ASSUME NEW s \in Submitters, SubmitPush(s) PROVE Owes
  <2>1. s \notin Pushed /\ Current(s) \notin accepted
    BY <1>2 DEF SubmitPush, Pushed, OnceInv, SubmissionInv
  <2>2. submittedCount' = submittedCount /\ accepted' = accepted \cup {Current(s)}
    BY <1>2 DEF SubmitPush, Push
  <2>3. Pushed' = Pushed \cup {s}
    BY <1>0, <1>2 DEF SubmitPush, Pushed
  <2> QED
    BY <2>1, <2>2, <2>3
<1>3. ASSUME NEW s \in Submitters, subPc[s] = "pushed", CountSubmitted,
             subPc' = [subPc EXCEPT ![s] = "idle"], UNCHANGED accepted
      PROVE  Pays
  <2>1. s \in Pushed /\ Pushed' = Pushed \ {s}
    BY <1>0, <1>3 DEF Pushed
  <2> QED
    BY <1>3, <2>1 DEF CountSubmitted
<1>4. ASSUME NEW s \in Submitters, SubmitCount(s) PROVE Pays
  BY <1>3, <1>4 DEF SubmitCount
<1>5. ASSUME NEW s \in Submitters, SubmitFails(s) PROVE Forgets \/ Pays
  <2>1. subPc' = [subPc EXCEPT ![s] = "idle"] /\ Pushed' \subseteq Pushed
    BY <1>0, <1>5 DEF SubmitFails, Pushed
  <2>2. \/ submittedCount' = submittedCount /\ accepted \subseteq accepted'
        \/ subPc[s] = "pushed" /\ CountSubmitted /\ UNCHANGED accepted
    BY <1>5 DEF SubmitFails, Perhaps, Push, redisVars
  <2> QED
    BY <1>3, <2>1, <2>2
<1>6. ASSUME NEW S, Abandon(S), UNCHANGED <<submittedCount, accepted>> PROVE Forgets
  BY <1>0, <1>6 DEF Abandon, Pushed
<1>7. CASE ServerCloseFrontDoor \/ DaemonCrash \/ ApiRestart
  BY <1>6, <1>7 DEF ServerCloseFrontDoor, DaemonCrash, ApiRestart, redisVars
<1>8. ASSUME NEW w \in Workers, WorkerStep(w) \/ WorkerFails(w) PROVE Forgets
  BY <1>8 DEF WorkerStep, WorkerCheckEvent, WorkerPollTimeout, NothingToPop, WorkerPop, Pop,
       WorkerRunAgent, WorkerStore, Store, WorkerCount, CountCompleted, WorkerFails, Perhaps,
       redisVars, submitVars, Pushed
<1>9. CASE ServerStart \/ ServerStop \/ ServerDrainRead \/ ServerDrainDelete
             \/ ServerWorkersDone \/ ServerCancelWorkers \/ ServerDrainFails
             \/ UNCHANGED vars
  BY <1>9 DEF ServerStart, ServerStop, ServerDrainRead, Range0ToEnd, ServerDrainDelete,
       Delete, ServerWorkersDone, ServerCancelWorkers, ServerDrainFails, Perhaps, vars,
       redisVars, submitVars, Pushed
<1> QED
  BY <1>1, <1>2, <1>4, <1>5, <1>7, <1>8, <1>9
     DEF Next, SubmitterStep, ShutdownStep, FaultStep

\* A shadow follows its counter: +1 with it, or loaded from it, or reset.
LEMMA ShadowStep == TypeInv /\ ShadowsBehind /\ [Next]_vars => ShadowsBehind'
<1> SUFFICES ASSUME TypeInv, ShadowsBehind, [Next]_vars PROVE ShadowsBehind'
  OBVIOUS
<1> USE DEF ShadowsBehind, Processes
<1>0. /\ shadow \in [Processes -> [submitted : Nat, completed : Nat]]
      /\ completedCount \in Nat /\ submittedCount \in Nat
  BY DEF TypeInv, TypeOK, RedisTypeOK
<1>1. completedCount' \in {completedCount, completedCount + 1}
        /\ submittedCount' \in {submittedCount, submittedCount + 1}
  BY NextIsRedisStep DEF RedisStep, redisVars, Push, CountSubmitted, Pop, Store,
     CountCompleted, Delete
<1>2. CASE UNCHANGED shadow
  BY <1>0, <1>1, <1>2
<1>3. ASSUME NEW s \in Submitters, SubmitCount(s) PROVE ShadowsBehind'
  <2>1. Home(s) \in Processes
    BY DEF Home
  <2> QED
    BY <1>0, <1>3, <2>1 DEF SubmitCount, CountSubmitted
<1>4. ASSUME NEW w \in Workers, WorkerCount(w) PROVE ShadowsBehind'
  BY <1>0, <1>4 DEF WorkerCount, CountCompleted
<1>5. CASE ServerStart \/ ApiRestart
  BY <1>0, <1>5 DEF ServerStart, ApiRestart, LoadedCounters, redisVars
<1>6. CASE ServerWorkersDone \/ ServerCancelWorkers \/ ServerDrainFails \/ DaemonCrash
  <2>1. shadow' = [shadow EXCEPT !["daemon"] = NoCounters]
    BY <1>6 DEF ServerWorkersDone, ServerCancelWorkers, ServerDrainFails, DaemonCrash,
         ProcessEnds
  <2> QED
    BY <1>0, <1>1, <2>1 DEF NoCounters
<1>7. ASSUME NEW s \in Submitters, SubmitterStep(s) \/ SubmitFails(s), ~SubmitCount(s)
      PROVE  UNCHANGED shadow
  BY <1>7 DEF SubmitterStep, Connect, HangUp, SubmitCheck, SubmitPush, SubmitFails
<1>8. ASSUME NEW w \in Workers, WorkerStep(w) \/ WorkerFails(w), ~WorkerCount(w)
      PROVE  UNCHANGED shadow
  BY <1>8 DEF WorkerStep, WorkerCheckEvent, WorkerPollTimeout, WorkerPop, WorkerRunAgent,
       WorkerStore, WorkerFails
<1>9. CASE ServerStop \/ ServerCloseFrontDoor \/ ServerDrainRead \/ ServerDrainDelete
             \/ UNCHANGED vars
  BY <1>2, <1>9 DEF ServerStop, ServerCloseFrontDoor, ServerDrainRead, ServerDrainDelete, vars
<1> QED
  BY <1>2, <1>3, <1>4, <1>5, <1>6, <1>7, <1>8, <1>9 DEF Next, ShutdownStep, FaultStep

\* However workers, submitters, crashes and Redis errors interleave, no
\* counter and no shadow of it is ahead of what is in Redis.
THEOREM CountersAreHonest == Spec => []CountersNeverOverstate
<1>1. Init => CounterInv
  <2> SUFFICES ASSUME Init PROVE CounterInv
    OBVIOUS
  <2>1. Counting = {} /\ Pushed = {} /\ results = {} /\ accepted = {}
    BY DEF Init, QueueInit, Counting, Pushed
  <2>2. completedCount = 0 /\ submittedCount = 0 /\ ShadowsBehind
    BY DEF Init, QueueInit, ShadowsBehind
  <2> QED
    BY <2>1, <2>2, FS_EmptySet DEF CounterInv
<1>2. OnceInv /\ OnceInv' /\ CounterInv /\ [Next]_vars => CounterInv'
  <2> SUFFICES ASSUME OnceInv, TypeInv, TypeInv', CounterInv, [Next]_vars PROVE CounterInv'
    BY DEF OnceInv
  <2>1. /\ IsFiniteSet(results') /\ IsFiniteSet(accepted')
        /\ completedCount' \in Nat /\ submittedCount' \in Nat
    BY TasksAreFinite, FS_Subset DEF TypeInv, TypeOK, RedisTypeOK, SubmitTypeOK
  <2>2. completedCount' + Cardinality(Counting') <= Cardinality(results')
    BY <2>1, CompletedSteps, CountsAreNumbers, OwedIsFinite, DebtStep DEF CounterInv
  <2>3. submittedCount' + Cardinality(Pushed') <= Cardinality(accepted')
    BY <2>1, SubmittedSteps, CountsAreNumbers, OwedIsFinite, DebtStep DEF CounterInv
  <2> QED
    BY <2>2, <2>3, ShadowStep DEF CounterInv
<1>3. OnceInv /\ CounterInv => CountersNeverOverstate
  <2> SUFFICES ASSUME TypeInv, CounterInv PROVE CountersNeverOverstate
    BY DEF OnceInv
  <2>1. Counting = Busy \ InFlight
    BY DEF Counting, Busy, InFlight
  <2> QED
    BY <2>1, CountsAreNumbers, OwedIsFinite DEF CounterInv, ShadowsBehind, CountersNeverOverstate
<1> QED
  BY <1>1, <1>2, <1>3, OnceInvHolds, PTL DEF Spec

-----------------------------------------------------------------------------
(***************************************************************************)
(* Daemon implements TaskLedger under the mapping of Daemon!Ledger: every  *)
(* step is a step of the ledger, or changes nothing the ledger sees.       *)
(***************************************************************************)
Dropped == accepted \ (Queued(pending) \cup Running \cup results)

LEMMA RunningTasks ==
  /\ \A t : t \in Running <=>
       \E w \in Workers : workerPc[w] \in {"running", "storing"} /\ workerTask[w] = t
  /\ \A t : t \in Running' <=>
       \E w \in Workers : workerPc'[w] \in {"running", "storing"} /\ workerTask'[w] = t
BY DEF Running, InFlight, Busy

\* What the mapping needs of the invariant: the four places are disjoint.
LEMMA PlacesDisjoint ==
  OnceInv => /\ pending \in Seq(Task) /\ NoRepeat(pending)
             /\ Queued(pending) \subseteq accepted /\ accepted \subseteq Task
             /\ Running \subseteq accepted /\ Running \cap Queued(pending) = {}
             /\ results \subseteq accepted /\ results \cap Queued(pending) = {}
             /\ Running \cap results = {}
<1> SUFFICES ASSUME OnceInv
             PROVE  /\ pending \in Seq(Task) /\ NoRepeat(pending)
                    /\ Queued(pending) \subseteq accepted /\ accepted \subseteq Task
                    /\ Running \subseteq accepted /\ Running \cap Queued(pending) = {}
                    /\ results \subseteq accepted /\ results \cap Queued(pending) = {}
                    /\ Running \cap results = {}
  OBVIOUS
<1>1. /\ pending \in Seq(Task) /\ accepted \in SUBSET Task /\ results \in SUBSET Task
      /\ \A w \in Busy : workerTask[w] \in Task
  BY DEF OnceInv, TypeInv, TypeOK, RedisTypeOK, SubmitTypeOK, HoldersHold
<1>2. \A t \in Task : starts[t] # 0 => t \in accepted \ Queued(pending)
  BY DEF OnceInv, QueueInv
<1>3. \A w \in InFlight : workerTask[w] \in accepted \ Queued(pending)
  BY <1>1, <1>2 DEF OnceInv, HolderInv, InFlight
<1>4. \A t \in results : t \in accepted \ Queued(pending)
  BY <1>1, <1>2 DEF OnceInv, HolderInv
<1> QED
  BY <1>1, <1>3, <1>4 DEF OnceInv, QueueInv, HolderInv, Running

LEMMA AcceptStep ==
  ASSUME OnceInv, NEW s \in Submitters, subPc[s] = "checked", Push(Current(s)),
         accepted' = accepted \cup {Current(s)}, Running' = Running
  PROVE  Ledger!Next
<1>1. Current(s) \in Task /\ Current(s) \notin accepted
  BY CurrentIsTask DEF OnceInv, SubmissionInv
<1>2. pending' = Append(pending, Current(s)) /\ results' = results
  BY DEF Push
<1>3. Queued(pending') = Queued(pending) \cup {Current(s)}
  BY <1>1, <1>2, PlacesDisjoint, AppendFacts
<1>4. Current(s) \notin Queued(pending) \cup Running \cup results \cup Dropped
  BY <1>1, PlacesDisjoint DEF Dropped
<1>5. Dropped' = Dropped
  BY <1>1, <1>2, <1>3 DEF Dropped
<1>6. Ledger!Accept(Current(s))
  BY <1>2, <1>4, <1>5 DEF Ledger!Accept, Ledger!Waiting, Dropped, Queued
<1> QED
  BY <1>1, <1>6 DEF Ledger!Next

LEMMA BeginStep ==
  ASSUME OnceInv, NEW t \in Queued(pending), Pop(t), UNCHANGED accepted,
         Running' = Running \cup {t}
  PROVE  Ledger!Next
<1>1. pending # <<>> /\ t = Head(pending) /\ pending' = Tail(pending) /\ results' = results
  BY DEF Pop
<1>2. Queued(pending') = Queued(pending) \ {t}
  BY <1>1, PlacesDisjoint, TailFacts
<1>3. Dropped' = Dropped
  BY <1>1, <1>2 DEF Dropped
<1>4. Ledger!Begin
  BY <1>1, <1>3 DEF Ledger!Begin, Dropped
<1> QED
  BY <1>4 DEF Ledger!Next

LEMMA DropHeadStep ==
  ASSUME OnceInv, NEW t \in Queued(pending), Pop(t), UNCHANGED accepted, Running' = Running
  PROVE  Ledger!Next
<1>1. pending # <<>> /\ t = Head(pending) /\ pending' = Tail(pending) /\ results' = results
  BY DEF Pop
<1>2. Queued(pending') = Queued(pending) \ {t}
  BY <1>1, PlacesDisjoint, TailFacts
<1>3. Dropped' = Dropped \cup {t}
  BY <1>1, <1>2, PlacesDisjoint DEF Dropped
<1>4. Ledger!DropHead
  BY <1>1, <1>3 DEF Ledger!DropHead, Dropped
<1> QED
  BY <1>4 DEF Ledger!Next

LEMMA FinishStep ==
  ASSUME OnceInv, NEW t \in Running, Store(t), UNCHANGED accepted, Running' = Running \ {t}
  PROVE  Ledger!Next
<1>1. results' = results \cup {t} /\ pending' = pending
  BY DEF Store
<1>2. Dropped' = Dropped
  BY <1>1 DEF Dropped
<1>3. Ledger!Finish(t) /\ t \in Task
  BY <1>1, <1>2, PlacesDisjoint DEF Ledger!Finish, Dropped
<1> QED
  BY <1>3 DEF Ledger!Next

LEMMA DropStep ==
  ASSUME OnceInv, NEW S \in SUBSET Running, Running' = Running \ S,
         UNCHANGED <<accepted, results>>, pending' \in {pending, <<>>}
  PROVE  Ledger!Next
<1>1. S \in SUBSET Task
  BY PlacesDisjoint
<1>2. CASE pending' = pending
  <2>1. Dropped' = Dropped \cup S
    BY <1>2, PlacesDisjoint DEF Dropped
  <2> QED
    BY <1>1, <1>2, <2>1 DEF Ledger!Next, Ledger!Drop, Dropped
<1>3. CASE pending' = <<>>
  <2>1. Queued(pending') = {}
    BY <1>3 DEF Queued
  <2>2. Dropped' = Dropped \cup S \cup Queued(pending)
    BY <2>1, PlacesDisjoint DEF Dropped
  <2> QED
    BY <1>1, <1>3, <2>2 DEF Ledger!Next, Ledger!Drop, Ledger!Waiting, Dropped, Queued
<1> QED
  BY <1>2, <1>3

LEMMA Stutters ==
  ASSUME UNCHANGED <<pending, results, accepted>>, Running' = Running
  PROVE  UNCHANGED Ledger!ledgerVars
BY DEF Ledger!ledgerVars

(***************************************************************************)
(* The steps of the components.                                            *)
(***************************************************************************)
LEMMA SubmitterMaps ==
  ASSUME OnceInv, NEW s \in Submitters, SubmitterStep(s) \/ SubmitFails(s)
  PROVE  Ledger!Next \/ UNCHANGED Ledger!ledgerVars
<1>1. Running' = Running
  <2>1. UNCHANGED workerVars
    BY DEF SubmitterStep, Connect, HangUp, SubmitCheck, SubmitPush, SubmitCount, SubmitFails
  <2> QED
    BY <2>1 DEF workerVars, Running, InFlight, Busy
<1>2. CASE UNCHANGED <<pending, results, accepted>>
  BY <1>1, <1>2, Stutters
<1>3. CASE subPc[s] = "checked" /\ Push(Current(s)) /\ accepted' = accepted \cup {Current(s)}
  BY <1>1, <1>3, AcceptStep
<1>4. CASE SubmitterStep(s)
  BY <1>2, <1>3, <1>4 DEF SubmitterStep, Connect, HangUp, SubmitCheck, SubmitPush,
                          SubmitCount, CountSubmitted, redisVars
<1>5. CASE SubmitFails(s) /\ subPc[s] = "pushed"
  BY <1>2, <1>5 DEF SubmitFails, Perhaps, CountSubmitted, redisVars
<1>6. CASE SubmitFails(s) /\ subPc[s] = "checked"
  <2>1. /\ Push(Current(s)) \/ UNCHANGED redisVars
        /\ accepted' = IF pending' = pending THEN accepted
                                             ELSE accepted \cup {Current(s)}
    BY <1>6 DEF SubmitFails, Perhaps
  <2>2. CASE pending' = pending
    BY <1>2, <2>1, <2>2 DEF Push, redisVars
  <2>3. CASE pending' # pending
    BY <1>3, <1>6, <2>1, <2>3 DEF redisVars
  <2> QED
    BY <2>2, <2>3
<1> QED
  BY <1>4, <1>5, <1>6 DEF SubmitFails

LEMMA WorkerMaps ==
  ASSUME OnceInv, NEW w \in Workers, WorkerStep(w) \/ WorkerFails(w)
  PROVE  Ledger!Next \/ UNCHANGED Ledger!ledgerVars
<1>0. /\ workerPc \in [Workers -> {"off", "checking", "polling", "running", "storing",
                                 "counting", "stopped", "dead"}]
      /\ workerTask \in [Workers -> Task \cup {NoTask}]
      /\ UNCHANGED accepted
  BY DEF OnceInv, TypeInv, TypeOK, WorkerTypeOK, WorkerStep, WorkerCheckEvent,
         WorkerPollTimeout, WorkerPop, WorkerRunAgent, WorkerStore, WorkerCount,
         WorkerFails, submitVars
<1>1. \A v \in Workers \ {w} :
        workerPc[v] \in {"running", "storing"} /\ workerPc[w] \in {"running", "storing"}
          => workerTask[v] # workerTask[w]
  BY DEF OnceInv, HolderInv, Busy
<1>2. CASE WorkerCheckEvent(w) \/ WorkerPollTimeout(w) \/ WorkerRunAgent(w) \/ WorkerCount(w)
  <2>1. UNCHANGED <<pending, results>>
    BY <1>2 DEF WorkerCheckEvent, WorkerPollTimeout, NothingToPop, WorkerRunAgent,
                WorkerCount, CountCompleted, redisVars
  <2>2. \A v \in Workers :
          (workerPc'[v] \in {"running", "storing"}) = (workerPc[v] \in {"running", "storing"})
    BY <1>0, <1>2 DEF WorkerCheckEvent, WorkerPollTimeout, WorkerRunAgent, WorkerCount
  <2>3. \A v \in Workers : workerPc'[v] \in {"running", "storing"} =>
                             workerTask'[v] = workerTask[v]
    BY <1>0, <1>2 DEF WorkerCheckEvent, WorkerPollTimeout, WorkerRunAgent, WorkerCount
  <2>4. Running' = Running
    BY <2>2, <2>3, RunningTasks
  <2> QED
    BY <1>0, <2>1, <2>4, Stutters
<1>3. CASE WorkerPop(w)
  <2>1. PICK t \in Queued(pending) : Pop(t) /\ workerTask' = [workerTask EXCEPT ![w] = t]
    BY <1>3 DEF WorkerPop
  <2>2. workerPc[w] = "polling" /\ workerPc' = [workerPc EXCEPT ![w] = "running"]
    BY <1>3 DEF WorkerPop
  <2>3. Running' = Running \cup {t}
    BY <1>0, <2>1, <2>2, RunningTasks
  <2> QED
    BY <1>0, <2>1, <2>3, BeginStep
<1>4. ASSUME workerPc[w] = "storing",
             \/ /\ workerPc' = [workerPc EXCEPT ![w] = "counting"]
                /\ UNCHANGED workerTask
             \/ /\ workerPc' = [workerPc EXCEPT ![w] = "dead"]
                /\ workerTask' = [workerTask EXCEPT ![w] = NoTask]
      PROVE  workerTask[w] \in Running /\ Running' = Running \ {workerTask[w]}
  BY <1>0, <1>1, <1>4, RunningTasks
<1>5. CASE WorkerStore(w)
  BY <1>0, <1>4, <1>5, FinishStep DEF WorkerStore
<1>6. CASE WorkerFails(w) /\ workerPc[w] = "storing"
  <2>1. workerTask[w] \in Running /\ Running' = Running \ {workerTask[w]}
    BY <1>4, <1>6 DEF WorkerFails
  <2>2. CASE Store(workerTask[w])
    BY <1>0, <2>1, <2>2, FinishStep
  <2>3. CASE UNCHANGED redisVars
    BY <1>0, <2>1, <2>3, DropStep DEF redisVars
  <2> QED
    BY <1>6, <2>2, <2>3 DEF WorkerFails, Perhaps
<1>7. CASE WorkerFails(w) /\ workerPc[w] \in {"polling", "counting"}
  <2>1. Running' = Running
    BY <1>0, <1>7, RunningTasks DEF WorkerFails
  <2>2. CASE UNCHANGED <<pending, results>>
    BY <1>0, <2>1, <2>2, Stutters
  <2>3. CASE \E t \in Queued(pending) : Pop(t)
    BY <1>0, <2>1, <2>3, DropHeadStep
  <2> QED
    BY <1>7, <2>2, <2>3 DEF WorkerFails, Perhaps, CountCompleted, redisVars
<1> QED
  BY <1>2, <1>3, <1>5, <1>6, <1>7 DEF WorkerStep, WorkerFails

LEMMA ServerMaps ==
  ASSUME OnceInv,
         ServerStart \/ ServerStop \/ ShutdownStep \/ ServerDrainFails \/ DaemonCrash
           \/ ApiRestart \/ UNCHANGED vars
  PROVE  Ledger!Next \/ UNCHANGED Ledger!ledgerVars
<1>1. ASSUME NEW pc \in {"off", "checking"}, AllWorkers(pc),
             UNCHANGED <<accepted, results>>, pending' \in {pending, <<>>}
      PROVE  Ledger!Next
  <2>1. Running' = Running \ Running
    BY <1>1, RunningTasks DEF AllWorkers
  <2> QED
    BY <1>1, <2>1, DropStep
<1>2. CASE ServerStart \/ ServerWorkersDone \/ ServerCancelWorkers \/ ServerDrainFails
             \/ DaemonCrash
  BY <1>1, <1>2 DEF ServerStart, ServerWorkersDone, ServerCancelWorkers, ServerDrainFails,
                    DaemonCrash, ProcessEnds, Perhaps, Delete, redisVars, submitVars
<1>3. CASE ServerDrainDelete
  <2>1. Running' = Running \ {}
    BY <1>3 DEF ServerDrainDelete, workerVars, Running, InFlight, Busy
  <2> QED
    BY <1>3, <2>1, DropStep DEF ServerDrainDelete, Delete, submitVars
<1>4. CASE ServerStop \/ ServerCloseFrontDoor \/ ServerDrainRead \/ ApiRestart \/ UNCHANGED vars
  <2>1. UNCHANGED <<workerVars, pending, results, accepted>>
    BY <1>4 DEF ServerStop, ServerCloseFrontDoor, ServerDrainRead, Range0ToEnd, ApiRestart,
                vars, redisVars, submitVars
  <2>2. Running' = Running
    BY <2>1 DEF workerVars, Running, InFlight, Busy
  <2> QED
    BY <2>1, <2>2, Stutters
<1> QED
  BY <1>2, <1>3, <1>4 DEF ShutdownStep

\* The daemon, the API and Redis together implement the ledger: requests leave
\* the queue once and in order, run at most once, and no crash, restart, retry
\* or drain brings a dropped or finished request back.
THEOREM DaemonImplementsLedger == Spec => LedgerSpec
<1>1. Init => Ledger!Init
  BY DEF Init, QueueInit, Ledger!Init, Running, InFlight, Busy, Queued
<1>2. OnceInv /\ [Next]_vars => [Ledger!Next]_Ledger!ledgerVars
  BY SubmitterMaps, WorkerMaps, ServerMaps DEF Next, FaultStep
<1> QED
  BY <1>1, <1>2, OnceInvHolds, PTL DEF Spec, LedgerSpec, Ledger!Spec
=============================================================================
