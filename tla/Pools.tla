--------------------------------- MODULE Pools ---------------------------------
(***************************************************************************)
(* The connection pool singleton (db/pool.py; daemon/redis_pool.py guards  *)
(* the Redis client the same way): get_pool is a check, a lock and a second*)
(* check around the creation, close_pool takes no lock at all.  Coroutines *)
(* of one process call get_pool again and again, one of them (the          *)
(* shutdown) close_pool.  A step is the code between two awaits.           *)
(***************************************************************************)
EXTENDS Naturals, Sequences, FiniteSets

CONSTANTS
  PoolCallers,   \* coroutines that call get_pool
  MaxPools       \* model bound: pools ever created

ASSUME PoolAssumption == IsFiniteSet(PoolCallers) /\ MaxPools \in Nat

VARIABLES
  poolRef,      \* _pool: 0 for None, or the pool
  poolLock,     \* _pool_lock: its holder, or {}
  poolLine,     \* its waiters: asyncio.Lock wakes them in order
  poolOpen,     \* the pools whose connections are open
  poolMade,     \* how many were created
  poolPc,       \* where each caller is
  poolGot,      \* what its last call returned
  poolClosing   \* what close_pool is waiting for: 0, or a pool

poolVars == <<poolRef, poolLock, poolLine, poolOpen, poolMade, poolPc, poolGot, poolClosing>>

PoolInit ==
  /\ poolRef = 0
  /\ poolLock = {}
  /\ poolLine = <<>>
  /\ poolOpen = {}
  /\ poolMade = 0
  /\ poolPc = [c \in PoolCallers |-> "idle"]
  /\ poolGot = [c \in PoolCallers |-> 0]
  /\ poolClosing = 0

PoolReturn(c, pool) ==
  /\ poolGot' = [poolGot EXCEPT ![c] = pool]
  /\ poolPc' = [poolPc EXCEPT ![c] = "idle"]

\* get_pool: the first check and, if there is no pool, the wait for the lock.
PoolGet(c) ==
  /\ poolPc[c] = "idle"
  /\ \/ poolRef # 0 /\ PoolReturn(c, poolRef) /\ UNCHANGED poolLine
     \/ /\ poolRef = 0
        /\ poolPc' = [poolPc EXCEPT ![c] = "waiting"]
        /\ poolLine' = Append(poolLine, c)
        /\ UNCHANGED poolGot
  /\ UNCHANGED <<poolRef, poolLock, poolOpen, poolMade, poolClosing>>

\* Mutated form of PoolEnter: no second check under the lock.
PoolEnterUnchecked(c) ==
  /\ poolPc[c] = "waiting"
  /\ poolLock = {}
  /\ poolLine # <<>> /\ Head(poolLine) = c
  /\ poolLine' = Tail(poolLine)
  /\ poolLock' = {c}
  /\ poolPc' = [poolPc EXCEPT ![c] = "creating"]
  /\ UNCHANGED <<poolRef, poolOpen, poolMade, poolGot, poolClosing>>

\* The lock is had: check again, and create or give the lock back at once.
PoolEnter(c) ==
  /\ poolPc[c] = "waiting"
  /\ poolLock = {}
  /\ poolLine # <<>> /\ Head(poolLine) = c
  /\ poolLine' = Tail(poolLine)
  /\ \/ /\ poolRef # 0
        /\ PoolReturn(c, poolRef)
        /\ UNCHANGED poolLock
     \/ /\ poolRef = 0
        /\ poolLock' = {c}
        /\ poolPc' = [poolPc EXCEPT ![c] = "creating"]
        /\ UNCHANGED poolGot
  /\ UNCHANGED <<poolRef, poolOpen, poolMade, poolClosing>>

PoolCreated(c) ==
  /\ poolPc[c] = "creating"
  /\ poolMade < MaxPools
  /\ poolMade' = poolMade + 1
  /\ poolOpen' = poolOpen \cup {poolMade'}
  /\ poolRef' = poolMade'
  /\ poolLock' = {}
  /\ PoolReturn(c, poolMade')
  /\ UNCHANGED <<poolLine, poolClosing>>

\* Mutated form of PoolFailed: the error path keeps the lock.
PoolFailedLocked(c) ==
  /\ poolPc[c] = "creating"
  /\ poolRef' = 0
  /\ PoolReturn(c, 0)
  /\ UNCHANGED <<poolLock, poolLine, poolOpen, poolMade, poolClosing>>

\* PostgreSQL is unreachable: the callers get None.
PoolFailed(c) ==
  /\ poolPc[c] = "creating"
  /\ poolRef' = 0
  /\ poolLock' = {}
  /\ PoolReturn(c, 0)
  /\ UNCHANGED <<poolLine, poolOpen, poolMade, poolClosing>>

\* The caller is cancelled in the wait or in create_pool, which closes what
\* it has opened so far.
PoolCancelled(c) ==
  /\ \/ poolPc[c] = "creating" /\ poolLock' = poolLock \ {c} /\ UNCHANGED poolLine
     \/ /\ poolPc[c] = "waiting"
        /\ \E k \in 1..Len(poolLine) :
             /\ poolLine[k] = c
             /\ poolLine' = SubSeq(poolLine, 1, k - 1)
                              \o SubSeq(poolLine, k + 1, Len(poolLine))
        /\ UNCHANGED poolLock
  /\ PoolReturn(c, 0)
  /\ UNCHANGED <<poolRef, poolOpen, poolMade, poolClosing>>

\* close_pool waits for the connections to be given back, then clears _pool.
PoolClose ==
  /\ poolRef # 0
  /\ poolClosing = 0
  /\ poolClosing' = poolRef
  /\ UNCHANGED <<poolRef, poolLock, poolLine, poolOpen, poolMade, poolPc, poolGot>>

\* Mutated form of PoolClosed: _pool is left as it is.
PoolClosedKept ==
  /\ poolClosing # 0
  /\ poolOpen' = poolOpen \ {poolClosing}
  /\ poolClosing' = 0
  /\ UNCHANGED <<poolRef, poolLock, poolLine, poolMade, poolPc, poolGot>>

PoolClosed ==
  /\ poolClosing # 0
  /\ poolOpen' = poolOpen \ {poolClosing}
  /\ poolRef' = 0
  /\ poolClosing' = 0
  /\ UNCHANGED <<poolLock, poolLine, poolMade, poolPc, poolGot>>

PoolStep(c) ==
  \/ PoolGet(c)
  \/ PoolEnter(c)
  \/ PoolCreated(c)
  \/ PoolFailed(c)
  \/ PoolCancelled(c)

PoolNext == (\E c \in PoolCallers : PoolStep(c)) \/ PoolClose \/ PoolClosed

PoolSpec == PoolInit /\ [][PoolNext]_poolVars

\* A creation ends, by its timeout if need be, and a lock that was given back
\* goes to the first in the line.
PoolFairness == \A c \in PoolCallers :
  /\ WF_poolVars(PoolEnter(c))
  /\ WF_poolVars(PoolFailed(c))

--------------------------------------------------------------------------------
PoolTypeOK ==
  /\ poolRef \in 0..poolMade
  /\ poolLock \in SUBSET PoolCallers
  /\ poolMade \in Nat
  /\ poolLine \in Seq(PoolCallers)
  /\ poolOpen \in SUBSET (1..poolMade)
  /\ poolPc \in [PoolCallers -> {"idle", "waiting", "creating"}]
  /\ poolGot \in [PoolCallers -> Nat]
  /\ poolClosing \in 0..poolMade

\* "Uses asyncio.Lock to prevent duplicate pool creation under concurrent
\* access" (get_pool): whatever the callers do, and although close_pool takes no
\* lock, only the pool that _pool names is ever open, so that the shutdown,
\* which closes that one, leaves none behind.
PoolSingle == poolOpen \subseteq {poolRef}

\* A call never returns a pool that is closed already, whatever ran while it
\* waited for the lock (one that is being closed it may return).
PoolReturnsOpen ==
  [][\A c \in PoolCallers : poolGot'[c] # poolGot[c] /\ poolGot'[c] # 0
       => poolGot'[c] \in poolOpen']_poolVars

\* A creation that fails or is cancelled gives the lock back: no caller waits
\* for ever.
PoolCallReturns == \A c \in PoolCallers : poolPc[c] = "waiting" ~> poolPc[c] = "idle"

\* No second pool, in every state: what the double check under the lock is for.
PoolSafe == PoolTypeOK /\ PoolSingle

\* What a caller of get_pool gets: an answer, and no closed pool.
PoolServes == PoolReturnsOpen /\ PoolCallReturns
================================================================================
