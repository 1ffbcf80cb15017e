----------------------------- MODULE InfraProofs -----------------------------
(***************************************************************************)
(* Theorems about what surrounds the services, for any number of callers,  *)
(* migration runners, daemon processes, runs and streams: the pool         *)
(* singleton, the migrations, the PID file, the tools of concurrent runs,  *)
(* the handlers of one call and the live demo.                             *)
(***************************************************************************)
EXTENDS Integers, Pools, Migrations, DaemonLife, Toolbox, ToolHandlers, LiveDemo,
        SequenceTheorems, FiniteSetTheorems, WellFoundedInduction, TLAPS

(***************************************************************************)
(* The pool.  Whoever creates one has the lock and has seen None under it; *)
(* close_pool, which has no lock, closes what _pool names.                 *)
(***************************************************************************)
PoolLocked ==
  /\ \A c \in PoolCallers : c \in poolLock <=> poolPc[c] = "creating"
  /\ \A c, d \in poolLock : c = d
  /\ poolLock # {} => poolRef = 0
  /\ poolClosing # 0 => poolClosing = poolRef

PoolInv == PoolTypeOK /\ PoolLocked /\ PoolSingle

\* What a caller does keeps the line a sequence of callers.
LEMMA PoolLineTyped ==
  ASSUME PoolTypeOK, PoolNext
  PROVE  poolLine' \in Seq(PoolCallers)
<1> USE DEF PoolTypeOK
<1>1. ASSUME NEW c \in PoolCallers, PoolGet(c) PROVE poolLine' \in Seq(PoolCallers)
  <2>1. poolLine' = poolLine \/ poolLine' = Append(poolLine, c)
    BY <1>1 DEF PoolGet
  <2>2. Append(poolLine, c) \in Seq(PoolCallers)
    BY AppendProperties
  <2> QED
    BY <2>1, <2>2
<1>2. ASSUME NEW c \in PoolCallers, PoolEnter(c) PROVE poolLine' \in Seq(PoolCallers)
  <2>1. poolLine # <<>> /\ poolLine' = Tail(poolLine)
    BY <1>2 DEF PoolEnter
  <2> QED
    BY <2>1
<1>3. ASSUME NEW c \in PoolCallers, PoolCancelled(c) PROVE poolLine' \in Seq(PoolCallers)
  <2>1. CASE UNCHANGED poolLine
    BY <2>1
  <2>2. ASSUME NEW k \in 1..Len(poolLine),
               poolLine' = SubSeq(poolLine, 1, k - 1) \o SubSeq(poolLine, k + 1, Len(poolLine))
        PROVE  poolLine' \in Seq(PoolCallers)
    <3>1. Len(poolLine) \in Nat
      OBVIOUS
    <3>2. /\ SubSeq(poolLine, 1, k - 1) \in Seq(PoolCallers)
          /\ SubSeq(poolLine, k + 1, Len(poolLine)) \in Seq(PoolCallers)
      BY <3>1
    <3> QED
      BY <2>2, <3>2
  <2> QED
    BY <1>3, <2>1, <2>2 DEF PoolCancelled
<1>4. ASSUME NEW c \in PoolCallers, PoolCreated(c) \/ PoolFailed(c)
      PROVE  UNCHANGED poolLine
  BY <1>4 DEF PoolCreated, PoolFailed
<1>5. CASE PoolClose \/ PoolClosed
  BY <1>5 DEF PoolClose, PoolClosed
<1> QED
  BY <1>1, <1>2, <1>3, <1>4, <1>5 DEF PoolNext, PoolStep

LEMMA PoolPreserved ==
  ASSUME PoolInv, [PoolNext]_poolVars
  PROVE  PoolInv'
<1> USE DEF PoolInv, PoolLocked, PoolSingle
<1>1. CASE UNCHANGED poolVars
  BY <1>1 DEF poolVars, PoolTypeOK
<1>2. CASE PoolNext
  <2>0. poolLine' \in Seq(PoolCallers)
    BY <1>2, PoolLineTyped
  <2> USE <2>0 DEF PoolTypeOK, PoolReturn
  <2>1. ASSUME NEW c \in PoolCallers, PoolGet(c) PROVE PoolInv'
    <3>1. poolGot' \in [PoolCallers -> Nat]
      BY <2>1 DEF PoolGet
    <3>2. /\ poolPc' \in [PoolCallers -> {"idle", "waiting", "creating"}]
          /\ \A d \in PoolCallers : poolPc'[d] = "creating" <=> poolPc[d] = "creating"
          /\ UNCHANGED <<poolRef, poolLock, poolOpen, poolMade, poolClosing>>
      BY <2>1 DEF PoolGet
    <3>3. PoolTypeOK'
      BY <3>1, <3>2
    <3>4. PoolLocked'
      BY <3>2
    <3> QED
      BY <3>2, <3>3, <3>4
  <2>2. ASSUME NEW c \in PoolCallers, PoolEnter(c) PROVE PoolInv'
    <3>0. poolGot' = poolGot \/ poolGot' = [poolGot EXCEPT ![c] = poolRef]
      BY <2>2 DEF PoolEnter
    <3>1. poolGot' \in [PoolCallers -> Nat]
      BY <3>0
    <3>2. /\ poolPc' \in [PoolCallers -> {"idle", "waiting", "creating"}]
          /\ UNCHANGED <<poolRef, poolOpen, poolMade, poolClosing>>
          /\ \/ UNCHANGED poolLock /\ poolPc' = [poolPc EXCEPT ![c] = "idle"]
             \/ poolRef = 0 /\ poolLock' = {c} /\ poolPc' = [poolPc EXCEPT ![c] = "creating"]
      BY <2>2 DEF PoolEnter
    <3>3. poolLock = {}
      BY <2>2 DEF PoolEnter
    <3> QED
      BY <3>1, <3>2, <3>3, <2>2
  <2>3. ASSUME NEW c \in PoolCallers, PoolCreated(c) PROVE PoolInv'
    <3>1. poolLock = {c} /\ poolRef = 0 /\ poolClosing = 0 /\ poolOpen = {}
      BY <2>3 DEF PoolCreated
    <3> QED
      BY <2>3, <3>1 DEF PoolCreated
  <2>4. ASSUME NEW c \in PoolCallers, PoolFailed(c) PROVE PoolInv'
    BY <2>4 DEF PoolFailed
  <2>5. ASSUME NEW c \in PoolCallers, PoolCancelled(c) PROVE PoolInv'
    BY <2>5 DEF PoolCancelled
  <2>6. CASE PoolClose
    BY <2>6 DEF PoolClose
  <2>7. CASE PoolClosed
    BY <2>7 DEF PoolClosed
  <2> QED
    BY <1>2, <2>1, <2>2, <2>3, <2>4, <2>5, <2>6, <2>7 DEF PoolNext, PoolStep
<1> QED
  BY <1>1, <1>2

\* The second check under the lock leaves one pool open at most, the one that
\* close_pool will close, whatever the callers and the closing interleave.
THEOREM PoolIsSingle == PoolSpec => []PoolSafe
<1>1. PoolInit => PoolInv
  BY DEF PoolInit, PoolInv, PoolTypeOK, PoolLocked, PoolSingle
<1>2. PoolInv => PoolSafe
  BY DEF PoolInv, PoolSafe
<1> QED
  BY <1>1, <1>2, PoolPreserved, PTL DEF PoolSpec

(***************************************************************************)
(* The migrations.  A runner's list may be old, but what it has dropped    *)
(* from it is recorded, and the INSERT keeps two runners off one version.  *)
(***************************************************************************)
MigBehind ==
  \A r \in MigRunners :
    /\ migPc[r] = "listed" =>
         \A v \in MigFiles \ migPending[r] : v \in migRecorded
    /\ migPc[r] \in {"executed", "inserted"} =>
         /\ migAt[r] \in MigFiles
         /\ \A v \in MigFiles : v < migAt[r] => v \in migRecorded
         /\ \A v \in MigFiles \ migPending[r] : v # migAt[r] => v \in migRecorded

MigKeyHeld ==
  \A r \in MigRunners : migPc[r] = "inserted" =>
    /\ migAt[r] \notin migRecorded
    /\ \A q \in MigRunners : migPc[q] = "inserted" /\ migAt[q] = migAt[r] => q = r

MigInv == MigSafe /\ MigBehind /\ MigKeyHeld

\* The first pending file is pending, and none before it is.
LEMMA MigFirstIsLeast ==
  ASSUME NEW pending \in SUBSET MigFiles, pending # {}
  PROVE  /\ MigFirst(pending) \in pending
         /\ \A w \in pending : MigFirst(pending) <= w
<1>1. PICK v \in pending : \A w \in pending : ~(<<w, v>> \in OpToRel(<, Nat))
  <2>1. pending \subseteq Nat
    BY MigAssumption DEF MigFiles
  <2> QED
    BY <2>1, NatLessThanWellFounded, WFMin
<1>2. \A w \in pending : v <= w
  <2> SUFFICES ASSUME NEW w \in pending, w < v PROVE FALSE
    BY MigAssumption DEF MigFiles
  <2>1. <<w, v>> \in Nat \X Nat /\ <<w, v>>[1] < <<w, v>>[2]
    BY MigAssumption DEF MigFiles
  <2>2. <<w, v>> \in OpToRel(<, Nat)
    BY <2>1, Zenon DEF OpToRel
  <2> QED
    BY <1>1, <2>2
<1> QED
  BY <1>2 DEF MigFirst

LEMMA MigPreserved ==
  ASSUME MigInv, [MigNext]_migVars
  PROVE  MigInv'
<1> USE MigAssumption DEF MigInv, MigSafe, MigTypeOK, MigBehind, MigKeyHeld
<1>1. CASE UNCHANGED migVars
  BY <1>1 DEF migVars, MigOnce, MigInOrder
<1>2. ASSUME NEW r \in MigRunners, MigList(r) PROVE MigInv'
  BY <1>2 DEF MigList, MigGo, MigOnce, MigInOrder
<1>3. ASSUME NEW r \in MigRunners, MigExecute(r) PROVE MigInv'
  <2>1. /\ MigFirst(migPending[r]) \in migPending[r]
        /\ \A w \in migPending[r] : MigFirst(migPending[r]) <= w
    BY <1>3, MigFirstIsLeast DEF MigExecute
  <2>2. \A v \in MigFiles : v < MigFirst(migPending[r]) => v \in migRecorded
    BY <1>3, <2>1 DEF MigExecute, MigFiles
  <2>3. MigBehind'
    BY <1>3, <2>1, <2>2 DEF MigExecute, MigGo, MigFiles
  <2>4. MigSafe' /\ MigKeyHeld'
    BY <1>3, <2>1 DEF MigExecute, MigGo, MigOnce, MigInOrder, MigFiles
  <2> QED
    BY <2>3, <2>4
<1>4. ASSUME NEW r \in MigRunners, MigInsert(r) PROVE MigInv'
  BY <1>4 DEF MigInsert, MigGo, MigOnce, MigInOrder
<1>5. ASSUME NEW r \in MigRunners, MigCommit(r) PROVE MigInv'
  <2>0. /\ migAt[r] \in MigFiles
        /\ migRecorded \subseteq migRecorded'
        /\ migRecorded' = migRecorded \cup {migAt[r]}
        /\ \A q \in MigRunners : q # r => migPc'[q] = migPc[q]
        /\ migPc'[r] = "listed"
        /\ UNCHANGED <<migAt, migPending>>
    BY <1>5 DEF MigCommit, MigGo
  <2>4. MigTypeOK'
    BY <1>5, <2>0 DEF MigCommit, MigGo
  <2>5. MigBehind'
    BY <1>5, <2>0 DEF MigCommit
  <2>6. MigKeyHeld'
    <3> SUFFICES ASSUME NEW q \in MigRunners, migPc'[q] = "inserted"
                 PROVE  /\ migAt'[q] \notin migRecorded'
                        /\ \A s \in MigRunners :
                             migPc'[s] = "inserted" /\ migAt'[s] = migAt'[q] => s = q
      OBVIOUS
    <3>1. q # r /\ migPc[q] = "inserted" /\ migPc[r] = "inserted"
      BY <1>5, <2>0 DEF MigCommit
    <3> QED
      BY <2>0, <3>1
  <2>2. MigOnce'
    BY <1>5 DEF MigCommit, MigOnce
  <2>3. MigInOrder'
    BY <1>5 DEF MigCommit, MigInOrder, MigFiles
  <2> QED
    BY <2>4, <2>5, <2>6, <2>2, <2>3
<1>6. ASSUME NEW r \in MigRunners, MigFail(r) \/ MigDone(r) PROVE MigInv'
  BY <1>6 DEF MigFail, MigDone, MigGo, MigOnce, MigInOrder
<1> QED
  BY <1>1, <1>2, <1>3, <1>4, <1>5, <1>6 DEF MigNext, MigStep

\* A file's SQL takes effect once and in its turn, however many runners work
\* from lists of their own and wherever they fail.
THEOREM MigrationsAreSafe == MigSpec => []MigSafe
<1>1. MigInit => MigInv
  BY MigAssumption DEF MigInit, MigInv, MigSafe, MigTypeOK, MigOnce, MigInOrder,
                       MigBehind, MigKeyHeld
<1>2. MigInv => MigSafe
  BY DEF MigInv
<1> QED
  BY <1>1, <1>2, MigPreserved, PTL DEF MigSpec

(***************************************************************************)
(* The PID file.  As long as no two processes were at the files at the     *)
(* same time, and none overlooked a daemon it may not signal, one process  *)
(* at most is alive at all past its look, and a daemon that serves is the  *)
(* one the files name.                                                     *)
(***************************************************************************)
LifeAlone ==
  ~lifeUnseen =>
    /\ \A p, q \in LifeProcs : LifeAlive(p) /\ LifeAlive(q) => p = q
    /\ \A p \in LifeProcs : lifePc[p] \in LifeServing => lifePid = p
    /\ \A p \in LifeProcs : lifePc[p] = "up" => lifeSock = p

LifeInv == LifeTypeOK /\ LifeAlone

\* A process that looks while another is past its look is refused, or it raced
\* or overlooked.
LEMMA LifeLookPreserves ==
  ASSUME LifeInv, NEW p \in LifeProcs, LifeLook(p)
  PROVE  LifeInv'
<1> USE LifeAssumption DEF LifeInv, LifeTypeOK, LifeAlone, LifeLook, LifeGo, LifeAlive,
        LifeOverlooks, IsProcessRunning, LifeAtFiles, LifeStages, LifeStarting, LifeRemoving, LifeServing, LifeEnded
<1>1. LifeTypeOK'
  OBVIOUS
<1>2. ASSUME ~lifeUnseen', NEW q \in LifeProcs, LifeAlive(q)
      PROVE  lifePc'[p] = "refused" /\ lifePc'[q] = lifePc[q]
  <2>1. lifePc[q] \in LifeServing /\ lifePid = q
    BY <1>2
  <2> QED
    BY <1>2, <2>1
<1>3. LifeAlone'
  BY <1>2
<1> QED
  BY <1>1, <1>3

LEMMA LifePreserved ==
  ASSUME LifeInv, [LifeNext]_lifeVars
  PROVE  LifeInv'
<1> USE LifeAssumption DEF LifeInv, LifeTypeOK, LifeAlone, LifeGo, LifeAlive,
        LifeStages, LifeStarting, LifeRemoving, LifeServing, LifeEnded
<1>1. CASE UNCHANGED lifeVars
  BY <1>1 DEF lifeVars
<1>2. ASSUME NEW p \in LifeProcs, LifeUnlinkStale(p) PROVE LifeInv'
  BY <1>2 DEF LifeUnlinkStale
<1>3. ASSUME NEW p \in LifeProcs, LifeClearSocket(p) PROVE LifeInv'
  BY <1>3 DEF LifeClearSocket
<1>4. ASSUME NEW p \in LifeProcs, LifeWritePid(p) PROVE LifeInv'
  BY <1>4 DEF LifeWritePid
<1>5. ASSUME NEW p \in LifeProcs, LifeConnect(p) PROVE LifeInv'
  BY <1>5 DEF LifeConnect
<1>6. ASSUME NEW p \in LifeProcs, LifeListen(p) PROVE LifeInv'
  BY <1>6 DEF LifeListen
<1>7. ASSUME NEW p \in LifeProcs, LifeBeatFails(p) \/ LifeStopBeat(p) \/ LifeStopRequest(p)
      PROVE  LifeInv'
  BY <1>7 DEF LifeBeatFails, LifeStopBeat, LifeStopRequest
<1>8. ASSUME NEW p \in LifeProcs, LifeUnlinkPid(p) PROVE LifeInv'
  BY <1>8 DEF LifeUnlinkPid
<1>9. ASSUME NEW p \in LifeProcs, LifeUnlinkSocket(p) \/ LifeKilled(p) PROVE LifeInv'
  BY <1>9 DEF LifeUnlinkSocket, LifeKilled
<1> QED
  BY LifeLookPreserves, <1>1, <1>2, <1>3, <1>4, <1>5, <1>6, <1>7, <1>8, <1>9
  DEF LifeNext, LifeStep

\* One daemon at a time, and the files lead to it, whatever was killed, refused
\* or broken off before, whoever may signal whom, as long as no two processes
\* were at the files at once and none took a live daemon for a dead one because
\* it may not signal it.
THEOREM DaemonIsOne == LifeSpec => []LifeSafe
<1>1. LifeInit => LifeInv
  BY DEF LifeInit, LifeInv, LifeTypeOK, LifeAlone, LifeAlive, LifeStages, LifeStarting,
         LifeRemoving, LifeServing, LifeEnded
<1>2. LifeInv => LifeSafe
  BY DEF LifeInv, LifeSafe, LifeAlone, LifeTypeOK, LifeOneServes, LifeReachable, LifeAlive,
         LifeServing, LifeEnded
<1> QED
  BY <1>1, <1>2, LifePreserved, PTL DEF LifeSpec

(***************************************************************************)
(* The tools.  The catalog and the calls belong to a run alone; the sandbox*)
(* is the last builder's, which is what makes its shell start at home.     *)
(***************************************************************************)
ToolPlaces == {"new", "connecting", "loop", "calling", "shell", "done", "cancelled"}
ToolCommands == [run : ToolRuns, dir : ToolSpaces \cup {ToolNoRun},
                 last : BOOLEAN, awaited : BOOLEAN]

ToolTyped ==
  /\ toolSandbox \in ToolSpaces \cup {ToolNoRun}
  /\ toolSpaceOf \in [ToolRuns -> ToolSpaces]
  /\ toolPc \in [ToolRuns -> ToolPlaces]
  /\ DOMAIN toolRegistry = ToolRuns
  /\ DOMAIN toolOffered = ToolRuns
  /\ DOMAIN toolStacks = ToolRuns
  /\ toolAsked \in [ToolRuns -> Nat]
  /\ toolAnswers \in [ToolRuns -> Nat]
  /\ toolShells \subseteq ToolCommands

\* A run that builds or uses its registry has every provider's stack open.
ToolCatalogs == \A r \in ToolRuns :
  /\ toolPc[r] = "new" => toolRegistry[r] = ToolNothing
  /\ toolPc[r] \notin {"new", "done"} =>
       \A n \in DOMAIN toolRegistry[r] : toolRegistry[r][n] \in {ToolBuiltin} \cup toolStacks[r]
  /\ toolPc[r] \in {"loop", "calling", "shell"} => toolOffered[r] = toolRegistry[r]

\* Between iterations, what is asked is answered, up to the cap.
ToolTallies == \A r \in ToolRuns :
  /\ toolPc[r] \in {"new", "connecting"} => toolAsked[r] = 0 /\ toolAnswers[r] = 0
  /\ toolPc[r] = "loop" => toolAnswers[r] = ToolLimit(r)

\* Once the last builder has its registry, the global is its workspace.
ToolHomes == \A r \in ToolRuns :
  toolLast = r /\ toolPc[r] # "new" => toolSandbox = toolSpaceOf[r]

ToolInv == ToolTyped /\ ToolCatalogs /\ ToolTallies /\ ToolHomes /\ ToolShellHome

LEMMA ToolStart == ToolInit => ToolInv
<1> SUFFICES ASSUME ToolInit PROVE ToolInv
  OBVIOUS
<1> USE ToolAssumption DEF ToolInit
<1>1. ToolTyped
  BY DEF ToolTyped, ToolPlaces
<1>2. ToolCatalogs
  BY DEF ToolCatalogs
<1>3. ToolTallies
  BY DEF ToolTallies
<1>4. ToolHomes /\ ToolShellHome
  BY DEF ToolHomes, ToolShellHome
<1> QED
  BY <1>1, <1>2, <1>3, <1>4 DEF ToolInv

\* What a shell command leaves behind when it ends or is given up on.
LEMMA ToolShellsStep ==
  ASSUME ToolTyped, ToolHomes, ToolShellHome, NEW r \in ToolRuns,
         ToolShell(r) \/ ToolShellEnds(r)
  PROVE  toolShells' \subseteq ToolCommands /\ ToolShellHome'
<1>1. CASE ToolShell(r)
  <2> DEFINE new == [run |-> r, dir |-> toolSandbox, last |-> toolLast = r, awaited |-> TRUE]
  <2>1. new \in ToolCommands
    BY <1>1 DEF ToolShell, ToolTyped, ToolCommands
  <2>2. new.last => new.dir = toolSpaceOf[new.run]
    BY <1>1 DEF ToolShell, ToolHomes
  <2> HIDE DEF new
  <2>3. toolShells' = toolShells \cup {new} /\ UNCHANGED toolSpaceOf
    BY <1>1 DEF ToolShell, new
  <2> QED
    BY <2>1, <2>2, <2>3 DEF ToolShellHome, ToolTyped
<1>2. CASE ToolShellEnds(r)
  <2> DEFINE awaited == {s \in toolShells : s.run = r /\ s.awaited}
             left == {[s EXCEPT !.awaited = FALSE] : s \in awaited}
  <2>1. toolShells' \subseteq toolShells \cup left /\ UNCHANGED toolSpaceOf
    BY <1>2 DEF ToolShellEnds
  <2>2. ASSUME NEW s \in toolShells
        PROVE  LET t == [s EXCEPT !.awaited = FALSE] IN
               t \in ToolCommands /\ t.last = s.last /\ t.dir = s.dir /\ t.run = s.run
    BY DEF ToolTyped, ToolCommands
  <2>3. ASSUME NEW t \in left
        PROVE  t \in ToolCommands /\ (t.last => t.dir = toolSpaceOf[t.run])
    <3>1. PICK s \in toolShells : t = [s EXCEPT !.awaited = FALSE]
      OBVIOUS
    <3>2. t \in ToolCommands /\ t.last = s.last /\ t.dir = s.dir /\ t.run = s.run
      BY <2>2, <3>1
    <3>3. s.last => s.dir = toolSpaceOf[s.run]
      BY DEF ToolShellHome
    <3> QED
      BY <3>2, <3>3
  <2> HIDE DEF left
  <2> QED
    BY <2>1, <2>3 DEF ToolShellHome, ToolTyped
<1> QED
  BY <1>1, <1>2

LEMMA ToolStep == ToolInv /\ [ToolNextStep]_toolVars => ToolInv'
<1> SUFFICES ASSUME ToolInv, [ToolNextStep]_toolVars PROVE ToolInv'
  OBVIOUS
<1> USE ToolAssumption DEF toolLoopVars, toolBuildVars
<1>0. CASE UNCHANGED toolVars
  BY <1>0 DEF ToolInv, ToolTyped, ToolCatalogs, ToolTallies, ToolHomes, ToolShellHome,
              ToolLimit, toolVars
<1>1. ASSUME NEW r \in ToolRuns, ToolCreateRegistry(r) PROVE ToolInv'
  <2> USE <1>1 DEF ToolCreateRegistry, ToolGo, ToolInv
  <2>1. ToolTyped'
    BY DEF ToolTyped, ToolPlaces
  <2>2. ToolCatalogs'
    <3>1. \A n \in DOMAIN toolRegistry'[r] : toolRegistry'[r][n] = ToolBuiltin
      BY DEF ToolTyped, ToolCatalogs, ToolWith, ToolNothing
    <3>2. \A q \in ToolRuns : q # r => toolRegistry'[q] = toolRegistry[q] /\ toolPc'[q] = toolPc[q]
      BY DEF ToolTyped
    <3>3. toolPc'[r] = "connecting"
      BY DEF ToolTyped
    <3> QED
      BY <3>1, <3>2, <3>3 DEF ToolCatalogs
  <2>3. ToolTallies'
    BY DEF ToolTallies, ToolTyped, ToolLimit
  <2>4. ToolHomes' /\ ToolShellHome'
    BY DEF ToolHomes, ToolShellHome, ToolTyped
  <2> QED
    BY <2>1, <2>2, <2>3, <2>4
<1>2. ASSUME NEW r \in ToolRuns, ToolConnect(r) PROVE ToolInv'
  <2> USE <1>2 DEF ToolConnect, ToolInv
  <2>1. ToolTyped'
    BY DEF ToolTyped
  <2>2. ToolCatalogs'
    <3>1. \A q \in ToolRuns : q # r => toolRegistry'[q] = toolRegistry[q] /\ toolStacks'[q] = toolStacks[q]
      BY DEF ToolTyped
    <3>2. \A n \in DOMAIN toolRegistry'[r] : toolRegistry'[r][n] \in {ToolBuiltin} \cup toolStacks'[r]
      <4>1. \A n \in DOMAIN toolRegistry[r] : toolRegistry[r][n] \in {ToolBuiltin} \cup toolStacks[r]
        BY DEF ToolCatalogs
      <4>2. CASE UNCHANGED <<toolRegistry, toolStacks>>
        BY <4>1, <4>2
      <4>3. ASSUME NEW allowed \in SUBSET ToolExports,
                   toolRegistry' = [toolRegistry EXCEPT ![r] = ToolWith(@, allowed, toolNext[r])],
                   toolStacks' = [toolStacks EXCEPT ![r] = @ \cup {toolNext[r]}]
            PROVE  \A n \in DOMAIN toolRegistry'[r] :
                     toolRegistry'[r][n] \in {ToolBuiltin} \cup toolStacks'[r]
        <5>1. /\ toolRegistry'[r] = ToolWith(toolRegistry[r], allowed, toolNext[r])
              /\ toolStacks'[r] = toolStacks[r] \cup {toolNext[r]}
          BY <4>3 DEF ToolTyped
        <5> QED
          BY <5>1, <4>1 DEF ToolWith
      <4> QED
        BY <4>2, <4>3
    <3>3. UNCHANGED <<toolPc, toolOffered>> /\ toolPc[r] = "connecting"
      OBVIOUS
    <3> QED
      BY <3>1, <3>2, <3>3 DEF ToolCatalogs
  <2>3. ToolTallies' /\ ToolHomes' /\ ToolShellHome'
    BY DEF ToolTallies, ToolHomes, ToolShellHome, ToolLimit
  <2> QED
    BY <2>1, <2>2, <2>3
<1>3. ASSUME NEW r \in ToolRuns, ToolOffer(r) PROVE ToolInv'
  <2> USE <1>3 DEF ToolOffer, ToolGo, ToolInv
  <2>1. ToolTyped'
    BY DEF ToolTyped, ToolPlaces
  <2>2. ToolCatalogs'
    BY DEF ToolTyped, ToolCatalogs
  <2>3. ToolTallies'
    BY DEF ToolTallies, ToolTyped, ToolLimit
  <2>4. ToolHomes' /\ ToolShellHome'
    BY DEF ToolHomes, ToolShellHome, ToolTyped
  <2> QED
    BY <2>1, <2>2, <2>3, <2>4
<1>4. ASSUME NEW r \in ToolRuns, ToolAsk(r) \/ ToolCall(r) \/ ToolIterated(r) PROVE ToolInv'
  <2> USE <1>4 DEF ToolAsk, ToolCall, ToolIterated, ToolGo, ToolAnswered, ToolInv
  <2>1. ToolTyped'
    BY DEF ToolTyped, ToolPlaces
  <2>2. ToolCatalogs'
    BY DEF ToolTyped, ToolCatalogs
  <2>3. ToolTallies'
    BY DEF ToolTallies, ToolTyped, ToolLimit
  <2>4. ToolHomes' /\ ToolShellHome'
    BY DEF ToolHomes, ToolShellHome, ToolTyped
  <2> QED
    BY <2>1, <2>2, <2>3, <2>4
<1>5. ASSUME NEW r \in ToolRuns, ToolShell(r) \/ ToolShellEnds(r) PROVE ToolInv'
  <2>0. toolShells' \subseteq ToolCommands /\ ToolShellHome'
    BY <1>5, ToolShellsStep DEF ToolInv
  <2>1. /\ UNCHANGED <<toolSandbox, toolSpaceOf, toolBuildVars, toolTurn, toolAsked, toolLast>>
        /\ toolPc[r] \in {"calling", "shell"}
        /\ \/ toolPc' = [toolPc EXCEPT ![r] = "shell"]
           \/ toolPc' = [toolPc EXCEPT ![r] = "calling"]
        /\ \/ UNCHANGED toolAnswers
           \/ toolAnswers' = [toolAnswers EXCEPT ![r] = @ + 1]
    BY <1>5 DEF ToolShell, ToolShellEnds, ToolGo, ToolAnswered
  <2> USE <2>1 DEF ToolInv
  <2>2. ToolTyped'
    BY <2>0 DEF ToolTyped, ToolPlaces
  <2>3. ToolCatalogs'
    BY DEF ToolTyped, ToolCatalogs
  <2>4. ToolTallies'
    BY DEF ToolTallies, ToolTyped, ToolLimit
  <2>5. ToolHomes'
    BY DEF ToolHomes, ToolTyped
  <2> QED
    BY <2>0, <2>2, <2>3, <2>4, <2>5
<1>6. ASSUME NEW r \in ToolRuns, ToolFinish(r) \/ ToolCancel(r) PROVE ToolInv'
  <2> USE <1>6 DEF ToolFinish, ToolCancel, ToolGo, ToolInv
  <2>1. ToolTyped'
    BY DEF ToolTyped, ToolPlaces
  <2>2. ToolCatalogs'
    BY DEF ToolTyped, ToolCatalogs
  <2>3. ToolTallies'
    BY DEF ToolTallies, ToolTyped, ToolLimit
  <2>4. ToolHomes' /\ ToolShellHome'
    BY DEF ToolHomes, ToolShellHome, ToolTyped
  <2> QED
    BY <2>1, <2>2, <2>3, <2>4
<1> QED
  BY <1>0, <1>1, <1>2, <1>3, <1>4, <1>5, <1>6 DEF ToolNextStep

\* The catalog a run was given is what its registry runs, the last builder's
\* commands start in its workspace, and each call has its tool message
\* (agent/loop.py, agent/tools.py), for any number of runs and servers.
THEOREM ToolboxIsSound == ToolSpec => []ToolboxSound
<1>1. ToolInv => ToolboxSound
  BY ToolAssumption DEF ToolInv, ToolTyped, ToolCatalogs, ToolTallies, ToolboxSound, ToolOfferedRuns,
         ToolCallsAnswered, ToolLimit
<1> QED
  BY ToolStart, ToolStep, <1>1, PTL DEF ToolSpec

(***************************************************************************)
(* The live demo.  What a stream may still send depends on what it has     *)
(* sent, on the events in its queue, and on what its agent may still add.  *)
(***************************************************************************)
LiveAgents == {"none", "running", "closing", "cancelling", "done"}
LiveKinds == {"session_start", "thought", "answer", "session_complete"} \cup LiveEnding

LiveTyped ==
  /\ liveFree \in Nat
  /\ liveStage \in [LiveStreams -> LiveStages]
  /\ liveAgent \in [LiveStreams -> LiveAgents]
  /\ liveQueue \in [LiveStreams -> Seq(LiveEvents)]
  /\ liveSent \in [LiveStreams -> Seq(LiveKinds)]

\* The frames of a stream that may go on, of one that has answered, and of any.
LiveGoing(f) == Len(f) > 0 /\ \A i \in 1..Len(f) : f[i] \notin LiveEnding
LiveAnswered(f) == \E i \in 1..Len(f) : f[i] = "answer"
LiveOrderly(f) ==
  /\ \A i \in 1..Len(f) : f[i] \in LiveEnding => i = Len(f)
  /\ \A i \in 1..Len(f) : f[i] = "DONE" => i > 1 /\ f[i - 1] = "session_complete"

\* After the last event of a run its queue holds nothing but the sentinel.
LiveLine(q, agent) ==
  /\ \A i \in 1..Len(q) : q[i] # "iteration" => agent # "running"
  /\ \A i, j \in 1..Len(q) : i < j /\ q[i] = "completed" => q[j] = "sentinel"

\* Once the answer is out, only the sentinel is left to be read.
LiveSettled(f, q, agent) == LiveAnswered(f) =>
  /\ f[Len(f)] = "session_complete"
  /\ agent # "running"
  /\ \A i \in 1..Len(q) : q[i] = "sentinel"

\* A stream by its stage, its agent, its queue, its frames and its client.
LiveFine(stage, agent, q, f, gone) ==
  /\ LiveOrderly(f)
  /\ LiveLine(q, agent)
  /\ stage = "new" => f = <<>> /\ agent = "none" /\ q = <<>> /\ ~gone
  /\ stage = "open" => f = <<"session_start">> /\ ~gone
  /\ stage \in {"open", "reading"} =>
       agent \in {"running", "closing", "done"} /\ LiveGoing(f) /\ LiveSettled(f, q, agent)
  /\ stage = "cleanup" => agent \in {"cancelling", "done"}
  /\ stage = "ended" =>
       \/ agent \in {"none", "done"}
       \/ gone /\ (agent = "cancelling" \/ f = <<"session_start">>)
  /\ stage \in {"cleanup", "ended"} /\ ~gone => Len(f) > 0 /\ f[Len(f)] \in LiveEnding

LiveFineAt(s) ==
  LiveFine(liveStage[s], liveAgent[s], liveQueue[s], liveSent[s], s \in liveLeft)

LiveInv == LiveTyped /\ (\A s \in LiveStreams : LiveFineAt(s)) /\ LiveSlotsConserved

(***************************************************************************)
(* Frames that are added to frames that may go on.                         *)
(***************************************************************************)
\* One frame that does not end the stream, or one that does.
LEMMA LiveOneMore ==
  ASSUME NEW f \in Seq(LiveKinds), NEW x \in LiveKinds \ {"DONE"}, Len(f) = 0 \/ LiveGoing(f)
  PROVE  /\ f \o <<x>> \in Seq(LiveKinds)
         /\ LiveOrderly(f \o <<x>>)
         /\ Len(f \o <<x>>) > 0
         /\ (f \o <<x>>)[Len(f \o <<x>>)] = x
         /\ x \notin LiveEnding => LiveGoing(f \o <<x>>)
         /\ x # "answer" => (LiveAnswered(f \o <<x>>) <=> LiveAnswered(f))
<1> DEFINE g == <<x>>
           h == f \o g
<1>1. g \in Seq(LiveKinds) /\ Len(g) = 1 /\ g[1] = x
  OBVIOUS
<1> HIDE DEF g
<1>2. /\ h \in Seq(LiveKinds)
      /\ Len(h) = Len(f) + 1
      /\ \A i \in 1..(Len(f) + 1) : h[i] = IF i <= Len(f) THEN f[i] ELSE g[i - Len(f)]
  <2>1. /\ h \in Seq(LiveKinds)
        /\ Len(h) = Len(f) + Len(g)
        /\ \A i \in 1..(Len(f) + Len(g)) : h[i] = IF i <= Len(f) THEN f[i] ELSE g[i - Len(f)]
    BY <1>1, ConcatProperties, Zenon
  <2> QED
    BY <1>1, <2>1
<1>3. Len(f) \in Nat
  OBVIOUS
<1> HIDE DEF h
<1>4. h[Len(f) + 1] = x /\ \A i \in 1..Len(f) : h[i] = f[i]
  BY <1>1, <1>2, <1>3
<1>5. \A i \in 1..Len(h) : i \in 1..Len(f) \/ i = Len(f) + 1
  BY <1>2, <1>3
<1>6. LiveOrderly(h)
  BY <1>2, <1>3, <1>4, <1>5 DEF LiveOrderly, LiveGoing, LiveEnding
<1>7. x \notin LiveEnding => LiveGoing(h)
  BY <1>2, <1>3, <1>4, <1>5 DEF LiveGoing
<1>8. x # "answer" => (LiveAnswered(h) <=> LiveAnswered(f))
  <2>1. ASSUME LiveAnswered(f) PROVE LiveAnswered(h)
    BY <2>1, <1>2, <1>3, <1>4 DEF LiveAnswered
  <2>2. ASSUME LiveAnswered(h), x # "answer" PROVE LiveAnswered(f)
    BY <2>2, <1>2, <1>3, <1>4, <1>5 DEF LiveAnswered
  <2> QED
    BY <2>1, <2>2
<1>9. Len(h) > 0 /\ h[Len(h)] = x
  BY <1>2, <1>3, <1>4
<1> QED
  BY <1>2, <1>6, <1>7, <1>8, <1>9 DEF h, g

\* DONE right after the session_complete.
LEMMA LiveDoneMore ==
  ASSUME NEW f \in Seq(LiveKinds), LiveGoing(f), f[Len(f)] = "session_complete"
  PROVE  /\ f \o <<"DONE">> \in Seq(LiveKinds)
         /\ LiveOrderly(f \o <<"DONE">>)
         /\ Len(f \o <<"DONE">>) > 0
         /\ (f \o <<"DONE">>)[Len(f \o <<"DONE">>)] = "DONE"
<1> DEFINE g == <<"DONE">>
           h == f \o g
<1>1. g \in Seq(LiveKinds) /\ Len(g) = 1 /\ g[1] = "DONE"
  BY DEF LiveKinds, LiveEnding
<1> HIDE DEF g
<1>2. /\ h \in Seq(LiveKinds)
      /\ Len(h) = Len(f) + 1
      /\ \A i \in 1..(Len(f) + 1) : h[i] = IF i <= Len(f) THEN f[i] ELSE g[i - Len(f)]
  <2>1. /\ h \in Seq(LiveKinds)
        /\ Len(h) = Len(f) + Len(g)
        /\ \A i \in 1..(Len(f) + Len(g)) : h[i] = IF i <= Len(f) THEN f[i] ELSE g[i - Len(f)]
    BY <1>1, ConcatProperties, Zenon
  <2> QED
    BY <1>1, <2>1
<1>3. Len(f) \in Nat
  OBVIOUS
<1> HIDE DEF h
<1>4. h[Len(f) + 1] = "DONE" /\ \A i \in 1..Len(f) : h[i] = f[i]
  BY <1>1, <1>2, <1>3
<1>5. \A i \in 1..Len(h) : i \in 1..Len(f) \/ i = Len(f) + 1
  BY <1>2, <1>3
<1>6. LiveOrderly(h)
  <2>1. h[Len(f) + 1 - 1] = "session_complete" /\ Len(f) + 1 > 1
    BY <1>3, <1>4 DEF LiveGoing
  <2> QED
    BY <1>2, <1>3, <1>4, <1>5, <2>1 DEF LiveOrderly, LiveGoing, LiveEnding
<1>9. Len(h) > 0 /\ h[Len(h)] = "DONE"
  BY <1>2, <1>3, <1>4
<1> QED
  BY <1>2, <1>6, <1>9 DEF h, g

\* The two frames of an answer.
LEMMA LiveAnswerMore ==
  ASSUME NEW f \in Seq(LiveKinds), LiveGoing(f)
  PROVE  LET h == f \o <<"answer", "session_complete">> IN
         /\ h \in Seq(LiveKinds)
         /\ LiveGoing(h)
         /\ LiveOrderly(h)
         /\ h[Len(h)] = "session_complete"
<1> DEFINE a == f \o <<"answer">>
           b == a \o <<"session_complete">>
<1>1. {"answer", "session_complete"} \subseteq LiveKinds \ LiveEnding /\ "DONE" \in LiveEnding
  BY DEF LiveKinds, LiveEnding
<1>2. a \in Seq(LiveKinds) /\ LiveGoing(a)
  BY <1>1, LiveOneMore
<1> HIDE DEF a
<1>3. /\ b \in Seq(LiveKinds) /\ LiveGoing(b) /\ LiveOrderly(b)
      /\ b[Len(b)] = "session_complete"
  BY <1>1, <1>2, LiveOneMore
<1>4. b = f \o <<"answer", "session_complete">>
  BY <1>1 DEF a
<1> QED
  BY <1>3, <1>4

\* An event that the agent adds to its queue.
LEMMA LivePush ==
  ASSUME NEW q \in Seq(LiveEvents), NEW e \in LiveEvents, NEW agent, NEW next,
         LiveLine(q, agent),
         e # "sentinel" => agent = "running",
         e # "iteration" => next # "running",
         next = "running" => agent = "running"
  PROVE  /\ q \o <<e>> \in Seq(LiveEvents)
         /\ LiveLine(q \o <<e>>, next)
         /\ e = "sentinel" /\ (\A i \in 1..Len(q) : q[i] = "sentinel") =>
              \A i \in 1..Len(q \o <<e>>) : (q \o <<e>>)[i] = "sentinel"
<1> DEFINE g == <<e>>
           h == q \o g
<1>1. g \in Seq(LiveEvents) /\ Len(g) = 1 /\ g[1] = e
  OBVIOUS
<1> HIDE DEF g
<1>2. /\ h \in Seq(LiveEvents)
      /\ Len(h) = Len(q) + 1
      /\ \A i \in 1..(Len(q) + 1) : h[i] = IF i <= Len(q) THEN q[i] ELSE g[i - Len(q)]
  <2>1. /\ h \in Seq(LiveEvents)
        /\ Len(h) = Len(q) + Len(g)
        /\ \A i \in 1..(Len(q) + Len(g)) : h[i] = IF i <= Len(q) THEN q[i] ELSE g[i - Len(q)]
    BY <1>1, ConcatProperties, Zenon
  <2> QED
    BY <1>1, <2>1
<1>3. Len(q) \in Nat
  OBVIOUS
<1> HIDE DEF h
<1>4. h[Len(q) + 1] = e /\ \A i \in 1..Len(q) : h[i] = q[i]
  BY <1>1, <1>2, <1>3
<1>5. \A i \in 1..Len(h) : i \in 1..Len(q) \/ i = Len(q) + 1
  BY <1>2, <1>3
<1>6. LiveLine(h, next)
  <2>1. \A i \in 1..Len(h) : h[i] # "iteration" => next # "running"
    BY <1>4, <1>5 DEF LiveLine
  <2>2. ASSUME NEW i \in 1..Len(h), NEW j \in 1..Len(h), i < j, h[i] = "completed"
        PROVE  h[j] = "sentinel"
    <3>1. i \in 1..Len(q) /\ q[i] = "completed"
      BY <2>2, <1>2, <1>3, <1>4
    <3>2. CASE j \in 1..Len(q)
      BY <3>1, <3>2, <2>2, <1>4 DEF LiveLine
    <3>3. CASE j = Len(q) + 1
      BY <3>1, <3>3, <1>4 DEF LiveLine
    <3> QED
      BY <3>2, <3>3, <1>5
  <2> QED
    BY <2>1, <2>2 DEF LiveLine
<1>7. e = "sentinel" /\ (\A i \in 1..Len(q) : q[i] = "sentinel") =>
        \A i \in 1..Len(h) : h[i] = "sentinel"
  BY <1>4, <1>5
<1> QED
  BY <1>2, <1>6, <1>7 DEF h, g

(***************************************************************************)
(* What each step makes of the stream it is about.                         *)
(***************************************************************************)
\* The agent adds an event, or ends without one.
LEMMA LivePushIsFine ==
  ASSUME NEW stage \in LiveStages, NEW agent \in {"running", "closing"},
         NEW next \in {"running", "closing", "done"},
         NEW q \in Seq(LiveEvents), NEW f \in Seq(LiveKinds), NEW gone \in BOOLEAN,
         LiveFine(stage, agent, q, f, gone),
         next = "running" => agent = "running"
  PROVE  /\ LiveFine(stage, next, q, f, gone)
         /\ \A e \in LiveEvents :
              /\ e # "sentinel" => agent = "running"
              /\ e # "iteration" => next # "running"
              => q \o <<e>> \in Seq(LiveEvents) /\ LiveFine(stage, next, q \o <<e>>, f, gone)
<1>1. stage \in {"open", "reading"} \/ (stage = "ended" /\ gone /\ f = <<"session_start">>)
  BY DEF LiveFine, LiveStages
<1>2. LiveLine(q, agent) /\ LiveOrderly(f)
  BY DEF LiveFine
<1>3. LiveLine(q, next)
  BY <1>2 DEF LiveLine
<1>4. stage \in {"open", "reading"} =>
        /\ LiveGoing(f)
        /\ LiveSettled(f, q, agent)
        /\ stage = "open" => f = <<"session_start">> /\ ~gone
  BY DEF LiveFine
<1>5. LiveFine(stage, next, q, f, gone)
  <2>1. LiveSettled(f, q, agent) => LiveSettled(f, q, next)
    BY DEF LiveSettled
  <2> QED
    BY <1>1, <1>2, <1>3, <1>4, <2>1 DEF LiveFine
<1>6. ASSUME NEW e \in LiveEvents,
             e # "sentinel" => agent = "running",
             e # "iteration" => next # "running"
      PROVE  q \o <<e>> \in Seq(LiveEvents) /\ LiveFine(stage, next, q \o <<e>>, f, gone)
  <2> DEFINE h == q \o <<e>>
  <2>1. /\ h \in Seq(LiveEvents)
        /\ LiveLine(h, next)
        /\ e = "sentinel" /\ (\A i \in 1..Len(q) : q[i] = "sentinel") =>
             \A i \in 1..Len(h) : h[i] = "sentinel"
    BY <1>2, <1>6, LivePush
  <2> HIDE DEF h
  <2>2. LiveSettled(f, q, agent) => LiveSettled(f, h, next)
    BY <2>1, <1>6 DEF LiveSettled
  <2>3. LiveFine(stage, next, h, f, gone)
    BY <1>1, <1>2, <1>4, <2>1, <2>2 DEF LiveFine
  <2> QED
    BY <2>1, <2>3 DEF h
<1> QED
  BY <1>5, <1>6

\* The generator reads an event and goes on, or ends the stream.
LiveFramesOf(f, event) ==
  CASE event = "iteration" -> <<"thought">>
    [] event = "completed" -> <<"answer", "session_complete">>
    [] event = "failed" -> <<"ERROR">>
    [] event = "sentinel" ->
         IF LiveAnswered(f) THEN <<"DONE">> ELSE <<"answer", "session_complete", "DONE">>

LEMMA LiveReadIsFine ==
  ASSUME NEW agent \in LiveAgents, NEW q \in Seq(LiveEvents), NEW f \in Seq(LiveKinds),
         NEW gone \in BOOLEAN, LiveFine("reading", agent, q, f, gone), q # <<>>,
         NEW g, g = f \o LiveFramesOf(f, Head(q))
  PROVE  /\ g \in Seq(LiveKinds)
         /\ Tail(q) \in Seq(LiveEvents)
         /\ Head(q) \in LiveEvents
         /\ Head(q) \notin {"failed", "sentinel"} => LiveFine("reading", agent, Tail(q), g, gone)
         /\ Head(q) \in {"failed", "sentinel"} =>
              \A next \in {"cancelling", "done"} : LiveFine("cleanup", next, Tail(q), g, gone)
<1> DEFINE e == Head(q)
           r == Tail(q)
<1>1. /\ e \in LiveEvents /\ e = q[1] /\ 1 \in 1..Len(q)
      /\ r \in Seq(LiveEvents)
      /\ Len(r) = Len(q) - 1
      /\ \A i \in 1..Len(r) : r[i] = q[i + 1] /\ i + 1 \in 1..Len(q) /\ 1 < i + 1
  <2>1. Len(q) \in Nat /\ Len(q) > 0
    OBVIOUS
  <2>2. e \in LiveEvents /\ r \in Seq(LiveEvents) /\ Len(r) = Len(q) - 1
    BY HeadTailProperties
  <2>3. \A i \in 1..Len(r) : r[i] = q[i + 1]
    BY HeadTailProperties
  <2> QED
    BY <2>1, <2>2, <2>3
<1> HIDE DEF e, r
<1>2. /\ LiveGoing(f) /\ LiveSettled(f, q, agent) /\ LiveLine(q, agent)
      /\ agent \in {"running", "closing", "done"}
  BY DEF LiveFine
<1>3. \A next \in LiveAgents : next # "running" \/ next = agent => LiveLine(r, next)
  <2>1. \A i \in 1..Len(r) : r[i] # "iteration" => agent # "running"
    BY <1>1, <1>2 DEF LiveLine
  <2>2. ASSUME NEW i \in 1..Len(r), NEW j \in 1..Len(r), i < j, r[i] = "completed"
        PROVE  r[j] = "sentinel"
    <3>1. i + 1 < j + 1
      BY <1>1, <2>2
    <3> QED
      BY <1>1, <1>2, <2>2, <3>1 DEF LiveLine
  <2> QED
    BY <2>1, <2>2 DEF LiveLine
<1>4. ASSUME NEW h, h \in Seq(LiveKinds), LiveOrderly(h), Len(h) > 0, h[Len(h)] \in LiveEnding,
             NEW next \in {"cancelling", "done"}
      PROVE  LiveFine("cleanup", next, r, h, gone)
  <2>1. LiveLine(r, next)
    BY <1>3 DEF LiveAgents
  <2> QED
    BY <1>4, <2>1 DEF LiveFine
<1>5. CASE e = "iteration"
  <2>1. g = f \o <<"thought">>
    BY <1>5 DEF LiveFramesOf, e
  <2>2. ~LiveAnswered(f)
    BY <1>1, <1>2, <1>5 DEF LiveSettled
  <2>3. "thought" \in LiveKinds \ LiveEnding /\ "DONE" \in LiveEnding /\ "thought" # "answer"
    BY DEF LiveKinds, LiveEnding
  <2>4. g \in Seq(LiveKinds) /\ LiveOrderly(g) /\ LiveGoing(g) /\ ~LiveAnswered(g)
    <3>1. LiveGoing(f) /\ "thought" \in LiveKinds \ {"DONE"}
      BY <1>2, <2>3
    <3>2. /\ g \in Seq(LiveKinds) /\ LiveOrderly(g)
          /\ "thought" \notin LiveEnding => LiveGoing(g)
          /\ "thought" # "answer" => (LiveAnswered(g) <=> LiveAnswered(f))
      BY <2>1, <3>1, LiveOneMore
    <3> QED
      BY <2>2, <2>3, <3>2
  <2>5. LiveFine("reading", agent, r, g, gone)
    BY <1>2, <1>3, <2>4 DEF LiveFine, LiveSettled
  <2> QED
    BY <1>1, <1>5, <2>4, <2>5 DEF e, r
<1>6. CASE e = "completed"
  <2>1. g = f \o <<"answer", "session_complete">>
    BY <1>6 DEF LiveFramesOf, e
  <2>2. g \in Seq(LiveKinds) /\ LiveOrderly(g) /\ LiveGoing(g) /\ g[Len(g)] = "session_complete"
    BY <1>2, <2>1, LiveAnswerMore
  <2>3. agent # "running" /\ \A i \in 1..Len(r) : r[i] = "sentinel"
    BY <1>1, <1>2, <1>6 DEF LiveLine
  <2>4. LiveFine("reading", agent, r, g, gone)
    BY <1>2, <1>3, <2>2, <2>3 DEF LiveFine, LiveSettled
  <2> QED
    BY <1>1, <1>6, <2>2, <2>4 DEF e, r
<1>7. CASE e = "failed"
  <2>1. g = f \o <<"ERROR">>
    BY <1>7 DEF LiveFramesOf, e
  <2>2. "ERROR" \in LiveKinds \ {"DONE"} /\ "ERROR" \in LiveEnding
    BY DEF LiveKinds, LiveEnding
  <2>3. g \in Seq(LiveKinds) /\ LiveOrderly(g) /\ Len(g) > 0 /\ g[Len(g)] \in LiveEnding
    BY <1>2, <2>1, <2>2, LiveOneMore
  <2> QED
    BY <1>1, <1>4, <1>7, <2>3 DEF e, r
<1>8. CASE e = "sentinel"
  <2>1. "DONE" \in LiveEnding
    BY DEF LiveEnding
  <2>2. g \in Seq(LiveKinds) /\ LiveOrderly(g) /\ Len(g) > 0 /\ g[Len(g)] = "DONE"
    <3>1. CASE LiveAnswered(f)
      <4>1. g = f \o <<"DONE">>
        BY <1>8, <3>1 DEF LiveFramesOf, e
      <4>2. f[Len(f)] = "session_complete"
        BY <1>2, <3>1 DEF LiveSettled
      <4> QED
        BY <1>2, <4>1, <4>2, LiveDoneMore
    <3>2. CASE ~LiveAnswered(f)
      <4> DEFINE a == f \o <<"answer", "session_complete">>
      <4>1. g = f \o <<"answer", "session_complete", "DONE">>
        BY <1>8, <3>2 DEF LiveFramesOf, e
      <4>2. g = a \o <<"DONE">>
        BY <4>1
      <4>3. a \in Seq(LiveKinds) /\ LiveGoing(a) /\ a[Len(a)] = "session_complete"
        BY <1>2, LiveAnswerMore
      <4> HIDE DEF a
      <4> QED
        BY <4>2, <4>3, LiveDoneMore
    <3> QED
      BY <3>1, <3>2
  <2> QED
    BY <1>1, <1>4, <1>8, <2>1, <2>2 DEF e, r
<1> QED
  BY <1>1, <1>5, <1>6, <1>7, <1>8 DEF LiveEvents

(***************************************************************************)
(* The steps of all streams.                                               *)
(***************************************************************************)
\* A step is about one stream: the others are as they were.
LiveOnly(s) == \A q \in LiveStreams \ {s} :
  /\ liveStage'[q] = liveStage[q]
  /\ liveAgent'[q] = liveAgent[q]
  /\ liveQueue'[q] = liveQueue[q]
  /\ liveSent'[q] = liveSent[q]
  /\ q \in liveLeft' <=> q \in liveLeft

\* What it does to the semaphore: nothing, a slot taken or a slot given back.
LiveSlotMove(s) ==
  \/ /\ liveFree' = liveFree
     /\ s \in LiveHolders' <=> s \in LiveHolders
  \/ /\ liveFree > 0 /\ liveFree' = liveFree - 1
     /\ s \notin LiveHolders /\ s \in LiveHolders'
  \/ /\ liveFree' = liveFree + 1
     /\ s \in LiveHolders /\ s \notin LiveHolders'

LEMMA LiveSlotsStep ==
  ASSUME LiveTyped, LiveSlotsConserved, NEW s \in LiveStreams, LiveOnly(s), LiveSlotMove(s)
  PROVE  liveFree' \in Nat /\ LiveSlotsConserved'
<1>1. \A q \in LiveStreams \ {s} : q \in LiveHolders' <=> q \in LiveHolders
  BY DEF LiveOnly, LiveHolders
<1>2. LiveHolders \subseteq LiveStreams /\ LiveHolders' \subseteq LiveStreams
  BY DEF LiveHolders
<1>3. IsFiniteSet(LiveHolders)
  BY <1>2, FS_Subset, LiveAssumption
<1>4. Cardinality(LiveHolders) \in Nat
  BY <1>3, FS_CardinalityType
<1>5. LiveSlots \in Nat /\ liveFree \in Nat
  BY LiveAssumption DEF LiveTyped
<1>6. CASE liveFree' = liveFree /\ (s \in LiveHolders' <=> s \in LiveHolders)
  <2>1. LiveHolders' = LiveHolders
    BY <1>1, <1>2, <1>6
  <2> QED
    BY <1>5, <1>6, <2>1 DEF LiveSlotsConserved
<1>7. CASE /\ liveFree > 0 /\ liveFree' = liveFree - 1
           /\ s \notin LiveHolders /\ s \in LiveHolders'
  <2>1. LiveHolders' = LiveHolders \cup {s}
    BY <1>1, <1>2, <1>7
  <2>2. Cardinality(LiveHolders') = Cardinality(LiveHolders) + 1
    BY <1>3, <1>7, <2>1, FS_AddElement
  <2> QED
    BY <1>4, <1>5, <1>7, <2>2 DEF LiveSlotsConserved
<1>8. CASE liveFree' = liveFree + 1 /\ s \in LiveHolders /\ s \notin LiveHolders'
  <2>1. LiveHolders' = LiveHolders \ {s}
    BY <1>1, <1>2, <1>8
  <2>2. Cardinality(LiveHolders') = Cardinality(LiveHolders) - 1
    BY <1>3, <1>8, <2>1, FS_RemoveElement
  <2> QED
    BY <1>4, <1>5, <1>8, <2>2 DEF LiveSlotsConserved
<1> QED
  BY <1>6, <1>7, <1>8 DEF LiveSlotMove

\* With that, a step is right when its own stream stays so.
LEMMA LiveStreamStep ==
  ASSUME LiveInv, NEW s \in LiveStreams, LiveOnly(s), LiveSlotMove(s), LiveFineAt(s)',
         liveStage' \in [LiveStreams -> LiveStages], liveAgent' \in [LiveStreams -> LiveAgents],
         liveQueue' \in [LiveStreams -> Seq(LiveEvents)],
         liveSent' \in [LiveStreams -> Seq(LiveKinds)]
  PROVE  LiveInv'
<1>1. liveFree' \in Nat /\ LiveSlotsConserved'
  BY LiveSlotsStep DEF LiveInv
<1>2. ASSUME NEW q \in LiveStreams \ {s} PROVE LiveFineAt(q)'
  <2>1. LiveFineAt(q)
    BY DEF LiveInv
  <2>2. /\ liveStage'[q] = liveStage[q] /\ liveAgent'[q] = liveAgent[q]
        /\ liveQueue'[q] = liveQueue[q] /\ liveSent'[q] = liveSent[q]
        /\ q \in liveLeft' <=> q \in liveLeft
    BY DEF LiveOnly
  <2> QED
    BY <2>1, <2>2 DEF LiveFineAt, LiveFine
<1> QED
  BY <1>1, <1>2 DEF LiveInv, LiveTyped

LEMMA LiveStart == LiveInit => LiveInv
<1> SUFFICES ASSUME LiveInit PROVE LiveInv
  OBVIOUS
<1> USE DEF LiveInit
<1>1. LiveTyped
  BY LiveAssumption DEF LiveTyped, LiveStages, LiveAgents
<1>2. \A s \in LiveStreams : LiveFineAt(s)
  BY DEF LiveFineAt, LiveFine, LiveOrderly, LiveLine
<1>3. LiveSlotsConserved
  <2>1. LiveHolders = {}
    BY DEF LiveHolders
  <2> QED
    BY <2>1, FS_EmptySet, LiveAssumption DEF LiveSlotsConserved
<1> QED
  BY <1>1, <1>2, <1>3 DEF LiveInv

LEMMA LiveStep == LiveInv /\ [LiveNext]_liveVars => LiveInv'
<1> SUFFICES ASSUME LiveInv, [LiveNext]_liveVars PROVE LiveInv'
  OBVIOUS
<1>0. CASE UNCHANGED liveVars
  BY <1>0 DEF LiveInv, LiveTyped, LiveFineAt, LiveSlotsConserved, LiveHolders, liveVars
<1>t. LiveTyped
  BY DEF LiveInv
<1>f. \A s \in LiveStreams :
        /\ LiveFineAt(s)
        /\ liveStage[s] \in LiveStages /\ liveAgent[s] \in LiveAgents
        /\ liveQueue[s] \in Seq(LiveEvents) /\ liveSent[s] \in Seq(LiveKinds)
        /\ (s \in liveLeft) \in BOOLEAN
  BY DEF LiveInv, LiveTyped
<1>1. ASSUME NEW s \in LiveStreams, LiveAdmit(s) \/ LiveBusy(s) PROVE LiveInv'
  <2>1. PICK frame \in {"session_start", "ERROR"} :
          /\ liveStage[s] = "new"
          /\ liveSent' = [liveSent EXCEPT ![s] = @ \o <<frame>>]
          /\ UNCHANGED <<liveQueue, liveLeft>>
          /\ \/ /\ frame = "session_start"
                /\ liveStage' = [liveStage EXCEPT ![s] = "open"]
                /\ liveAgent' = [liveAgent EXCEPT ![s] = "running"]
                /\ liveFree > 0 /\ liveFree' = liveFree - 1
             \/ /\ frame = "ERROR"
                /\ liveStage' = [liveStage EXCEPT ![s] = "ended"]
                /\ UNCHANGED <<liveAgent, liveFree>>
    BY <1>1 DEF LiveAdmit, LiveBusy, LiveYield, LiveGo
  <2>2. liveSent[s] = <<>> /\ liveAgent[s] = "none" /\ liveQueue[s] = <<>> /\ s \notin liveLeft
    BY <1>f, <2>1 DEF LiveFineAt, LiveFine
  <2>3. frame \in LiveKinds \ {"DONE"} /\ frame # "answer"
    BY DEF LiveKinds, LiveEnding
  <2> DEFINE g == liveSent[s] \o <<frame>>
  <2>4. /\ g \in Seq(LiveKinds) /\ LiveOrderly(g) /\ Len(g) > 0 /\ g[Len(g)] = frame
        /\ frame \notin LiveEnding => LiveGoing(g)
        /\ ~LiveAnswered(g)
    <3>1. ~LiveAnswered(liveSent[s])
      BY <2>2 DEF LiveAnswered
    <3> QED
      BY <1>f, <2>2, <2>3, <3>1, LiveOneMore
  <2>5. g = <<frame>>
    BY <2>2
  <2> HIDE DEF g
  <2>6. liveSent' = [liveSent EXCEPT ![s] = g]
    BY <2>1 DEF g
  <2>7. LiveFineAt(s)'
    <3>1. LiveLine(<<>>, "none") /\ LiveLine(<<>>, "running")
      BY DEF LiveLine
    <3> QED
      BY <1>t, <2>1, <2>2, <2>4, <2>5, <2>6, <3>1
      DEF LiveTyped, LiveFineAt, LiveFine, LiveSettled, LiveEnding
  <2>8. LiveOnly(s)
    BY <1>t, <2>1 DEF LiveTyped, LiveOnly
  <2>9. LiveSlotMove(s)
    BY <1>t, <2>1 DEF LiveTyped, LiveSlotMove, LiveHolders
  <2>10. /\ liveStage' \in [LiveStreams -> LiveStages]
         /\ liveAgent' \in [LiveStreams -> LiveAgents]
         /\ liveQueue' \in [LiveStreams -> Seq(LiveEvents)]
    BY <1>t, <2>1 DEF LiveTyped, LiveStages, LiveAgents
  <2>11. liveSent' \in [LiveStreams -> Seq(LiveKinds)]
    BY <1>t, <2>4, <2>6 DEF LiveTyped
  <2> QED
    BY <2>7, <2>8, <2>9, <2>10, <2>11, LiveStreamStep
<1>2. ASSUME NEW s \in LiveStreams, LiveTaken(s) PROVE LiveInv'
  <2> USE <1>2 DEF LiveTaken, LiveGo
  <2>1. LiveFineAt(s)'
    BY <1>t, <1>f DEF LiveTyped, LiveFineAt, LiveFine
  <2>2. LiveOnly(s) /\ LiveSlotMove(s)
    BY <1>t DEF LiveTyped, LiveOnly, LiveSlotMove, LiveHolders
  <2> QED
    BY <1>t, <2>1, <2>2, LiveStreamStep DEF LiveTyped, LiveStages
<1>3. ASSUME NEW s \in LiveStreams,
             LiveIterate(s) \/ LiveConclude(s) \/ LiveRunOut(s) \/ LiveAgentEnds(s)
               \/ LiveAgentBreaks(s)
      PROVE LiveInv'
  <2>1. PICK next \in {"running", "closing", "done"}, g \in Seq(LiveEvents) :
          /\ liveAgent[s] \in {"running", "closing"}
          /\ next = "running" => liveAgent[s] = "running"
          /\ liveAgent' = [liveAgent EXCEPT ![s] = next]
          /\ liveQueue' = [liveQueue EXCEPT ![s] = g]
          /\ \/ g = liveQueue[s]
             \/ \E e \in LiveEvents :
                  /\ g = liveQueue[s] \o <<e>>
                  /\ e # "sentinel" => liveAgent[s] = "running"
                  /\ e # "iteration" => next # "running"
          /\ UNCHANGED <<liveFree, liveStage, liveSent, liveLeft>>
    <3>1. \A e \in LiveEvents : liveQueue[s] \o <<e>> \in Seq(LiveEvents)
      BY <1>f
    <3>2. liveQueue[s] \o <<>> = liveQueue[s]
      BY <1>f, ConcatEmptySeq
    <3>3. CASE LiveIterate(s)
      BY <1>f, <3>1, <3>3 DEF LiveIterate, LiveAgentPushes, LiveEvents
    <3>4. CASE LiveConclude(s)
      BY <1>f, <3>1, <3>4 DEF LiveConclude, LiveAgentPushes, LiveEvents
    <3>5. CASE LiveRunOut(s) \/ LiveAgentBreaks(s)
      BY <1>f, <3>2, <3>5 DEF LiveRunOut, LiveAgentBreaks, LiveAgentPushes
    <3>6. CASE LiveAgentEnds(s)
      BY <1>f, <3>1, <3>6 DEF LiveAgentEnds, LiveAgentPushes, LiveEvents
    <3> QED
      BY <1>3, <3>3, <3>4, <3>5, <3>6
  <2>2. LiveFine(liveStage[s], next, g, liveSent[s], s \in liveLeft)
    <3>1. PICK gone \in BOOLEAN : gone <=> s \in liveLeft
      OBVIOUS
    <3>2. LiveFine(liveStage[s], liveAgent[s], liveQueue[s], liveSent[s], gone)
      BY <1>f, <3>1 DEF LiveFineAt, LiveFine
    <3>3. LiveFine(liveStage[s], next, g, liveSent[s], gone)
      <4> DEFINE stage == liveStage[s]
                 agent == liveAgent[s]
                 q == liveQueue[s]
                 f == liveSent[s]
      <4>1. /\ stage \in LiveStages /\ agent \in {"running", "closing"}
            /\ q \in Seq(LiveEvents) /\ f \in Seq(LiveKinds)
            /\ next = "running" => agent = "running"
            /\ LiveFine(stage, agent, q, f, gone)
        BY <1>f, <2>1, <3>2
      <4>2. \/ g = q
            \/ \E e \in LiveEvents : /\ g = q \o <<e>>
                                     /\ e # "sentinel" => agent = "running"
                                     /\ e # "iteration" => next # "running"
        BY <2>1
      <4> HIDE DEF stage, agent, q, f
      <4>3. LiveFine(stage, next, q, f, gone)
        BY <4>1, LivePushIsFine
      <4>4. ASSUME NEW e \in LiveEvents,
                   e # "sentinel" => agent = "running",
                   e # "iteration" => next # "running"
            PROVE  LiveFine(stage, next, q \o <<e>>, f, gone)
        BY <4>1, <4>4, LivePushIsFine
      <4> QED
        BY <4>2, <4>3, <4>4 DEF stage, q, f
    <3> QED
      BY <3>1, <3>3 DEF LiveFine
  <2>3. LiveFineAt(s)'
    <3>1. liveAgent'[s] = next /\ liveQueue'[s] = g
      BY <1>t, <2>1 DEF LiveTyped
    <3> QED
      BY <2>1, <2>2, <3>1 DEF LiveFineAt
  <2>4. LiveOnly(s) /\ LiveSlotMove(s)
    BY <1>t, <2>1 DEF LiveTyped, LiveOnly, LiveSlotMove, LiveHolders
  <2> QED
    BY <1>t, <2>1, <2>3, <2>4, LiveStreamStep DEF LiveTyped, LiveAgents
<1>4. ASSUME NEW s \in LiveStreams, LiveAgentStops(s) PROVE LiveInv'
  <2> USE <1>4 DEF LiveAgentStops
  <2>1. LiveFineAt(s)'
    BY <1>t, <1>f DEF LiveTyped, LiveFineAt, LiveFine, LiveLine, LiveSettled
  <2>2. LiveOnly(s) /\ LiveSlotMove(s)
    BY <1>t DEF LiveTyped, LiveOnly, LiveSlotMove, LiveHolders
  <2> QED
    BY <1>t, <2>1, <2>2, LiveStreamStep DEF LiveTyped, LiveAgents
<1>5. ASSUME NEW s \in LiveStreams, LiveRead(s) PROVE LiveInv'
  <2> DEFINE e == Head(liveQueue[s])
             g == liveSent[s] \o LiveFramesOf(liveSent[s], e)
             r == Tail(liveQueue[s])
  <2>1. LiveFine("reading", liveAgent[s], liveQueue[s], liveSent[s], s \in liveLeft)
        /\ liveQueue[s] # <<>>
    BY <1>f, <1>5 DEF LiveRead, LiveFineAt
  <2>2. /\ g \in Seq(LiveKinds) /\ r \in Seq(LiveEvents) /\ e \in LiveEvents
        /\ e \notin {"failed", "sentinel"} =>
             LiveFine("reading", liveAgent[s], r, g, s \in liveLeft)
        /\ e \in {"failed", "sentinel"} =>
             \A next \in {"cancelling", "done"} : LiveFine("cleanup", next, r, g, s \in liveLeft)
    <3>1. /\ liveAgent[s] \in LiveAgents /\ liveQueue[s] \in Seq(LiveEvents)
          /\ liveSent[s] \in Seq(LiveKinds)
      BY <1>f
    <3>2. PICK gone \in BOOLEAN : gone <=> s \in liveLeft
      OBVIOUS
    <3>3. LiveFine("reading", liveAgent[s], liveQueue[s], liveSent[s], gone)
      BY <2>1, <3>1, <3>2 DEF LiveFine
    <3> DEFINE agent == liveAgent[s]
               q == liveQueue[s]
               f == liveSent[s]
    <3>4. /\ g \in Seq(LiveKinds) /\ r \in Seq(LiveEvents) /\ e \in LiveEvents
          /\ e \notin {"failed", "sentinel"} => LiveFine("reading", agent, r, g, gone)
          /\ e \in {"failed", "sentinel"} =>
               \A next \in {"cancelling", "done"} : LiveFine("cleanup", next, r, g, gone)
      <4> HIDE DEF agent, q, f
      <4> QED
        BY <2>1, <3>1, <3>3, LiveReadIsFine DEF agent, q, f
    <3> QED
      BY <3>2, <3>4 DEF LiveFine
  <2>3. LiveConcluded(s) <=> LiveAnswered(liveSent[s])
    BY <1>f DEF LiveConcluded, LiveAnswered
  <2>4. LiveFrames(s, e) = LiveFramesOf(liveSent[s], e)
    BY <2>3 DEF LiveFrames, LiveFramesOf
  <2>5. /\ liveSent' = [liveSent EXCEPT ![s] = g]
        /\ liveQueue' = [liveQueue EXCEPT ![s] = r]
        /\ UNCHANGED <<liveFree, liveLeft>>
        /\ IF e \in {"failed", "sentinel"} THEN LiveWindDown(s)
                                           ELSE UNCHANGED <<liveStage, liveAgent>>
        /\ liveStage[s] = "reading"
    BY <1>5, <2>4 DEF LiveRead, LiveYield
  <2> HIDE DEF e, g, r
  <2>6. liveAgent[s] \in {"running", "closing", "done"}
    BY <2>1 DEF LiveFine
  <2>7. PICK stage \in {"reading", "cleanup"}, next \in LiveAgents :
          /\ liveStage' = [liveStage EXCEPT ![s] = stage]
          /\ liveAgent' = [liveAgent EXCEPT ![s] = next]
          /\ LiveFine(stage, next, r, g, s \in liveLeft)
    <3>1. CASE e \in {"failed", "sentinel"}
      <4> DEFINE next == IF liveAgent[s] \in {"running", "closing"} THEN "cancelling"
                                                                   ELSE liveAgent[s]
      <4>1. next \in {"cancelling", "done"} /\ next \in LiveAgents
        BY <2>6 DEF LiveAgents
      <4>2. /\ liveStage' = [liveStage EXCEPT ![s] = "cleanup"]
            /\ liveAgent' = [liveAgent EXCEPT ![s] = next]
        BY <2>5, <3>1 DEF LiveWindDown, LiveGo
      <4>3. LiveFine("cleanup", next, r, g, s \in liveLeft)
        BY <2>2, <3>1, <4>1
      <4> QED
        BY <4>1, <4>2, <4>3
    <3>2. CASE e \notin {"failed", "sentinel"}
      <4>1. /\ liveStage' = [liveStage EXCEPT ![s] = "reading"]
            /\ liveAgent' = [liveAgent EXCEPT ![s] = liveAgent[s]]
        BY <1>t, <2>5, <3>2 DEF LiveTyped
      <4> QED
        BY <1>f, <2>2, <3>2, <4>1
    <3> QED
      BY <3>1, <3>2
  <2>8. LiveFineAt(s)'
    <3>1. /\ liveStage'[s] = stage /\ liveAgent'[s] = next
          /\ liveQueue'[s] = r /\ liveSent'[s] = g
      BY <1>t, <2>5, <2>7 DEF LiveTyped
    <3> QED
      BY <2>5, <2>7, <3>1 DEF LiveFineAt
  <2>9. LiveOnly(s) /\ LiveSlotMove(s)
    BY <1>t, <2>5, <2>7 DEF LiveTyped, LiveOnly, LiveSlotMove, LiveHolders
  <2> QED
    BY <1>t, <2>2, <2>5, <2>7, <2>8, <2>9, LiveStreamStep DEF LiveTyped, LiveStages
<1>6. ASSUME NEW s \in LiveStreams, LiveTimeout(s) \/ LiveLeave(s) PROVE LiveInv'
  <2> DEFINE next == IF liveAgent[s] \in {"running", "closing"} THEN "cancelling"
                                                               ELSE liveAgent[s]
  <2>1. /\ liveStage[s] = "reading"
        /\ liveStage' = [liveStage EXCEPT ![s] = "cleanup"]
        /\ liveAgent' = [liveAgent EXCEPT ![s] = next]
        /\ UNCHANGED <<liveFree, liveQueue>>
    BY <1>6 DEF LiveTimeout, LiveLeave, LiveWindDown, LiveGo
  <2>2. /\ LiveOrderly(liveSent[s]) /\ LiveGoing(liveSent[s])
        /\ LiveLine(liveQueue[s], liveAgent[s])
        /\ liveAgent[s] \in {"running", "closing", "done"}
    BY <1>f, <2>1 DEF LiveFineAt, LiveFine
  <2>3. next \in {"cancelling", "done"} /\ LiveLine(liveQueue[s], next)
    BY <2>2 DEF LiveLine
  <2> HIDE DEF next
  <2>4. PICK g \in Seq(LiveKinds) :
          /\ liveSent' = [liveSent EXCEPT ![s] = g]
          /\ LiveOrderly(g)
          /\ s \notin liveLeft' => Len(g) > 0 /\ g[Len(g)] \in LiveEnding
          /\ \A q \in LiveStreams \ {s} : q \in liveLeft' <=> q \in liveLeft
    <3>1. CASE LiveTimeout(s)
      <4> DEFINE g == liveSent[s] \o <<"ERROR">>
      <4>1. "ERROR" \in LiveKinds \ {"DONE"} /\ "ERROR" \in LiveEnding
        BY DEF LiveKinds, LiveEnding
      <4>2. g \in Seq(LiveKinds) /\ LiveOrderly(g) /\ Len(g) > 0 /\ g[Len(g)] \in LiveEnding
        BY <1>f, <2>2, <4>1, LiveOneMore
      <4>3. liveSent' = [liveSent EXCEPT ![s] = g] /\ UNCHANGED liveLeft
        BY <3>1 DEF LiveTimeout, LiveYield
      <4> HIDE DEF g
      <4> QED
        BY <4>2, <4>3
    <3>2. CASE LiveLeave(s)
      <4>1. liveSent' = [liveSent EXCEPT ![s] = liveSent[s]] /\ liveLeft' = liveLeft \cup {s}
        BY <1>t, <3>2 DEF LiveLeave, LiveTyped
      <4> QED
        BY <1>f, <2>2, <4>1
    <3> QED
      BY <1>6, <3>1, <3>2
  <2>5. LiveFineAt(s)'
    <3>1. /\ liveStage'[s] = "cleanup" /\ liveAgent'[s] = next
          /\ liveQueue'[s] = liveQueue[s] /\ liveSent'[s] = g
      BY <1>t, <2>1, <2>4 DEF LiveTyped
    <3> QED
      BY <2>3, <2>4, <3>1 DEF LiveFineAt, LiveFine
  <2>6. LiveOnly(s) /\ LiveSlotMove(s)
    BY <1>t, <2>1, <2>4 DEF LiveTyped, LiveOnly, LiveSlotMove, LiveHolders
  <2> QED
    BY <1>t, <2>1, <2>3, <2>4, <2>5, <2>6, LiveStreamStep DEF LiveTyped, LiveStages, LiveAgents
<1>7. ASSUME NEW s \in LiveStreams, LiveLeaveEarly(s) \/ LiveEnd(s) PROVE LiveInv'
  <2>1. /\ liveStage[s] \in {"open", "cleanup"}
        /\ liveStage[s] = "open" => liveLeft' = liveLeft \cup {s}
        /\ liveStage[s] = "cleanup" =>
             (liveAgent[s] = "done" \/ s \in liveLeft) /\ UNCHANGED liveLeft
        /\ liveFree' = liveFree + 1
        /\ liveStage' = [liveStage EXCEPT ![s] = "ended"]
        /\ UNCHANGED <<liveAgent, liveQueue, liveSent>>
    BY <1>7 DEF LiveLeaveEarly, LiveEnd, LiveGo
  <2>2. LiveFineAt(s)'
    <3>1. liveStage'[s] = "ended"
      BY <1>t, <2>1 DEF LiveTyped
    <3>2. CASE liveStage[s] = "open"
      BY <1>f, <2>1, <3>1, <3>2 DEF LiveFineAt, LiveFine
    <3>3. CASE liveStage[s] = "cleanup"
      BY <1>f, <2>1, <3>1, <3>3 DEF LiveFineAt, LiveFine
    <3> QED
      BY <2>1, <3>2, <3>3
  <2>3. LiveOnly(s) /\ LiveSlotMove(s)
    BY <1>t, <2>1 DEF LiveTyped, LiveOnly, LiveSlotMove, LiveHolders
  <2> QED
    BY <1>t, <2>1, <2>2, <2>3, LiveStreamStep DEF LiveTyped, LiveStages
<1> QED
  BY <1>0, <1>1, <1>2, <1>3, <1>4, <1>5, <1>6, <1>7 DEF LiveNext

\* No slot is lost or given back twice, a run at work has a slot or was told to
\* stop, and a stream whose client stays is well formed to its end
\* (api/routes/demo.py), for any number of streams and slots.
THEOREM LiveIsSafe ==
  LiveSpec => [](LiveSlotsConserved /\ LiveAgentsHeld /\ LiveContract)
<1>1. LiveInv => LiveSlotsConserved /\ LiveAgentsHeld /\ LiveContract
  <2> SUFFICES ASSUME LiveInv PROVE LiveAgentsHeld /\ LiveContract
    BY DEF LiveInv
  <2>1. \A s \in LiveStreams : LiveFineAt(s) /\ liveStage[s] \in LiveStages
    BY DEF LiveInv, LiveTyped
  <2>2. LiveAgentsHeld
    BY <2>1 DEF LiveAgentsHeld, LiveHolders, LiveFineAt, LiveFine, LiveStages
  <2>3. LiveContract
    <3> SUFFICES ASSUME NEW s \in LiveStreams
                 PROVE  /\ \A i \in DOMAIN liveSent[s] :
                             liveSent[s][i] \in LiveEnding => i = Len(liveSent[s])
                        /\ \A i \in DOMAIN liveSent[s] : liveSent[s][i] = "DONE" =>
                             i > 1 /\ liveSent[s][i - 1] = "session_complete"
                        /\ liveStage[s] \in {"cleanup", "ended"} /\ s \notin liveLeft =>
                             /\ liveSent[s] # <<>>
                             /\ liveSent[s][Len(liveSent[s])] \in LiveEnding
      BY DEF LiveContract
    <3>1. DOMAIN liveSent[s] = 1..Len(liveSent[s])
      BY DEF LiveInv, LiveTyped
    <3>2. Len(liveSent[s]) > 0 => liveSent[s] # <<>>
      OBVIOUS
    <3> QED
      BY <2>1, <3>1, <3>2 DEF LiveFineAt, LiveFine, LiveOrderly
  <2> QED
    BY <2>2, <2>3
<1> QED
  BY LiveStart, LiveStep, <1>1, PTL DEF LiveSpec

(***************************************************************************)
(* The handlers.  Each is a short sequence of steps, written out in the    *)
(* model: what all of them have in common is read off one by one.          *)
(***************************************************************************)
\* Checks come before deeds, and what fails as an output is the last step.
HandOrdered(steps, t) ==
  /\ \A i \in DOMAIN steps : i \in 1..5 /\ 1..i \subseteq DOMAIN steps
  /\ \A i, j \in DOMAIN steps :
       /\ steps[i].acts /\ i < j => steps[j].acts
       /\ steps[i].fails \in {"error", "output", "raise"}
       /\ (steps[i].fails = "output") <=>
            steps[i].at \in {"exit_zero", "pip_list", "files_read"} /\ t # "git_ops"
       /\ steps[i].fails = "output" => j <= i

\* Every handler is so.
LEMMA HandShapes ==
  ASSUME NEW t \in DOMAIN HandTools
  PROVE  HandOrdered(HandTools[t], t)
<1>1. t \in {"shell_exec", "read_file", "write_file", "list_directory", "http_request",
        "search_grep", "git_ops", "env_info", "remember", "mcp_tool", "skill"}
  BY DEF HandTools
<1>2. HandOrdered(ShellExec, "shell_exec")
  <2>1. DOMAIN ShellExec = 1..4
    BY DEF ShellExec
  <2>2. /\ ShellExec[1].acts = FALSE /\ ShellExec[1].fails = "error" /\ ShellExec[1].at = "sandbox"
        /\ ShellExec[2].acts = TRUE /\ ShellExec[2].fails = "error" /\ ShellExec[2].at = "spawn"
        /\ ShellExec[3].acts = TRUE /\ ShellExec[3].fails = "error" /\ ShellExec[3].at = "in_time"
        /\ ShellExec[4].acts = TRUE /\ ShellExec[4].fails = "output" /\ ShellExec[4].at = "exit_zero"
    BY DEF ShellExec, Check, Deed
  <2>3. \A i \in DOMAIN ShellExec : i = 1 \/ i = 2 \/ i = 3 \/ i = 4
    BY <2>1
  <2> QED
    BY <2>1, <2>2, <2>3 DEF HandOrdered
<1>3. HandOrdered(ReadFile, "read_file")
  <2>1. DOMAIN ReadFile = 1..3
    BY DEF ReadFile
  <2>2. /\ ReadFile[1].acts = FALSE /\ ReadFile[1].fails = "error" /\ ReadFile[1].at = "exists"
        /\ ReadFile[2].acts = FALSE /\ ReadFile[2].fails = "error" /\ ReadFile[2].at = "is_file"
        /\ ReadFile[3].acts = FALSE /\ ReadFile[3].fails = "error" /\ ReadFile[3].at = "readable"
    BY DEF ReadFile, Check, Deed
  <2>3. \A i \in DOMAIN ReadFile : i = 1 \/ i = 2 \/ i = 3
    BY <2>1
  <2> QED
    BY <2>1, <2>2, <2>3 DEF HandOrdered
<1>4. HandOrdered(WriteFile, "write_file")
  <2>1. DOMAIN WriteFile = 1..2
    BY DEF WriteFile
  <2>2. /\ WriteFile[1].acts = TRUE /\ WriteFile[1].fails = "error" /\ WriteFile[1].at = "parents"
        /\ WriteFile[2].acts = TRUE /\ WriteFile[2].fails = "error" /\ WriteFile[2].at = "write"
    BY DEF WriteFile, Check, Deed
  <2>3. \A i \in DOMAIN WriteFile : i = 1 \/ i = 2
    BY <2>1
  <2> QED
    BY <2>1, <2>2, <2>3 DEF HandOrdered
<1>5. HandOrdered(ListDirectory, "list_directory")
  <2>1. DOMAIN ListDirectory = 1..3
    BY DEF ListDirectory
  <2>2. /\ ListDirectory[1].acts = FALSE /\ ListDirectory[1].fails = "error" /\ ListDirectory[1].at = "exists"
        /\ ListDirectory[2].acts = FALSE /\ ListDirectory[2].fails = "error" /\ ListDirectory[2].at = "is_dir"
        /\ ListDirectory[3].acts = FALSE /\ ListDirectory[3].fails = "error" /\ ListDirectory[3].at = "listed"
    BY DEF ListDirectory, Check, Deed
  <2>3. \A i \in DOMAIN ListDirectory : i = 1 \/ i = 2 \/ i = 3
    BY <2>1
  <2> QED
    BY <2>1, <2>2, <2>3 DEF HandOrdered
<1>6. HandOrdered(HttpRequest, "http_request")
  <2>1. DOMAIN HttpRequest = 1..4
    BY DEF HttpRequest
  <2>2. /\ HttpRequest[1].acts = FALSE /\ HttpRequest[1].fails = "error" /\ HttpRequest[1].at = "ssrf"
        /\ HttpRequest[2].acts = FALSE /\ HttpRequest[2].fails = "error" /\ HttpRequest[2].at = "headers"
        /\ HttpRequest[3].acts = TRUE /\ HttpRequest[3].fails = "error" /\ HttpRequest[3].at = "request"
        /\ HttpRequest[4].acts = TRUE /\ HttpRequest[4].fails = "raise" /\ HttpRequest[4].at = "other_httpx_error"
    BY DEF HttpRequest, Check, Deed
  <2>3. \A i \in DOMAIN HttpRequest : i = 1 \/ i = 2 \/ i = 3 \/ i = 4
    BY <2>1
  <2> QED
    BY <2>1, <2>2, <2>3 DEF HandOrdered
<1>7. HandOrdered(SearchGrep, "search_grep")
  <2>1. DOMAIN SearchGrep = 1..5
    BY DEF SearchGrep
  <2>2. /\ SearchGrep[1].acts = FALSE /\ SearchGrep[1].fails = "error" /\ SearchGrep[1].at = "exists"
        /\ SearchGrep[2].acts = FALSE /\ SearchGrep[2].fails = "error" /\ SearchGrep[2].at = "is_dir"
        /\ SearchGrep[3].acts = FALSE /\ SearchGrep[3].fails = "error" /\ SearchGrep[3].at = "pattern"
        /\ SearchGrep[4].acts = FALSE /\ SearchGrep[4].fails = "raise" /\ SearchGrep[4].at = "walk"
        /\ SearchGrep[5].acts = FALSE /\ SearchGrep[5].fails = "output" /\ SearchGrep[5].at = "files_read"
    BY DEF SearchGrep, Check, Deed
  <2>3. \A i \in DOMAIN SearchGrep : i = 1 \/ i = 2 \/ i = 3 \/ i = 4 \/ i = 5
    BY <2>1
  <2> QED
    BY <2>1, <2>2, <2>3 DEF HandOrdered
<1>8. HandOrdered(GitOps, "git_ops")
  <2>1. DOMAIN GitOps = 1..4
    BY DEF GitOps
  <2>2. /\ GitOps[1].acts = FALSE /\ GitOps[1].fails = "error" /\ GitOps[1].at = "allowed"
        /\ GitOps[2].acts = TRUE /\ GitOps[2].fails = "error" /\ GitOps[2].at = "spawn"
        /\ GitOps[3].acts = TRUE /\ GitOps[3].fails = "error" /\ GitOps[3].at = "in_time"
        /\ GitOps[4].acts = TRUE /\ GitOps[4].fails = "error" /\ GitOps[4].at = "exit_zero"
    BY DEF GitOps, Check, Deed
  <2>3. \A i \in DOMAIN GitOps : i = 1 \/ i = 2 \/ i = 3 \/ i = 4
    BY <2>1
  <2> QED
    BY <2>1, <2>2, <2>3 DEF HandOrdered
<1>9. HandOrdered(EnvInfo, "env_info")
  <2>1. DOMAIN EnvInfo = 1..2
    BY DEF EnvInfo
  <2>2. /\ EnvInfo[1].acts = FALSE /\ EnvInfo[1].fails = "error" /\ EnvInfo[1].at = "known_query"
        /\ EnvInfo[2].acts = TRUE /\ EnvInfo[2].fails = "output" /\ EnvInfo[2].at = "pip_list"
    BY DEF EnvInfo, Check, Deed
  <2>3. \A i \in DOMAIN EnvInfo : i = 1 \/ i = 2
    BY <2>1
  <2> QED
    BY <2>1, <2>2, <2>3 DEF HandOrdered
<1>10. HandOrdered(Remember, "remember")
  <2>1. DOMAIN Remember = 1..1
    BY DEF Remember
  <2>2. /\ Remember[1].acts = TRUE /\ Remember[1].fails = "error" /\ Remember[1].at = "insert"
    BY DEF Remember, Check, Deed
  <2>3. \A i \in DOMAIN Remember : i = 1
    BY <2>1
  <2> QED
    BY <2>1, <2>2, <2>3 DEF HandOrdered
<1>11. HandOrdered(McpTool, "mcp_tool")
  <2>1. DOMAIN McpTool = 1..2
    BY DEF McpTool
  <2>2. /\ McpTool[1].acts = TRUE /\ McpTool[1].fails = "raise" /\ McpTool[1].at = "call_tool"
        /\ McpTool[2].acts = TRUE /\ McpTool[2].fails = "error" /\ McpTool[2].at = "not_is_error"
    BY DEF McpTool, Check, Deed
  <2>3. \A i \in DOMAIN McpTool : i = 1 \/ i = 2
    BY <2>1
  <2> QED
    BY <2>1, <2>2, <2>3 DEF HandOrdered
<1>12. HandOrdered(Skill, "skill")
  <2>1. DOMAIN Skill = 1..1
    BY DEF Skill
  <2>2. /\ Skill[1].acts = TRUE /\ Skill[1].fails = "error" /\ Skill[1].at = "handler"
    BY DEF Skill, Check, Deed
  <2>3. \A i \in DOMAIN Skill : i = 1
    BY <2>1
  <2> QED
    BY <2>1, <2>2, <2>3 DEF HandOrdered
<1> QED
  BY <1>1, <1>2, <1>3, <1>4, <1>5, <1>6, <1>7, <1>8, <1>9, <1>10, <1>11, <1>12 DEF HandTools

\* Of the steps that fail, one is the first.
LEMMA HandFirst ==
  ASSUME NEW call \in Calls, call.tool \in DOMAIN HandTools, Failing(call) # {}
  PROVE  /\ FirstFailing(call) \in Failing(call)
         /\ \A j \in Failing(call) : FirstFailing(call) <= j
<1>1. Failing(call) \subseteq 1..5
  BY HandShapes DEF Failing, HandOrdered
<1>2. \E i \in Failing(call) : \A j \in Failing(call) : i <= j
  <2>1. CASE 1 \in Failing(call)
    BY <1>1, <2>1
  <2>2. CASE 1 \notin Failing(call) /\ 2 \in Failing(call)
    BY <1>1, <2>2
  <2>3. CASE 1 \notin Failing(call) /\ 2 \notin Failing(call) /\ 3 \in Failing(call)
    BY <1>1, <2>3
  <2>4. CASE /\ 1 \notin Failing(call) /\ 2 \notin Failing(call) /\ 3 \notin Failing(call)
             /\ 4 \in Failing(call)
    BY <1>1, <2>4
  <2>5. CASE /\ 1 \notin Failing(call) /\ 2 \notin Failing(call) /\ 3 \notin Failing(call)
             /\ 4 \notin Failing(call)
    BY <1>1, <2>5
  <2> QED
    BY <2>1, <2>2, <2>3, <2>4, <2>5
<1> QED
  BY <1>2 DEF FirstFailing

\* A call is of a known tool, whose steps it may fail, or of none.
LEMMA CallShape ==
  ASSUME NEW call \in Calls
  PROVE  /\ call.tool \in DOMAIN HandTools =>
              call.fail \subseteq {HandTools[call.tool][i].at : i \in DOMAIN HandTools[call.tool]}
         /\ call.caller \in {"loop", "mcp_client"}
         /\ call.tool \notin DOMAIN HandTools => call.fail = {}
<1>1. CASE \E t \in DOMAIN HandTools :
             call \in [tool : {t}, raw : RawForms, caller : {"loop", "mcp_client"},
                      fail : SUBSET {HandTools[t][i].at : i \in DOMAIN HandTools[t]}]
  <2>1. PICK t \in DOMAIN HandTools :
             call \in [tool : {t}, raw : RawForms, caller : {"loop", "mcp_client"},
                      fail : SUBSET {HandTools[t][i].at : i \in DOMAIN HandTools[t]}]
    BY <1>1
  <2>2. call.tool = t /\ call.caller \in {"loop", "mcp_client"}
    BY <2>1
  <2>3. call.fail \in SUBSET {HandTools[t][i].at : i \in DOMAIN HandTools[t]}
    BY <2>1
  <2> QED
    BY <2>2, <2>3
<1>2. CASE call \in [tool : {"unheard_of"}, raw : RawForms,
                    caller : {"loop", "mcp_client"}, fail : {{}}]
  <2>1. call.tool = "unheard_of" /\ call.caller \in {"loop", "mcp_client"} /\ call.fail = {}
    BY <1>2
  <2>2. "unheard_of" \notin DOMAIN HandTools
    BY DEF HandTools
  <2> QED
    BY <2>1, <2>2
<1> QED
  BY <1>1, <1>2 DEF Calls

\* The calls that no handler sees.
HandRefused(call) ==
  \/ call.tool \notin DOMAIN HandTools
  \/ call.caller = "mcp_client" /\ call.tool \notin Exported
  \/ ParseToolArguments(call.raw) # "arguments" /\ call.tool \notin NoRequired

\* What a call is answered, in the three cases.
LEMMA AnswerCases ==
  ASSUME NEW call \in Calls
  PROVE  /\ HandRefused(call) => HandAnswered(call) = Answer("error", {})
         /\ ~HandRefused(call) /\ Failing(call) = {} =>
              HandAnswered(call) = Answer("output", DOMAIN HandTools[call.tool])
         /\ ~HandRefused(call) /\ Failing(call) # {} =>
              HandAnswered(call) =
                Answer(IF HandTools[call.tool][FirstFailing(call)].fails = "output"
                       THEN "output" ELSE "error", 1..FirstFailing(call))
<1>1. call.caller \in {"loop", "mcp_client"}
  BY CallShape
<1>2. CASE HandRefused(call)
  BY <1>1, <1>2 DEF HandRefused, HandAnswered, DispatchTool, Execute
<1>3. CASE ~HandRefused(call)
  <2>1. HandAnswered(call) =
          LET answer == RunHandler(call) IN
            IF answer.text = "raise" THEN Answer("error", answer.did) ELSE answer
    BY <1>1, <1>3 DEF HandRefused, HandAnswered, DispatchTool, Execute
  <2>2. CASE Failing(call) = {}
    BY <1>3, <2>1, <2>2 DEF RunHandler, Answer
  <2>3. CASE Failing(call) # {}
    <3>1. call.tool \in DOMAIN HandTools
      BY <1>3 DEF HandRefused
    <3>2. FirstFailing(call) \in DOMAIN HandTools[call.tool]
      BY <2>3, <3>1, HandFirst DEF Failing
    <3>3. HandTools[call.tool][FirstFailing(call)].fails \in {"error", "output", "raise"}
      BY <3>1, <3>2, HandShapes DEF HandOrdered
    <3> HIDE DEF FirstFailing
    <3> QED
      BY <1>3, <2>1, <2>3, <3>3 DEF RunHandler, Answer
  <2> QED
    BY <1>3, <2>2, <2>3
<1> QED
  BY <1>2, <1>3

\* Every answer shows what failed, and a refused call touched nothing.
LEMMA AnswersAreSound ==
  ASSUME NEW call \in Calls, handCall = call, handAnswer = HandAnswered(call)
  PROVE  HandFailureShows /\ HandRefusedUntouched /\ HandExportOnly
<1> DEFINE t == call.tool
<1> DEFINE steps == HandTools[t]
<1> DEFINE k == FirstFailing(call)
<1>1. CASE HandRefused(call)
  <2>1. handAnswer = Answer("error", {})
    BY <1>1, AnswerCases
  <2>2. handAnswer.text = "error" /\ handAnswer.did = {}
    BY <2>1 DEF Answer
  <2>3. \/ t \notin DOMAIN HandTools
        \/ call.caller = "mcp_client" /\ t \notin Exported
        \/ /\ call.raw \notin {"object", "fenced_object", "single_quoted", "trailing_comma"}
           /\ t \notin NoRequired
    BY <1>1 DEF HandRefused, ParseToolArguments
  <2> QED
    BY <2>2, <2>3 DEF HandFailureShows, HandRefusedUntouched, HandExportOnly
<1>2. CASE ~HandRefused(call)
  <2>1. /\ t \in DOMAIN HandTools
        /\ ~(call.caller = "mcp_client" /\ t \notin Exported)
        /\ ~(/\ call.raw \notin {"object", "fenced_object", "single_quoted", "trailing_comma"}
             /\ t \notin NoRequired)
    BY <1>2 DEF HandRefused, ParseToolArguments
  <2>2. call.fail \subseteq {steps[i].at : i \in DOMAIN steps}
    BY <2>1, CallShape
  <2>3. Failing(call) = {i \in DOMAIN steps : steps[i].at \in call.fail}
    BY DEF Failing
  <2>4. HandOrdered(steps, t)
    BY <2>1, HandShapes
  <2>5. HandExportOnly
    BY <2>1 DEF HandExportOnly
  <2>6. CASE Failing(call) = {}
    <3>1. handAnswer.text = "output"
      BY <1>2, <2>6, AnswerCases DEF Answer
    <3>2. call.fail = {}
      BY <2>2, <2>3, <2>6
    <3> QED
      BY <2>1, <2>5, <3>1, <3>2 DEF HandFailureShows, HandRefusedUntouched
  <2>7. CASE Failing(call) # {}
    <3>1. k \in Failing(call) /\ \A j \in Failing(call) : k <= j
      BY <2>1, <2>7, HandFirst
    <3>2. /\ handAnswer.text = IF steps[k].fails = "output" THEN "output" ELSE "error"
          /\ handAnswer.did = 1..k
      BY <1>2, <2>7, AnswerCases DEF Answer
    <3> HIDE DEF k, t, steps
    <3>3. k \in DOMAIN steps /\ steps[k].at \in call.fail
      BY <2>3, <3>1
    <3>4. k \in 1..5 /\ 1..k \subseteq DOMAIN steps
      BY <2>4, <3>3 DEF HandOrdered
    <3>5. HandRefusedUntouched
      <4>1. CASE steps[k].acts
        <5>1. k \in handAnswer.did
          BY <3>2, <3>4
        <5> QED
          BY <3>3, <4>1, <5>1 DEF HandRefusedUntouched, steps, t
      <4>2. CASE ~steps[k].acts
        <5>1. \A i \in 1..k : i < k => ~steps[i].acts
          BY <2>4, <3>3, <3>4, <4>2 DEF HandOrdered
        <5>2. \A i \in 1..k : i < k \/ i = k
          BY <3>4
        <5>3. \A i \in handAnswer.did : ~steps[i].acts
          BY <3>2, <4>2, <5>1, <5>2
        <5> QED
          BY <5>3 DEF HandRefusedUntouched, steps, t
      <4> QED
        BY <4>1, <4>2
    <3>6. handAnswer.text = "error" <=>
            \/ call.fail \ {"exit_zero", "pip_list", "files_read"} # {}
            \/ t = "git_ops" /\ call.fail # {}
      <4>1. CASE steps[k].fails = "output"
        <5>1. t # "git_ops" /\ steps[k].at \in {"exit_zero", "pip_list", "files_read"}
          BY <2>4, <3>3, <4>1 DEF HandOrdered
        <5>2. \A j \in DOMAIN steps : j <= k
          BY <2>4, <3>3, <4>1 DEF HandOrdered
        <5>3. \A j \in Failing(call) : j = k
          <6>1. TAKE j \in Failing(call)
          <6>2. j \in DOMAIN steps /\ k <= j
            BY <2>3, <3>1
          <6>3. j \in 1..5 /\ j <= k
            BY <2>4, <5>2, <6>2 DEF HandOrdered
          <6> QED
            BY <3>4, <6>2, <6>3
        <5>4. \A a \in call.fail : a = steps[k].at
          BY <2>2, <2>3, <5>3
        <5> QED
          BY <3>2, <4>1, <5>1, <5>4
      <4>2. CASE steps[k].fails # "output"
        <5>1. steps[k].at \notin {"exit_zero", "pip_list", "files_read"} \/ t = "git_ops"
          BY <2>4, <3>3, <4>2 DEF HandOrdered
        <5> QED
          BY <3>2, <3>3, <4>2, <5>1
      <4> QED
        BY <4>1, <4>2
    <3>7. handAnswer.text \in {"output", "error"}
      BY <3>2
    <3> QED
      BY <2>1, <2>5, <3>5, <3>6, <3>7 DEF HandFailureShows, t
  <2> QED
    BY <2>6, <2>7
<1> QED
  BY <1>1, <1>2

\* The page of read_file and the block around a match are what they promise.
LEMMA PageLines ==
  ASSUME NEW p \in HandPages, NEW seen,
         seen = PageRead(p.lines, p.first, p.last, p.fits),
         NEW asked, asked = {i \in 1..p.lines : /\ p.first > 0 => i >= p.first
                                                /\ p.last > 0 => i <= p.last}
  PROVE  /\ seen.lines \subseteq asked
         /\ \A i \in seen.lines, j \in asked \ seen.lines : i < j
         /\ Cardinality(seen.lines) = Smaller(Cardinality(asked), p.fits)
         /\ seen.cut <=> Cardinality(asked) > p.fits
<1> DEFINE start == Larger(p.first - 1, 0) + 1
           end == IF p.last > 0 THEN Smaller(p.last, p.lines) ELSE p.lines
           size == IF start > end THEN 0 ELSE end - start + 1
<1>1. p.lines \in Nat /\ p.first \in Int /\ p.last \in Int /\ p.fits \in Nat
  BY HandAssumption DEF HandPages
<1>2. start \in Int /\ end \in Int
  BY <1>1 DEF Larger, Smaller
<1>3. /\ asked = start..end
      /\ seen = PageOf(asked, start, p.fits)
  <2>1. asked = start..end
    BY <1>1 DEF Larger, Smaller
  <2>2. asked = IF p.first > 0 \/ p.last > 0
                THEN start..Smaller(IF p.last > 0 THEN p.last ELSE p.lines, p.lines)
                ELSE 1..p.lines
    BY <1>1, <2>1 DEF Larger, Smaller
  <2> QED
    BY <2>1, <2>2 DEF PageRead
<1> HIDE DEF start, end
<1>4. /\ seen.lines = {i \in asked : i - start < p.fits}
      /\ seen.cut <=> seen.lines # asked
  <2> DEFINE shown == {i \in asked : i - start < p.fits}
             cut == shown # asked
  <2>1. seen = [kind |-> "lines", lines |-> shown, cut |-> cut]
    BY <1>3, Zenon DEF PageOf
  <2> HIDE DEF shown, cut
  <2>2. seen.lines = shown /\ seen.cut = cut
    BY <2>1
  <2>3. cut <=> shown # asked
    BY DEF cut
  <2> QED
    BY <2>2, <2>3, Zenon DEF shown
<1>p. \A i : i \in asked <=> i \in Int /\ start <= i /\ i <= end
  BY <1>2, <1>3
<1>q. \A i : i \in seen.lines <=> i \in Int /\ start <= i /\ i <= end /\ i < start + p.fits
  <2>1. \A i : i \in seen.lines <=> i \in asked /\ i - start < p.fits
    BY <1>4, Zenon
  <2> QED
    BY <1>1, <1>2, <1>p, <2>1
<1>5. seen.lines = start..Smaller(end, start + p.fits - 1)
  <2>1. \A i : i \in start..Smaller(end, start + p.fits - 1) <=>
               i \in Int /\ start <= i /\ i <= end /\ i < start + p.fits
    BY <1>1, <1>2 DEF Smaller
  <2> QED
    BY <1>q, <2>1
<1>6. Cardinality(asked) = size
  BY <1>2, <1>3, FS_Interval
<1>7. Cardinality(seen.lines) = Smaller(size, p.fits)
  <2>1. Smaller(end, start + p.fits - 1) \in Int
    BY <1>1, <1>2 DEF Smaller
  <2>2. Cardinality(seen.lines) = IF start > Smaller(end, start + p.fits - 1) THEN 0
                                  ELSE Smaller(end, start + p.fits - 1) - start + 1
    BY <1>2, <1>5, <2>1, FS_Interval
  <2> QED
    BY <1>1, <1>2, <2>2 DEF Smaller
<1>8. seen.lines # asked <=> size > p.fits
  <2>1. CASE size > p.fits
    <3>1. start + p.fits \in asked /\ start + p.fits \notin seen.lines
      BY <1>1, <1>2, <1>p, <1>q, <2>1
    <3> QED
      BY <2>1, <3>1
  <2>2. CASE ~(size > p.fits)
    <3>1. \A i : i \in seen.lines <=> i \in asked
      BY <1>1, <1>2, <1>p, <1>q, <2>2
    <3> QED
      BY <2>2, <3>1
  <2> QED
    BY <2>1, <2>2
<1>9. \A i \in seen.lines, j \in asked \ seen.lines : i < j
  BY <1>1, <1>2, <1>p, <1>q
<1>10. seen.lines \subseteq asked
  BY <1>p, <1>q
<1> QED
  BY <1>4, <1>6, <1>7, <1>8, <1>9, <1>10

LEMMA BlockLines ==
  ASSUME NEW b \in HandBlocks
  PROVE  GrepBlock(b.lines, b.match, b.context) =
           {i \in 1..b.lines : i - b.match \in -b.context..b.context}
<1>1. PICK n \in 1..HandLines :
        b \in [kind : {"block"}, lines : {n}, match : 1..n, context : 0..HandMatches]
  BY DEF HandBlocks
<1>2. b.lines \in Nat /\ b.match \in 1..b.lines /\ b.context \in Nat
  BY <1>1, HandAssumption
<1> QED
  BY <1>2 DEF GrepBlock, Larger, Smaller

(***************************************************************************)
(* The search, line by line.                                               *)
(***************************************************************************)
\* Where the search is.
HandPlace == <<handSeen.file, handSeen.line>>

\* What the two loops of search_grep keep: the matches so far are the ones
\* before the place, in order, and no more than the cap.
HandSearching ==
  handSeen.kind = "searching" =>
    /\ handLook \in HandSearches
    /\ handSeen = [kind |-> "searching", matches |-> handSeen.matches,
                   file |-> handSeen.file, line |-> handSeen.line]
    /\ handSeen.file \in 1..(HandFiles + 1)
    /\ handSeen.line \in Nat \ {0}
    /\ handSeen.matches \in Seq(HandMatching)
    /\ Len(handSeen.matches) = Cardinality(HandBefore(HandPlace))
    /\ Len(handSeen.matches) <= handLook.max
    /\ \A i \in DOMAIN handSeen.matches :
         Cardinality(HandBefore(handSeen.matches[i])) = i - 1

\* The page or the block that is cut out.
HandCut ==
  IF handLook.kind = "page"
  THEN PageRead(handLook.lines, handLook.first, handLook.last, handLook.fits)
  ELSE [kind |-> "lines",
        lines |-> GrepBlock(handLook.lines, handLook.match, handLook.context)]

\* The inductive invariant: answers and cuts are what the operators give, and the
\* search has kept the matches before its place.
HandInv ==
  /\ handCall # HandNone => handCall \in Calls
  /\ handAnswer # HandWaiting => handCall \in Calls /\ handAnswer = HandAnswered(handCall)
  /\ handLook \in {HandNone} \cup HandPages \cup HandSearches \cup HandBlocks
  /\ handLook.kind \in {"page", "block"} =>
       handSeen \in {HandNone, HandCut}
  /\ HandSearching
  /\ GrepExact

\* What is looked at tells its kind.
LEMMA LookKinds ==
  /\ HandNone.kind = "none"
  /\ \A p \in HandPages : p.kind = "page"
  /\ \A p \in HandSearches : p.kind = "grep"
  /\ \A p \in HandBlocks : p.kind = "block"
BY DEF HandNone, HandPages, HandSearches, HandBlocks

\* The lines that match are finitely many.
LEMMA MatchingIsFinite ==
  /\ IsFiniteSet(HandMatching)
  /\ HandMatching \subseteq (1..HandFiles) \X (1..HandLines)
  /\ \A q : IsFiniteSet(HandBefore(q)) /\ HandBefore(q) \subseteq HandMatching
<1>1. HandMatching \subseteq (1..HandFiles) \X (1..HandLines)
  BY DEF HandMatching
<1>2. IsFiniteSet((1..HandFiles) \X (1..HandLines))
  <2>1. IsFiniteSet(1..HandLines) /\ IsFiniteSet(1..HandFiles)
    <3>1. 0 \in Int /\ 1 \in Int /\ HandLines \in Int /\ HandFiles \in Int
      BY HandAssumption
    <3> QED
      BY <3>1, FS_Interval
  <2> QED
    BY <2>1, FS_Product
<1>3. IsFiniteSet(HandMatching)
  BY <1>1, <1>2, FS_Subset
<1>4. \A q : HandBefore(q) \subseteq HandMatching
  BY DEF HandBefore
<1> QED
  BY <1>1, <1>3, <1>4, FS_Subset

\* What lies before the next line is what lies before this one, and this one if
\* it matches.
LEMMA NextPlace ==
  ASSUME NEW s \in HandSearches, handLook = s, NEW f \in 1..HandFiles, NEW l \in Nat \ {0},
         NEW q, q = IF l < HandLines THEN <<f, l + 1>> ELSE <<f + 1, 1>>
  PROVE  HandBefore(q) = HandBefore(<<f, l>>) \cup (HandMatching \cap {<<f, l>>})
<1>1. HandMatching \subseteq (1..HandFiles) \X (1..HandLines)
  BY MatchingIsFinite
<1>2. HandLines \in Nat /\ HandFiles \in Nat
  BY HandAssumption
<1> SUFFICES ASSUME NEW p \in HandMatching
             PROVE  p \in HandBefore(q) <=> (p \in HandBefore(<<f, l>>) \/ p = <<f, l>>)
  BY DEF HandBefore
<1>3. p = <<p[1], p[2]>> /\ p[1] \in 1..HandFiles /\ p[2] \in 1..HandLines
  BY <1>1
<1>4. p \in HandBefore(<<f, l>>) <=> (p[1] < f \/ (p[1] = f /\ p[2] < l))
  BY DEF HandBefore
<1>5. CASE l < HandLines
  <2>1. p \in HandBefore(q) <=> (p[1] < f \/ (p[1] = f /\ p[2] < l + 1))
    BY <1>5 DEF HandBefore
  <2>2. p[2] < l + 1 <=> (p[2] < l \/ p[2] = l)
    BY <1>3
  <2> QED
    BY <1>3, <1>4, <2>1, <2>2
<1>6. CASE ~(l < HandLines)
  <2>1. p \in HandBefore(q) <=> (p[1] < f + 1 \/ (p[1] = f + 1 /\ p[2] < 1))
    BY <1>6 DEF HandBefore
  <2>2. (p[1] < f + 1 \/ (p[1] = f + 1 /\ p[2] < 1)) <=>
          (p[1] < f \/ (p[1] = f /\ (p[2] < l \/ p[2] = l)))
    BY <1>2, <1>3, <1>6
  <2> QED
    BY <1>3, <1>4, <2>1, <2>2
<1> QED
  BY <1>5, <1>6

\* One line of the search: the place moves on and the line, if it matches, is kept.
LEMMA LineKept ==
  ASSUME HandInv, HandLine
  PROVE  HandSearching'
<1> DEFINE f == handSeen.file
           l == handSeen.line
           found == handSeen.matches
           M == HandMatching
           q == IF l < HandLines THEN <<f, l + 1>> ELSE <<f + 1, 1>>
           after == HandMatched
<1>1. /\ handSeen.kind = "searching" /\ f \in (1..HandFiles) \ handLook.unread
      /\ Len(found) < handLook.max
      /\ handSeen' = HandNextLine(HandMatched)
      /\ handLook' = handLook
  BY DEF HandLine
<1>2. /\ handLook \in HandSearches
      /\ handSeen = [kind |-> "searching", matches |-> found, file |-> f, line |-> l]
      /\ f \in 1..(HandFiles + 1) /\ l \in Nat \ {0}
      /\ found \in Seq(M)
      /\ Len(found) = Cardinality(HandBefore(<<f, l>>))
      /\ \A i \in DOMAIN found : Cardinality(HandBefore(found[i])) = i - 1
  BY <1>1 DEF HandInv, HandSearching, HandPlace
<1>3. f \in 1..HandFiles /\ handLook.files \in [1..HandFiles -> SUBSET (1..HandLines)]
      /\ handLook.max \in Nat /\ HandLines \in Nat
  BY <1>1, <1>2, HandAssumption DEF HandSearches
<1>4. /\ handSeen' = [kind |-> "searching", matches |-> after, file |-> q[1], line |-> q[2]]
      /\ q = <<q[1], q[2]>> /\ q[1] \in 1..(HandFiles + 1) /\ q[2] \in Nat \ {0}
  <2>1. handSeen' = [kind |-> "searching", matches |-> after, file |-> q[1], line |-> q[2]]
    BY <1>1 DEF HandNextLine
  <2>2. f + 1 \in 1..(HandFiles + 1) /\ f \in 1..(HandFiles + 1)
    BY <1>3, HandAssumption
  <2>3. l + 1 \in Nat \ {0} /\ 1 \in Nat \ {0}
    BY <1>2
  <2> QED
    BY <1>2, <2>1, <2>2, <2>3
<1>5. <<f, l>> \in M <=> l \in handLook.files[f]
  BY <1>1, <1>2, <1>3 DEF HandMatching
<1>6. HandBefore(q) = HandBefore(<<f, l>>) \cup (M \cap {<<f, l>>})
  BY <1>2, <1>3, NextPlace
<1>7. <<f, l>> \notin HandBefore(<<f, l>>)
  BY <1>2, <1>3 DEF HandBefore
<1>8. /\ HandMatching' = M
      /\ \A p : HandBefore(p)' = HandBefore(p)
  BY <1>1 DEF HandMatching, HandBefore
<1>9. /\ after \in Seq(M)
      /\ Len(after) = Cardinality(HandBefore(q))
      /\ Len(after) <= handLook.max
      /\ \A i \in DOMAIN after : Cardinality(HandBefore(after[i])) = i - 1
  <2> DEFINE before == HandBefore(<<f, l>>)
  <2>1. IsFiniteSet(before) /\ Len(found) \in Nat
    BY <1>2, MatchingIsFinite
  <2>2. CASE <<f, l>> \in M
    <3>1. after = Append(found, <<f, l>>)
      BY <1>5, <2>2 DEF HandMatched
    <3>2. HandBefore(q) = before \cup {<<f, l>>}
      BY <1>6, <2>2
    <3> HIDE DEF before, found, M, q, after
    <3>3. Cardinality(HandBefore(q)) = Len(found) + 1
      <4>1. IsFiniteSet(before) /\ <<f, l>> \notin before /\ Cardinality(before) = Len(found)
        BY <1>2, <1>7, <2>1 DEF before
      <4>2. Cardinality(before \cup {<<f, l>>}) = Cardinality(before) + 1
        BY <4>1, FS_AddElement
      <4> QED
        BY <3>2, <4>1, <4>2
    <3>4. after \in Seq(M) /\ Len(after) = Len(found) + 1
      BY <1>2, <2>2, <3>1
    <3>5. \A i \in DOMAIN after : Cardinality(HandBefore(after[i])) = i - 1
      <4>1. TAKE i \in DOMAIN after
      <4>2. CASE i \in 1..Len(found)
        <5>1. after[i] = found[i] /\ i \in DOMAIN found
          BY <1>2, <3>1, <4>2
        <5> QED
          BY <1>2, <5>1
      <4>3. CASE i = Len(found) + 1
        <5>1. after[i] = <<f, l>>
          BY <1>2, <2>2, <3>1, <4>3, AppendProperties
        <5> QED
          BY <1>2, <2>1, <4>3, <5>1
      <4> QED
        BY <2>1, <3>4, <4>1, <4>2, <4>3
    <3> QED
      BY <1>1, <1>3, <2>1, <3>3, <3>4, <3>5
  <2>3. CASE <<f, l>> \notin M
    <3>1. after = found
      BY <1>5, <2>3 DEF HandMatched
    <3>2. HandBefore(q) = before
      BY <1>6, <2>3
    <3> QED
      BY <1>1, <1>2, <1>3, <2>1, <3>1, <3>2
  <2> QED
    BY <2>2, <2>3
<1> HIDE DEF q, after
<1>10. /\ handSeen'.kind = "searching" /\ handSeen'.matches = after
       /\ handSeen'.file = q[1] /\ handSeen'.line = q[2] /\ HandPlace' = q
  BY <1>4 DEF HandPlace
<1>11. HandBefore(HandPlace)' = HandBefore(q)
  BY <1>1, <1>10 DEF HandMatching, HandBefore
<1> QED
  BY <1>1, <1>2, <1>4, <1>8, <1>9, <1>10, <1>11 DEF HandSearching

\* A file that is skipped: none of its lines is among the matching ones.
LEMMA SkipKept ==
  ASSUME HandInv, HandSkip
  PROVE  HandSearching'
<1> DEFINE f == handSeen.file
           l == handSeen.line
           found == handSeen.matches
           M == HandMatching
<1>1. /\ handSeen.kind = "searching" /\ f \in handLook.unread
      /\ handSeen' = [handSeen EXCEPT !.file = f + 1, !.line = 1]
      /\ handLook' = handLook
  BY DEF HandSkip
<1>2. /\ handLook \in HandSearches
      /\ handSeen = [kind |-> "searching", matches |-> found, file |-> f, line |-> l]
      /\ l \in Nat \ {0}
      /\ found \in Seq(M)
      /\ Len(found) = Cardinality(HandBefore(<<f, l>>))
      /\ Len(found) <= handLook.max
      /\ \A i \in DOMAIN found : Cardinality(HandBefore(found[i])) = i - 1
  BY <1>1 DEF HandInv, HandSearching, HandPlace
<1>3. f \in 1..HandFiles /\ HandFiles \in Nat
  BY <1>1, <1>2, HandAssumption DEF HandSearches
<1>4. HandBefore(<<f + 1, 1>>) = HandBefore(<<f, l>>)
  <2> SUFFICES ASSUME NEW p \in HandMatching
               PROVE  p \in HandBefore(<<f + 1, 1>>) <=> p \in HandBefore(<<f, l>>)
    BY DEF HandBefore
  <2>1. p[1] \in 1..HandFiles /\ p[2] \in 1..HandLines /\ p[1] # f
    BY <1>1 DEF HandMatching
  <2>2. p \in HandBefore(<<f, l>>) <=> p[1] < f
    BY <2>1 DEF HandBefore
  <2>3. p \in HandBefore(<<f + 1, 1>>) <=> (p[1] < f + 1 \/ (p[1] = f + 1 /\ p[2] < 1))
    BY DEF HandBefore
  <2>4. p[2] >= 1
    BY <2>1
  <2> QED
    BY <1>3, <2>1, <2>2, <2>3, <2>4
<1>5. /\ handSeen' = [kind |-> "searching", matches |-> found, file |-> f + 1, line |-> 1]
      /\ f + 1 \in 1..(HandFiles + 1) /\ 1 \in Nat \ {0}
  <2>1. handSeen' = [kind |-> "searching", matches |-> found, file |-> f + 1, line |-> 1]
    BY <1>1, <1>2
  <2> QED
    BY <1>3, <2>1
<1>6. HandMatching' = M /\ \A p : HandBefore(p)' = HandBefore(p)
  BY <1>1 DEF HandMatching, HandBefore
<1>7. /\ handSeen'.kind = "searching" /\ handSeen'.matches = found
      /\ handSeen'.file = f + 1 /\ handSeen'.line = 1 /\ HandPlace' = <<f + 1, 1>>
  BY <1>5 DEF HandPlace
<1>8. HandBefore(HandPlace)' = HandBefore(<<f, l>>)
  BY <1>1, <1>4, <1>7 DEF HandMatching, HandBefore
<1> QED
  BY <1>1, <1>2, <1>5, <1>6, <1>7, <1>8 DEF HandSearching

\* The search ends with every match, or with as many as the cap lets through.
LEMMA FoundIsExact ==
  ASSUME HandInv, HandFound
  PROVE  GrepExact'
<1> DEFINE found == handSeen.matches
           M == HandMatching
           place == <<handSeen.file, handSeen.line>>
<1>1. /\ handSeen.kind = "searching"
      /\ handSeen.file > HandFiles \/ Len(found) >= handLook.max
      /\ handSeen' = [kind |-> "matches", matches |-> found]
      /\ handLook' = handLook
  BY DEF HandFound
<1>2. /\ handLook \in HandSearches
      /\ handSeen.file \in 1..(HandFiles + 1)
      /\ found \in Seq(M)
      /\ Len(found) = Cardinality(HandBefore(place))
      /\ Len(found) <= handLook.max
      /\ \A i \in DOMAIN found : Cardinality(HandBefore(found[i])) = i - 1
  BY <1>1 DEF HandInv, HandSearching, HandPlace
<1>3. /\ handLook.max \in Nat /\ HandFiles \in Nat
      /\ M \subseteq (1..HandFiles) \X (1..HandLines)
      /\ IsFiniteSet(M) /\ Cardinality(M) \in Nat
      /\ Cardinality(HandBefore(place)) <= Cardinality(M)
  <2>1. handLook.max \in Nat /\ HandFiles \in Nat
    BY <1>2, HandAssumption DEF HandSearches
  <2>2. /\ IsFiniteSet(M) /\ HandBefore(place) \subseteq M
        /\ M \subseteq (1..HandFiles) \X (1..HandLines)
    BY MatchingIsFinite
  <2> HIDE DEF M, place
  <2> QED
    BY <2>1, <2>2, FS_CardinalityType, FS_Subset
<1>4. Len(found) = Smaller(Cardinality(M), handLook.max)
  <2>1. Len(found) \in Nat
    BY <1>2
  <2>2. CASE handSeen.file > HandFiles
    <3>1. \A p \in M : p[1] < handSeen.file
      BY <1>2, <1>3, <2>2
    <3>2. HandBefore(place) = M
      BY <3>1 DEF HandBefore
    <3> QED
      BY <1>2, <1>3, <2>1, <3>2 DEF Smaller
  <2>3. CASE Len(found) >= handLook.max
    <3> HIDE DEF found, M, place
    <3> QED
      BY <1>2, <1>3, <2>1, <2>3 DEF Smaller
  <2> QED
    BY <1>1, <2>2, <2>3
<1>5. \A i \in DOMAIN found : found[i] \in M
  BY <1>2
<1>6. HandMatching' = M /\ \A p : HandBefore(p)' = HandBefore(p)
  BY <1>1 DEF HandMatching, HandBefore
<1>7. \A i \in DOMAIN found :
        Cardinality({p \in HandMatching' : p[1] < found[i][1]
                                        \/ (p[1] = found[i][1] /\ p[2] < found[i][2])}) = i - 1
  BY <1>2, <1>6 DEF HandBefore
<1>8. handSeen'.matches = found
  BY <1>1
<1> QED
  BY <1>1, <1>4, <1>5, <1>6, <1>7, <1>8 DEF GrepExact, HandBefore

\* HandInv is inductive.
LEMMA HandInvInit == HandInit => HandInv
<1> SUFFICES ASSUME HandInit PROVE HandInv
  OBVIOUS
<1>1. handAnswer = HandWaiting /\ handSeen = HandNone /\ HandNone.kind = "none"
  BY DEF HandInit, HandNone
<1>2. /\ handCall # HandNone => handCall \in Calls
      /\ handLook \in {HandNone} \cup HandPages \cup HandSearches \cup HandBlocks
  BY DEF HandInit
<1> QED
  BY <1>1, <1>2 DEF HandInv, HandSearching, GrepExact

LEMMA HandInvKept == HandInv /\ [HandNext]_handVars => HandInv'
<1> SUFFICES ASSUME HandInv, [HandNext]_handVars PROVE HandInv'
  OBVIOUS
<1> DEFINE Answers == /\ handCall # HandNone => handCall \in Calls
                      /\ handAnswer # HandWaiting =>
                           handCall \in Calls /\ handAnswer = HandAnswered(handCall)
           Looks == handLook \in {HandNone} \cup HandPages \cup HandSearches \cup HandBlocks
           Cuts == handLook.kind \in {"page", "block"} =>
             handSeen \in {HandNone, HandCut}
<1>1. Answers /\ Looks /\ Cuts /\ HandSearching /\ GrepExact
  BY DEF HandInv
<1>2. handLook' = handLook /\ handCall' = handCall
  BY DEF HandNext, HandAnswer, HandReadPage, HandSearch, HandLine, HandSkip, HandFound,
         HandCutBlock, handVars
<1>3. Looks'
  BY <1>1, <1>2
<1>4. CASE HandAnswer
  <2>1. Answers'
    BY <1>1, <1>4 DEF HandAnswer, HandAnswered
  <2>2. handSeen' = handSeen
    BY <1>4 DEF HandAnswer
  <2>3. Cuts' /\ HandSearching' /\ GrepExact'
    BY <1>1, <1>2, <2>2
       DEF HandSearching, HandPlace, GrepExact, HandBefore, HandMatching, HandCut
  <2> QED
    BY <1>3, <2>1, <2>3 DEF HandInv
<1>5. CASE HandNext /\ ~HandAnswer
  <2>1. handAnswer' = handAnswer
    BY <1>5 DEF HandNext, HandReadPage, HandSearch, HandLine, HandSkip, HandFound, HandCutBlock
  <2>2. Answers'
    BY <1>1, <1>2, <2>1 DEF HandAnswered
  <2>3. CASE HandReadPage \/ HandCutBlock
    <3>1. /\ handSeen'.kind = "lines"
          /\ Cuts'
      BY <1>2, <2>3 DEF HandReadPage, HandCutBlock, HandCut, PageRead, PageOf
    <3> QED
      BY <1>3, <2>2, <3>1 DEF HandInv, HandSearching, GrepExact
  <2>4. CASE HandSearch
    <3>1. /\ handLook \in HandSearches
          /\ handSeen' = [kind |-> "searching", matches |-> <<>>, file |-> 1, line |-> 1]
      BY <1>1, <2>4, LookKinds DEF HandSearch
    <3>2. Cuts' /\ GrepExact'
      BY <1>2, <2>4, <3>1 DEF HandSearch, GrepExact
    <3>3. HandBefore(<<1, 1>>) = {}
      BY MatchingIsFinite DEF HandBefore
    <3>4. HandBefore(HandPlace)' = HandBefore(<<1, 1>>) /\ HandMatching' = HandMatching
      BY <1>2, <3>1 DEF HandBefore, HandMatching, HandPlace
    <3>5. handLook.max \in Nat
      BY <3>1, HandAssumption DEF HandSearches
    <3>6. /\ 1 \in 1..(HandFiles + 1) /\ 1 \in Nat \ {0}
          /\ <<>> \in Seq(HandMatching) /\ Len(<<>>) = Cardinality({}) /\ Len(<<>>) <= handLook.max
          /\ DOMAIN <<>> = {}
      BY <3>5, FS_EmptySet, HandAssumption
    <3>7. HandSearching'
      BY <1>2, <3>1, <3>3, <3>4, <3>6 DEF HandSearching
    <3> QED
      BY <1>3, <2>2, <3>2, <3>7 DEF HandInv
  <2>5. CASE HandLine
    <3>1. HandSearching'
      BY <2>5, LineKept
    <3>2. handLook \in HandSearches /\ handSeen'.kind = "searching"
      BY <1>1, <2>5 DEF HandLine, HandSearching, HandNextLine
    <3>3. Cuts' /\ GrepExact'
      BY <1>2, <3>2, LookKinds DEF GrepExact
    <3> QED
      BY <1>3, <2>2, <3>1, <3>3 DEF HandInv
  <2>6. CASE HandSkip
    <3>1. HandSearching'
      BY <2>6, SkipKept
    <3>2. handLook \in HandSearches /\ handSeen'.kind = "searching"
      BY <1>1, <2>6 DEF HandSkip, HandSearching
    <3>3. Cuts' /\ GrepExact'
      BY <1>2, <3>2, LookKinds DEF GrepExact
    <3> QED
      BY <1>3, <2>2, <3>1, <3>3 DEF HandInv
  <2>7. CASE HandFound
    <3>1. GrepExact'
      BY <2>7, FoundIsExact
    <3>2. handLook \in HandSearches /\ handSeen'.kind = "matches"
      BY <1>1, <2>7 DEF HandFound, HandSearching
    <3>3. Cuts' /\ HandSearching'
      BY <1>2, <3>2, LookKinds DEF HandSearching
    <3> QED
      BY <1>3, <2>2, <3>1, <3>3 DEF HandInv
  <2> QED
    BY <1>5, <2>3, <2>4, <2>5, <2>6, <2>7 DEF HandNext
<1>6. CASE UNCHANGED handVars
  BY <1>1, <1>3, <1>6
     DEF HandInv, handVars, HandSearching, HandPlace, GrepExact, HandBefore, HandMatching,
         HandAnswered, HandCut
<1> QED
  BY <1>4, <1>5, <1>6

\* What a caller of the tools may rely on (tools.py, server.py): whatever fails,
\* the call is answered and an error shows; a refusal touched nothing; an MCP
\* client runs only what it was given; a page is the lines asked for or says that
\* it is cut, and the matches of a search, with the lines around them, are
\* exactly those of the files that can be read, up to the cap.
THEOREM HandlersAreSound == HandSpec => []HandlersSound
<1>1. HandInv => HandlersSound
  <2> SUFFICES ASSUME HandInv PROVE HandlersSound
    OBVIOUS
  <2>1. GrepExact
    BY DEF HandInv
  <2>2. HandFailureShows /\ HandRefusedUntouched /\ HandExportOnly
    <3>1. CASE handAnswer = HandWaiting
      <4>1. handAnswer.did = {}
        BY <3>1 DEF HandWaiting, Answer
      <4> QED
        BY <3>1, <4>1 DEF HandFailureShows, HandRefusedUntouched, HandExportOnly
    <3>2. CASE handAnswer # HandWaiting
      <4>1. handCall \in Calls /\ handAnswer = HandAnswered(handCall)
        BY <3>2 DEF HandInv
      <4> QED
        BY <4>1, AnswersAreSound
    <3> QED
      BY <3>1, <3>2
  <2>3. PageExact
    <3> SUFFICES ASSUME handLook.kind = "page", handSeen # HandNone PROVE PageExact
      BY DEF PageExact
    <3>1. handLook \in HandPages
      BY LookKinds DEF HandInv
    <3>2. handSeen = PageRead(handLook.lines, handLook.first, handLook.last, handLook.fits)
      BY DEF HandInv, HandCut
    <3> QED
      BY <3>1, <3>2, PageLines DEF PageExact
  <2>4. BlockExact
    <3> SUFFICES ASSUME handLook.kind = "block", handSeen # HandNone
                 PROVE  handSeen.lines =
                          {i \in 1..handLook.lines :
                             i - handLook.match \in -handLook.context..handLook.context}
      BY DEF BlockExact
    <3>1. handLook \in HandBlocks
      BY LookKinds DEF HandInv
    <3>2. handSeen.lines = GrepBlock(handLook.lines, handLook.match, handLook.context)
      BY DEF HandInv, HandCut
    <3> QED
      BY <3>1, <3>2, BlockLines
  <2> QED
    BY <2>1, <2>2, <2>3, <2>4 DEF HandlersSound
<1> QED
  BY <1>1, HandInvInit, HandInvKept, PTL DEF HandSpec
=============================================================================
