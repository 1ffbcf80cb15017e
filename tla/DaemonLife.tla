------------------------------ MODULE DaemonLife ------------------------------
(***************************************************************************)
(* The life of `silkroute daemon` processes on one machine (lifecycle.py,  *)
(* the frame of DaemonServer.run, heartbeat.py): the PID file that is to   *)
(* keep a second one out, the socket file by which clients find the first, *)
(* the heartbeat task that the shutdown waits for.  What a process does    *)
(* with its queue is Daemon's.  A step is a system call on one of the two  *)
(* files, or what lies between two of them; a process may be killed after  *)
(* any step and leaves its files.  A process is one start of the command;  *)
(* the system does not give its PID to another program.  The processes may *)
(* be of several users, who may not signal one another's.                  *)
(***************************************************************************)
EXTENDS Naturals, FiniteSets

CONSTANTS
  LifeProcs,       \* processes that run `silkroute daemon start`
  LifeNobody,      \* no process: a file that does not exist
  LifeMaySignal    \* <<p, q>>: the system lets p signal q

ASSUME LifeAssumption ==
  LifeNobody \notin LifeProcs /\ LifeMaySignal \subseteq LifeProcs \X LifeProcs

VARIABLES
  lifePid,     \* the process the PID file names
  lifeSock,    \* the process whose socket the socket file is
  lifePc,      \* where each process is
  lifeBeat,    \* the heartbeat task of each process
  lifeUnseen   \* history: a process was at the files at the same time as another,
               \* or took a live daemon that it may not signal for a dead one

lifeVars == <<lifePid, lifeSock, lifePc, lifeBeat, lifeUnseen>>

\* Stages: startup looks at the PID file, unlinks a stale one, clears the
\* socket, writes the PID, connects to Redis, listens; run waits; the shutdown
\* stops the heartbeat, drains, unlinks the PID file and the socket.
LifeStarting == {"stale", "free", "cleared", "written", "listening"}
LifeRemoving == {"unpidded"}
LifeServing == {"written", "listening", "up", "stopping", "draining"}
LifeEnded == {"new", "refused", "exited", "killed"}
LifeStages == LifeStarting \cup LifeRemoving \cup LifeServing \cup LifeEnded

LifeAlive(p) == p \in LifeProcs /\ lifePc[p] \notin LifeEnded

LifeAtFiles == {p \in LifeProcs : lifePc[p] \in LifeStarting \cup LifeRemoving}

LifeInit ==
  /\ lifePid = LifeNobody
  /\ lifeSock = LifeNobody
  /\ lifePc = [p \in LifeProcs |-> "new"]
  /\ lifeBeat = [p \in LifeProcs |-> "off"]
  /\ lifeUnseen = FALSE

LifeGo(p, stage) == lifePc' = [lifePc EXCEPT ![p] = stage]

\* os.kill(pid, 0): a process that may not be signalled counts as not running.
IsProcessRunning(p, q) == LifeAlive(q) /\ <<p, q>> \in LifeMaySignal

\* The history after p's look.
LifeOverlooks(p) ==
  \/ lifeUnseen
  \/ LifeAtFiles # {}
  \/ LifeAlive(lifePid) /\ <<p, lifePid>> \notin LifeMaySignal

\* Mutated form of LifeLook: any PID file there is taken for a stale one.
LifeLookBlind(p) ==
  /\ lifePc[p] = "new"
  /\ LifeGo(p, IF lifePid = LifeNobody THEN "free" ELSE "stale")
  /\ lifeUnseen' = LifeOverlooks(p)
  /\ UNCHANGED <<lifePid, lifeSock, lifeBeat>>

\* Mutated form of LifeLook: the socket is cleared before the PID is checked.
LifeLookClears(p) ==
  /\ lifePc[p] = "new"
  /\ LifeGo(p, IF lifePid = LifeNobody THEN "free"
               ELSE IF IsProcessRunning(p, lifePid) THEN "refused" ELSE "stale")
  /\ lifeSock' = LifeNobody
  /\ lifeUnseen' = LifeOverlooks(p)
  /\ UNCHANGED <<lifePid, lifeBeat>>

\* startup reads the PID file and signals the process it names: it is refused
\* if that one runs, as far as it can tell.
LifeLook(p) ==
  /\ lifePc[p] = "new"
  /\ LifeGo(p, IF lifePid = LifeNobody THEN "free"
               ELSE IF IsProcessRunning(p, lifePid) THEN "refused" ELSE "stale")
  /\ lifeUnseen' = LifeOverlooks(p)
  /\ UNCHANGED <<lifePid, lifeSock, lifeBeat>>

\* unlink raises if another process was faster, and the process is gone.
LifeUnlinkStale(p) ==
  /\ lifePc[p] = "stale"
  /\ LifeGo(p, IF lifePid = LifeNobody THEN "exited" ELSE "free")
  /\ lifePid' = LifeNobody
  /\ UNCHANGED <<lifeSock, lifeBeat, lifeUnseen>>

LifeClearSocket(p) ==
  /\ lifePc[p] = "free"
  /\ lifeSock' = LifeNobody
  /\ LifeGo(p, "cleared")
  /\ UNCHANGED <<lifePid, lifeBeat, lifeUnseen>>

LifeWritePid(p) ==
  /\ lifePc[p] = "cleared"
  /\ lifePid' = p
  /\ LifeGo(p, "written")
  /\ UNCHANGED <<lifeSock, lifeBeat, lifeUnseen>>

\* Redis answers and the counters are read: scheduler, heartbeat and workers
\* start.  Or it does not: the process ends before run's try block, its PID
\* file stays.
LifeConnect(p) ==
  /\ lifePc[p] = "written"
  /\ \/ LifeGo(p, "listening") /\ lifeBeat' = [lifeBeat EXCEPT ![p] = "ticking"]
     \/ LifeGo(p, "exited") /\ UNCHANGED lifeBeat
  /\ UNCHANGED <<lifePid, lifeSock, lifeUnseen>>

\* start_unix_server takes the path over, or raises into run's finally.
LifeListen(p) ==
  /\ lifePc[p] = "listening"
  /\ \/ lifeSock' = p /\ LifeGo(p, "up")
     \/ LifeGo(p, "stopping") /\ UNCHANGED lifeSock
  /\ UNCHANGED <<lifePid, lifeBeat, lifeUnseen>>

\* A Redis error in pending_count ends the heartbeat task, unseen.
LifeBeatFails(p) ==
  /\ lifePc[p] \in {"listening", "up"}
  /\ lifeBeat[p] = "ticking"
  /\ lifeBeat' = [lifeBeat EXCEPT ![p] = "failed"]
  /\ UNCHANGED <<lifePid, lifeSock, lifePc, lifeUnseen>>

LifeStopRequest(p) ==
  /\ lifePc[p] = "up"
  /\ LifeGo(p, "stopping")
  /\ UNCHANGED <<lifePid, lifeSock, lifeBeat, lifeUnseen>>

\* heartbeat.stop awaits the task: the error of one that failed comes out here,
\* and nothing after it in the finally block runs.
LifeStopBeat(p) ==
  /\ lifePc[p] = "stopping"
  /\ \/ lifeBeat[p] = "ticking" /\ LifeGo(p, "draining")
     \/ lifeBeat[p] = "failed" /\ LifeGo(p, "exited")
  /\ lifeBeat' = [lifeBeat EXCEPT ![p] = "off"]
  /\ UNCHANGED <<lifePid, lifeSock, lifeUnseen>>

\* The end of shutdown: the file goes, whoever it names.
LifeUnlinkPid(p) ==
  /\ lifePc[p] = "draining"
  /\ lifePid' = LifeNobody
  /\ LifeGo(p, "unpidded")
  /\ lifeUnseen' = (lifeUnseen \/ LifeAtFiles # {})
  /\ UNCHANGED <<lifeSock, lifeBeat>>

LifeUnlinkSocket(p) ==
  /\ lifePc[p] = "unpidded"
  /\ lifeSock' = LifeNobody
  /\ LifeGo(p, "exited")
  /\ UNCHANGED <<lifePid, lifeBeat, lifeUnseen>>

\* kill -9, or a step of the startup or the shutdown that raises (another
\* user's file cannot be removed, the directory cannot be written).
LifeKilled(p) ==
  /\ LifeAlive(p)
  /\ LifeGo(p, "killed")
  /\ UNCHANGED <<lifePid, lifeSock, lifeBeat, lifeUnseen>>

LifeStep(p) ==
  \/ LifeLook(p)
  \/ LifeUnlinkStale(p)
  \/ LifeClearSocket(p)
  \/ LifeWritePid(p)
  \/ LifeConnect(p)
  \/ LifeListen(p)
  \/ LifeBeatFails(p)
  \/ LifeStopRequest(p)
  \/ LifeStopBeat(p)
  \/ LifeUnlinkPid(p)
  \/ LifeUnlinkSocket(p)
  \/ LifeKilled(p)

LifeNext == \E p \in LifeProcs : LifeStep(p)

LifeSpec == LifeInit /\ [][LifeNext]_lifeVars

--------------------------------------------------------------------------------
LifeTypeOK ==
  /\ lifePid \in LifeProcs \cup {LifeNobody}
  /\ lifeSock \in LifeProcs \cup {LifeNobody}
  /\ lifePc \in [LifeProcs -> LifeStages]
  /\ lifeBeat \in [LifeProcs -> {"off", "ticking", "failed"}]
  /\ lifeUnseen \in BOOLEAN

\* startup "Raises PidFileError if another daemon is already running": over
\* kills, failed starts, shutdowns that break off and the files all of these
\* leave, no two daemons serve at once, unless two processes were at the files
\* at the same time (check and write of the PID file are not one step), or a
\* process met the file of a live daemon it may not signal: _is_process_running
\* answers False to PermissionError, so that another user's daemon, and its
\* socket, are cleared away as stale.
LifeOneServes ==
  ~lifeUnseen => \A p, q \in LifeProcs :
    lifePc[p] \in LifeServing /\ lifePc[q] \in LifeServing => p = q

\* A daemon that is up can be found: the PID file names it and the socket is
\* its own, under the same two premises, whatever the starts that were refused and the daemons before it did.
LifeReachable ==
  ~lifeUnseen => \A p \in LifeProcs :
    lifePc[p] = "up" => lifePid = p /\ lifeSock = p

\* What the PID file and the socket file are for: one daemon, and a way to it.
LifeSafe == LifeTypeOK /\ LifeOneServes /\ LifeReachable
================================================================================
