------------------------------- MODULE RoomHealth -------------------------------
(***************************************************************************)
(* The self-healing room: the mock device (demo/mock_epiphan_mcp.py), the  *)
(* playbook that says which action a fault calls for                       *)
(* (autoresearch/playbook.py), the research target that scores playbooks   *)
(* against fixtures (targets/room_health.py), and the executor that acts   *)
(* by them (autoresearch/heal.py).  An LLM rewrites the playbook file in   *)
(* place, as it likes within a limit of lines; research keeps what scores  *)
(* higher, or as high in fewer lines.  Meanwhile heal cycles run the file  *)
(* as it lies there, on rooms with one injected fault each and over tool   *)
(* servers that may die at any step.                                       *)
(***************************************************************************)
EXTENDS Naturals, Sequences, FiniteSets

CONSTANTS
  RoomRules,       \* the rules a playbook may hold
  RoomPlaybooks    \* the files that edits may lead to

(***************************************************************************)
(* The mock.  Its CPU load is a JSON number as it is written, for a rule's *)
(* scalar condition tells 97 from 97.0.                                    *)
(***************************************************************************)
Room(device, recorder, signal, mounted, disk, cpu) ==
  [device |-> device, recorder |-> recorder, signal |-> signal,
   mounted |-> mounted, disk |-> disk, cpu |-> cpu]

DefaultRoom == Room("online", "recording", TRUE, TRUE, 22, "22.5")

Faults == {"recorder_stopped", "signal_loss", "storage_full", "storage_unmounted",
           "device_offline", "cpu_overload"}

ResetRoom(fault) ==
  CASE fault = "recorder_stopped"  -> [DefaultRoom EXCEPT !.recorder = "stopped"]
    [] fault = "signal_loss"       -> [DefaultRoom EXCEPT !.signal = FALSE]
    [] fault = "storage_full"      -> [DefaultRoom EXCEPT !.disk = 95]
    [] fault = "storage_unmounted" ->
         [DefaultRoom EXCEPT !.mounted = FALSE, !.recorder = "stopped"]
    [] fault = "device_offline"    ->
         [DefaultRoom EXCEPT !.device = "offline", !.recorder = "stopped"]
    [] fault = "cpu_overload"      -> [DefaultRoom EXCEPT !.cpu = "97.0"]
    [] OTHER                       -> DefaultRoom

\* Mutated form of ApplyAction: remounting does not resume the recorder.
ApplyActionNoResume(room, action) ==
  CASE action = "start_recorder"    -> [room EXCEPT !.recorder = "recording"]
    [] action = "restart_input"     -> [room EXCEPT !.signal = TRUE]
    [] action = "rotate_recordings" -> [room EXCEPT !.disk = 22]
    [] action = "remount_storage"   -> [room EXCEPT !.mounted = TRUE]
    [] action = "reboot_device"     ->
         [room EXCEPT !.device = "online", !.recorder = "recording"]
    [] action = "throttle_channels" -> [room EXCEPT !.cpu = "22.5"]

ApplyAction(room, action) ==
  CASE action = "start_recorder"    -> [room EXCEPT !.recorder = "recording"]
    [] action = "restart_input"     -> [room EXCEPT !.signal = TRUE]
    [] action = "rotate_recordings" -> [room EXCEPT !.disk = 22]
    [] action = "remount_storage"   ->
         [room EXCEPT !.mounted = TRUE, !.recorder = "recording"]
    [] action = "reboot_device"     ->
         [room EXCEPT !.device = "online", !.recorder = "recording"]
    [] action = "throttle_channels" -> [room EXCEPT !.cpu = "22.5"]

\* What the read tools report of it, one call each; a call that fails reads as
\* {} and read_signals fills in the values of a healthy room.
ReadSignals(room, answered) ==
  [device   |-> IF "device" \in answered THEN room.device ELSE "online",
   recorder |-> IF "recording" \in answered THEN room.recorder ELSE "recording",
   signal   |-> IF "device" \in answered THEN room.signal ELSE TRUE,
   mounted  |-> IF "system" \in answered THEN room.mounted ELSE TRUE,
   disk     |-> IF "system" \in answered THEN room.disk ELSE 0,
   cpu      |-> IF "system" \in answered THEN room.cpu ELSE "0.0"]

ReadTools == {"device", "recording", "system"}

(***************************************************************************)
(* Rules and playbooks.  `when` gives some signals the values that satisfy *)
(* their condition; an action that is not known stands for all that makes  *)
(* a rule malformed.  A file loads as rules, as nothing (it does not       *)
(* parse, it has no list of rules), or not at all: a text that is not      *)
(* UTF-8 or an action that is a list raises in load_playbook.              *)
(***************************************************************************)
Rule(id, when, action) == [id |-> id, when |-> when, action |-> action]

File(rules, loads, lines) == [rules |-> rules, loads |-> loads, lines |-> lines]

KnownActions == {"start_recorder", "restart_input", "rotate_recordings", "remount_storage",
                 "reboot_device", "throttle_channels", "none"}

HighDisk == 90..100
HighCpu == {"97", "97.0"}

DeviceOffline == Rule("device-offline", [device |-> {"offline"}], "reboot_device")
StorageUnmounted == Rule("storage-unmounted", [mounted |-> {FALSE}], "remount_storage")
NotRecording ==
  Rule("recorder-not-recording", [device |-> {"online"}, recorder |-> {"stopped", "paused"}],
       "start_recorder")
SignalLoss == Rule("input-signal-loss", [signal |-> {FALSE}], "restart_input")
CpuOverload == Rule("cpu-overload", [cpu |-> HighCpu], "throttle_channels")
StorageFull == Rule("storage-full", [disk |-> HighDisk], "rotate_recordings")

\* remediation_rules.yaml, and the seed it grew from.
ShippedPlaybook ==
  File(<<DeviceOffline, StorageUnmounted, NotRecording, SignalLoss, CpuOverload, StorageFull>>,
       "rules", 61)
SeedPlaybook == File(<<NotRecording, SignalLoss, StorageFull>>, "rules", 46)

ASSUME RoomAssumption ==
  /\ RoomPlaybooks \subseteq
       [rules : Seq(RoomRules), loads : {"rules", "nothing", "raises"}, lines : Nat]
  /\ {SeedPlaybook, ShippedPlaybook} \subseteq RoomPlaybooks

RuleMatches(rule, signals) ==
  \A k \in DOMAIN rule.when : k \in DOMAIN signals /\ signals[k] \in rule.when[k]

\* The places of the rules that load_playbook returns: it skips malformed ones,
\* which are not clean, and neither are ids that repeat among the others.
LoadPlaybook(playbook) ==
  {i \in DOMAIN playbook.rules : /\ playbook.loads = "rules"
                                 /\ playbook.rules[i].action \in KnownActions}
LintClean(playbook) ==
  /\ playbook.loads = "rules"
  /\ LoadPlaybook(playbook) = DOMAIN playbook.rules
  /\ \A i, j \in DOMAIN playbook.rules : playbook.rules[i].id = playbook.rules[j].id => i = j

\* The place of the first rule that matches, or 0.
DecidingRule(playbook, signals) ==
  LET matching == {i \in LoadPlaybook(playbook) : RuleMatches(playbook.rules[i], signals)}
  IN IF matching = {} THEN 0 ELSE CHOOSE i \in matching : \A j \in matching : i <= j

DecideAction(playbook, signals) ==
  LET i == DecidingRule(playbook, signals) IN IF i = 0 THEN "none" ELSE playbook.rules[i].action

(***************************************************************************)
(* RoomHealthTarget: the fixtures, and the score in parts of 1/630.        *)
(***************************************************************************)
Scenario(fault, expected, signals) ==
  [fault |-> fault, expected |-> expected, signals |-> signals]

RecorderStopped ==
  Scenario("recorder_stopped", "start_recorder", Room("online", "stopped", TRUE, TRUE, 40, "20"))
RecorderPaused ==
  Scenario("recorder_stopped", "start_recorder", Room("online", "paused", TRUE, TRUE, 40, "20"))
SignalLost ==
  Scenario("signal_loss", "restart_input", Room("online", "recording", FALSE, TRUE, 40, "25"))
StorageAt95 ==
  Scenario("storage_full", "rotate_recordings", Room("online", "recording", TRUE, TRUE, 95, "30"))
StorageAt90 ==
  Scenario("storage_full", "rotate_recordings", Room("online", "recording", TRUE, TRUE, 90, "30"))
Unmounted ==
  Scenario("storage_unmounted", "remount_storage", Room("online", "stopped", TRUE, FALSE, 0, "20"))
Offline ==
  Scenario("device_offline", "reboot_device", Room("offline", "stopped", FALSE, FALSE, 0, "0"))
Overloaded ==
  Scenario("cpu_overload", "throttle_channels", Room("online", "recording", TRUE, TRUE, 50, "97"))
Healthy == Scenario("healthy", "none", Room("online", "recording", TRUE, TRUE, 40, "22"))

Scenarios == {RecorderStopped, RecorderPaused, SignalLost, StorageAt95, StorageAt90,
              Unmounted, Offline, Overloaded, Healthy}

Remediated(playbook) ==
  {s \in Scenarios : DecideAction(playbook, s.signals) = s.expected}
FaultTypes(scenarios) == {s.fault : s \in scenarios}

\* 0.6 of 9 scenarios, 0.3 of 7 fault types, 0.1 for the lint.
Score(playbook) ==
  42 * Cardinality(Remediated(playbook))
    + 27 * Cardinality(FaultTypes(Remediated(playbook)))
    + IF LintClean(playbook) THEN 63 ELSE 0

\* detect_fault, the ground truth the playbook does not see.
DetectFault(signals) ==
  IF signals.device # "online" THEN "device_offline"
  ELSE IF ~signals.mounted THEN "storage_unmounted"
  ELSE IF signals.disk >= 90 THEN "storage_full"
  ELSE IF ~signals.signal THEN "signal_loss"
  ELSE IF signals.cpu \in HighCpu THEN "cpu_overload"
  ELSE IF signals.recorder # "recording" THEN "recorder_stopped"
  ELSE "none"

(***************************************************************************)
(* The state: the playbook file, and one heal cycle at a time.             *)
(***************************************************************************)
VARIABLES
  file,        \* the playbook file
  baseline,    \* the playbook research has kept
  room,        \* the mock's _ROOM, in a process of its own per cycle
  alive,       \* that process answers its tools
  heal         \* the cycle: its step, what it found and chose; `sure` is history

roomVars == <<file, baseline, room, alive, heal>>

NoHeal == [step |-> "none", fault |-> "none", action |-> "none", outcome |-> "none",
           sure |-> FALSE]

RoomInit ==
  /\ baseline \in {SeedPlaybook, ShippedPlaybook}
  /\ file = baseline
  /\ room = DefaultRoom
  /\ alive = FALSE
  /\ heal = NoHeal

(***************************************************************************)
(* Research on the playbook (ResearchEngine has the steps in between, the  *)
(* cache of the evaluation, and the failures that leave a candidate in the *)
(* file or take a kept commit back).                                       *)
(***************************************************************************)
MaxDiffLines == 40

\* |new - old| + max(new, old) lines of the fragment that is replaced, which
\* may be the whole file.
WithinDiff(candidate) ==
  /\ 2 * (candidate.lines - baseline.lines) <= MaxDiffLines
  /\ 2 * (baseline.lines - candidate.lines) <= MaxDiffLines

WriteCandidate ==
  /\ file = baseline
  /\ \E candidate \in RoomPlaybooks \ {baseline} :
       WithinDiff(candidate) /\ file' = candidate
  /\ UNCHANGED <<baseline, room, alive, heal>>

\* Mutated form of ShouldKeep: the operands are exchanged.
ShouldKeepSwapped(candidate, kept) ==
  \/ Score(candidate) < Score(kept)
  \/ Score(candidate) = Score(kept) /\ candidate.lines < kept.lines

\* A better score, or the same one in fewer lines.
ShouldKeep(candidate, kept) ==
  \/ Score(candidate) > Score(kept)
  \/ Score(candidate) = Score(kept) /\ candidate.lines < kept.lines

Judge ==
  /\ file # baseline /\ file.loads # "raises"
  /\ IF ShouldKeep(file, baseline)
     THEN baseline' = file /\ UNCHANGED file
     ELSE file' = baseline /\ UNCHANGED baseline
  /\ UNCHANGED <<room, alive, heal>>

\* The evaluation raises, or git or the ledger does: the candidate goes.
ExperimentFails ==
  /\ file # baseline
  /\ file' = baseline
  /\ UNCHANGED <<baseline, room, alive, heal>>

(***************************************************************************)
(* heal_with_mock: spawn the mock with a fault, run heal_room, tear down.  *)
(***************************************************************************)
SpawnMock ==
  /\ heal.step \in {"none", "done"}
  /\ \E fault \in Faults \cup {"none"} : room' = ResetRoom(fault)
  /\ alive' = TRUE
  /\ heal' = [NoHeal EXCEPT !.step = "read"]
  /\ UNCHANGED <<file, baseline>>

\* The process dies between two calls.
MockDies ==
  /\ alive
  /\ alive' = FALSE
  /\ UNCHANGED <<file, baseline, room, heal>>

\* The calls of read_signals that were answered: all, or those before a death.
Answered == IF alive THEN {ReadTools}
            ELSE {{}, {"device"}, {"device", "recording"}}

\* One of the fault's fixtures passes, by the rule that decides here.
FixtureTells(fault, signals) ==
  \E s \in Remediated(file) :
    s.fault = fault /\ DecidingRule(file, s.signals) = DecidingRule(file, signals)

\* What heal_room does with the signals it read.
HealFrom(signals) ==
  LET fault == DetectFault(signals)
      action == DecideAction(file, signals)
      step == IF fault = "none" \/ file.loads = "raises" \/ action = "none" THEN "done" ELSE "act"
  IN [step |-> step, fault |-> fault,
      action |-> IF step = "act" THEN action ELSE "none",
      outcome |-> CASE fault = "none" -> "healthy"
                    [] fault # "none" /\ file.loads = "raises" -> "raised"
                    [] fault # "none" /\ file.loads # "raises" /\ action = "none" -> "unhandled"
                    [] OTHER -> "none",
      sure |-> FixtureTells(fault, signals)]

\* The playbook is loaded after the room was read: the file of that moment.
Detect ==
  /\ heal.step = "read"
  /\ \E answered \in Answered : heal' = HealFrom(ReadSignals(room, answered))
  /\ UNCHANGED <<file, baseline, room, alive>>

\* A dead server's action tool returns an error text that nobody looks at.
Act ==
  /\ heal.step = "act"
  /\ room' = IF alive THEN ApplyAction(room, heal.action) ELSE room
  /\ heal' = [heal EXCEPT !.step = "verify"]
  /\ UNCHANGED <<file, baseline, alive>>

EndHeal(outcome) == heal' = [heal EXCEPT !.step = "done", !.outcome = outcome]

\* Mutated form of Verify: the re-read is trusted to show what was done.
VerifyBlind ==
  /\ heal.step = "verify"
  /\ EndHeal("healed")
  /\ UNCHANGED <<file, baseline, room, alive>>

Verify ==
  /\ heal.step = "verify"
  /\ \E answered \in Answered :
       EndHeal(IF DetectFault(ReadSignals(room, answered)) = "none" THEN "healed" ELSE "unhandled")
  /\ UNCHANGED <<file, baseline, room, alive>>

RoomNext ==
  \/ WriteCandidate
  \/ Judge
  \/ ExperimentFails
  \/ SpawnMock
  \/ MockDies
  \/ Detect
  \/ Act
  \/ Verify

RoomSpec == RoomInit /\ [][RoomNext]_roomVars

(***************************************************************************)
(* What healing promises.                                                  *)
(***************************************************************************)
\* HealResult.verified is "room healthy after the action" (heal.py:62).
VerifiedMeansHealthy == heal.outcome \in {"healed", "healthy"} => DetectFault(room) = "none"

\* It is, as long as the tool server answers: an action that did not take, or
\* took away the wrong fault, is never reported as healed, whatever the file
\* said when it was read.
HealedMeansHealthy == alive => VerifiedMeansHealthy

\* The same engine scores and acts, so that the executor heals "using exactly
\* the logic the autoresearch loop optimized" (playbook.py): a fault of the mock
\* is cured in one cycle by every playbook, a candidate too, with which one of
\* the fault's fixtures passes by the rule that decides in the mock's room,
\* although fixtures and mock break rooms differently.  (A fixture that passes
\* by another rule promises nothing: a rule narrowed to the fixture's other
\* signals scores as high and does not match the mock's room.)
PassedIsCured == alive /\ heal.outcome = "unhandled" => ~heal.sure

\* What the repair of the lint, worth 63 points, may cost: one scenario.
LintTrade ==
  IF LintClean(baseline') /\ ~LintClean(baseline) THEN 1 ELSE 0

\* "keeps changes that remediate more faults" (targets/room_health.py): though
\* the score weighs scenarios, fault types and lint, a playbook that is kept
\* remediates no fewer scenarios than the one before it, or one fewer when it
\* repairs the lint, whatever the LLM wrote.
KeptRemediates ==
  [][baseline' # baseline =>
       Cardinality(Remediated(baseline')) + LintTrade >= Cardinality(Remediated(baseline))]_roomVars

\* Healing's promise, of what it reports and of what research may do to it.
HealingSound == [](HealedMeansHealthy /\ PassedIsCured) /\ KeptRemediates
================================================================================
