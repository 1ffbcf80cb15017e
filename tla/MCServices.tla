------------------------------ MODULE MCServices ------------------------------
(***************************************************************************)
(* The research engine and the components around the daemon, the           *)
(* supervisor and the agent loop, for TLC.  They share no state: a         *)
(* behaviour is one of a single component, which `running` names, while    *)
(* the others stay as they were parked.                                    *)
(***************************************************************************)
EXTENDS ResearchEngine, ModelRouter, RoomHealth, ContextStore, Migrations, DaemonLife,
        ToolHandlers, Toolbox, Decompose, Ralph, CostBooks, Memories

VARIABLE running

Parts == {"research", "router", "room", "context", "migrations", "life", "handlers",
          "toolbox", "decompose", "ralph", "books", "memories"}

servicesVars == <<running, vars, routeVars, roomVars, ctxVars, migVars, lifeVars,
                  handVars, toolVars, decVars, ralphVars, bookVars, memVars>>

OneSpace == [r \in ToolRuns |-> CHOOSE s \in ToolSpaces : TRUE]

\* The components with inputs of their own are parked with one, or with none;
\* the others begin in one state.
ServicesInit ==
  /\ running \in Parts
  /\ Init /\ RouteInit /\ RoomInit /\ CtxInit /\ MigInit /\ LifeInit /\ BookInit /\ MemInit
  /\ (running # "room" => baseline = SeedPlaybook)
  /\ IF running = "handlers" THEN HandInit
     ELSE /\ handCall = HandNone /\ handLook = HandNone
          /\ handAnswer = HandWaiting /\ handSeen = HandNone
  /\ ToolInit /\ (running # "toolbox" => toolSpaceOf = OneSpace)
  /\ IF running = "decompose" THEN DecInit
     ELSE /\ decText = <<DecWord>> /\ decPlan = DecNoPlan /\ decCache = <<>>
          /\ decOrder = {} /\ decUsed = {} /\ decLast = {}
  /\ RalphInit /\ (running # "ralph" => ralphDb)

Parked(part) ==
  /\ UNCHANGED running
  /\ IF part = "research" THEN TRUE ELSE UNCHANGED vars
  /\ IF part = "router" THEN TRUE ELSE UNCHANGED routeVars
  /\ IF part = "room" THEN TRUE ELSE UNCHANGED roomVars
  /\ IF part = "context" THEN TRUE ELSE UNCHANGED ctxVars
  /\ IF part = "migrations" THEN TRUE ELSE UNCHANGED migVars
  /\ IF part = "life" THEN TRUE ELSE UNCHANGED lifeVars
  /\ IF part = "handlers" THEN TRUE ELSE UNCHANGED handVars
  /\ IF part = "toolbox" THEN TRUE ELSE UNCHANGED toolVars
  /\ IF part = "decompose" THEN TRUE ELSE UNCHANGED decVars
  /\ IF part = "ralph" THEN TRUE ELSE UNCHANGED ralphVars
  /\ IF part = "books" THEN TRUE ELSE UNCHANGED bookVars
  /\ IF part = "memories" THEN TRUE ELSE UNCHANGED memVars

ServicesNext ==
  \/ running = "research" /\ Next /\ Parked("research")
  \/ running = "router" /\ RouteNext /\ Parked("router")
  \/ running = "room" /\ RoomNext /\ Parked("room")
  \/ running = "context" /\ CtxNext /\ Parked("context")
  \/ running = "migrations" /\ MigNext /\ Parked("migrations")
  \/ running = "life" /\ LifeNext /\ Parked("life")
  \/ running = "handlers" /\ HandNext /\ Parked("handlers")
  \/ running = "toolbox" /\ ToolNextStep /\ Parked("toolbox")
  \/ running = "decompose" /\ DecNext /\ Parked("decompose")
  \/ running = "ralph" /\ RalphNext /\ Parked("ralph")
  \/ running = "books" /\ BookNext /\ Parked("books")
  \/ running = "memories" /\ MemNext /\ Parked("memories")

\* Only the engine is due to move; nothing that is parked is.
ServicesSpec ==
  /\ ServicesInit
  /\ [][ServicesNext]_servicesVars
  /\ WF_vars(running = "research" /\ EngineStep)

\* One of three daemons is another user's.
CONSTANTS d1, d2, d3
SameUser == {d1, d2} \X {d1, d2} \cup {<<d3, d3>>}

LlmReplies == {<<>>, <<{}, {1, 3}, {3}>>, <<{1}, {1}, {2}, {3}, {4, 6}, {5}>>}
TwoModels == [m |-> "free", n |-> "premium"]
CutTexts == [a |-> "a", c |-> "c", longC |-> "c"]
TextTokens == [a |-> 1, c |-> 3]

\* Rules an LLM may write: narrowed to a fixture, to a scalar, for any room, for
\* none, with an unknown action, under another rule's id.
OfflineUnmounted ==
  Rule("device-offline", [device |-> {"offline"}, mounted |-> {FALSE}], "reboot_device")
FullAt95 == Rule("storage-full", [disk |-> {95}], "rotate_recordings")
CpuAt97 == Rule("cpu-overload", [cpu |-> {"97"}], "throttle_channels")
AnyRoom == Rule("any-room", << >>, "reboot_device")
NoRoom == Rule("no-room", [temperature |-> {90}], "throttle_channels")
BadRule == Rule("power-cycle", [device |-> {"offline"}], "power_cycle")
RepeatedId == [SignalLoss EXCEPT !.id = "storage-full"]

WrittenRules ==
  {DeviceOffline, StorageUnmounted, NotRecording, SignalLoss, CpuOverload, StorageFull,
   OfflineUnmounted, FullAt95, CpuAt97, AnyRoom, NoRoom, BadRule, RepeatedId}

\* Files they may lead to: the first or last rule of the shipped one rewritten;
\* growing, narrowed, out of order, broken, repaired ones.
WrittenPlaybooks ==
  LET shipped == ShippedPlaybook.rules
  IN {File([shipped EXCEPT ![i] = r], "rules", 60) :
        i \in {1, 6}, r \in {OfflineUnmounted, FullAt95, NoRoom, AnyRoom, BadRule}}
     \cup
     {SeedPlaybook, ShippedPlaybook,
      File(Append(SeedPlaybook.rules, CpuOverload), "rules", 51),
      File(Append(SeedPlaybook.rules, RepeatedId), "rules", 51),
      File(<<NotRecording, SignalLoss, FullAt95, BadRule>>, "rules", 50),
      File(<<NotRecording, StorageUnmounted, SignalLoss, DeviceOffline, StorageFull>>, "rules", 56),
      File([shipped EXCEPT ![5] = CpuAt97, ![6] = FullAt95], "rules", 62),
      File(<<BadRule>> \o shipped, "rules", 66),
      File(<<AnyRoom>> \o shipped, "rules", 65),
      File(Append(shipped, NoRoom), "rules", 40),
      File(SeedPlaybook.rules, "rules", 20),
      File(<< >>, "rules", 31),
      File(<< >>, "nothing", 61),
      File(<< >>, "raises", 61)}
===============================================================================
