-------------------------------- MODULE Toolbox --------------------------------
(***************************************************************************)
(* The tools of concurrent runs in one process (agent/loop.py,             *)
(* agent/tools.py, mcp_bridge/client.py): every run builds a registry of   *)
(* its own, but the sandbox the handlers read is a global that each        *)
(* registry sets anew; MCP servers add tools, and the catalog goes to the  *)
(* model once, before the loop.  A step is the code between two awaits.    *)
(***************************************************************************)
EXTENDS Naturals, FiniteSets

CONSTANTS
  ToolRuns,      \* runs of run_agent in the process
  ToolSpaces,    \* workspace directories
  ToolServers,   \* configured MCP servers, connected in the order of their numbers
  ToolExports,   \* the names a server exports
  ToolCap,       \* tool calls the loop answers per iteration (5 in the code)
  ToolTurns      \* model bound: iterations of a run

ASSUME ToolAssumption ==
  /\ ToolServers \in Nat
  /\ ToolCap \in Nat \ {0}
  /\ ToolTurns \in Nat

\* Two built-in tools stand for the eight, one of them a name that an MCP server
\* may also export; "server_tool" is a name of the servers' own.
ToolBuiltins == {"read_file", "shell_exec"}

\* Who provides a tool: a server by its number, or nobody but the process.
ToolBuiltin == 0

VARIABLES
  toolSandbox,    \* _sandbox_config: a workspace
  toolSpaceOf,    \* the workspace_dir of each run
  toolPc,         \* where each run is
  toolRegistry,   \* its registry: provider of each tool it has
  toolOffered,    \* the catalog sent to the model, likewise
  toolNext,       \* the server it connects to next
  toolStacks,     \* the servers whose stack it has open
  toolTurn,       \* iterations so far
  toolAsked,      \* calls in the assistant message
  toolAnswers,    \* of these, how many have their tool message
  toolShells,     \* commands that run: their run, their directory, last or not
  toolLast        \* history: the run that built a registry last

toolVars == <<toolSandbox, toolSpaceOf, toolPc, toolRegistry, toolOffered, toolNext,
              toolStacks, toolTurn, toolAsked, toolAnswers, toolShells,
              toolLast>>
toolLoopVars == <<toolTurn, toolAsked, toolAnswers, toolShells>>
toolBuildVars == <<toolRegistry, toolOffered, toolNext, toolStacks>>

ToolNoRun == "no run"
ToolNothing == [n \in {} |-> ToolBuiltin]
ToolWith(registry, names, provider) ==
  [n \in DOMAIN registry \cup names |-> IF n \in names THEN provider ELSE registry[n]]

ToolInit ==
  /\ toolSandbox = ToolNoRun
  /\ toolSpaceOf \in [ToolRuns -> ToolSpaces]
  /\ toolPc = [r \in ToolRuns |-> "new"]
  /\ toolRegistry = [r \in ToolRuns |-> ToolNothing]
  /\ toolOffered = [r \in ToolRuns |-> ToolNothing]
  /\ toolNext = [r \in ToolRuns |-> 1]
  /\ toolStacks = [r \in ToolRuns |-> {}]
  /\ toolTurn = [r \in ToolRuns |-> 0]
  /\ toolAsked = [r \in ToolRuns |-> 0]
  /\ toolAnswers = [r \in ToolRuns |-> 0]
  /\ toolShells = {}
  /\ toolLast = ToolNoRun

ToolGo(r, pc) == toolPc' = [toolPc EXCEPT ![r] = pc]

\* Mutated form of ToolCreateRegistry: the global is set once per process.
ToolCreateRegistryOnce(r) ==
  /\ toolPc[r] = "new"
  /\ toolSandbox' = IF toolSandbox = ToolNoRun THEN toolSpaceOf[r] ELSE toolSandbox
  /\ toolLast' = r
  /\ toolRegistry' = [toolRegistry EXCEPT ![r] = ToolWith(@, ToolBuiltins, ToolBuiltin)]
  /\ ToolGo(r, "connecting")
  /\ UNCHANGED <<toolSpaceOf, toolOffered, toolNext, toolStacks, toolLoopVars>>

\* create_default_registry.
ToolCreateRegistry(r) ==
  /\ toolPc[r] = "new"
  /\ toolSandbox' = toolSpaceOf[r]
  /\ toolLast' = r
  /\ toolRegistry' = [toolRegistry EXCEPT ![r] = ToolWith(@, ToolBuiltins, ToolBuiltin)]
  /\ ToolGo(r, "connecting")
  /\ UNCHANGED <<toolSpaceOf, toolOffered, toolNext, toolStacks, toolLoopVars>>

\* connect_mcp_server: the catalog came, and what the allowlist lets through is
\* registered over what was there; or something raised, the stack is closed and
\* the registry is as it was.
ToolConnect(r) ==
  /\ toolPc[r] = "connecting"
  /\ toolNext[r] <= ToolServers
  /\ toolNext' = [toolNext EXCEPT ![r] = @ + 1]
  /\ \/ /\ \E allowed \in SUBSET ToolExports :
             toolRegistry' = [toolRegistry EXCEPT ![r] = ToolWith(@, allowed, toolNext[r])]
        /\ toolStacks' = [toolStacks EXCEPT ![r] = @ \cup {toolNext[r]}]
     \/ UNCHANGED <<toolRegistry, toolStacks>>
  /\ UNCHANGED <<toolSandbox, toolSpaceOf, toolPc, toolOffered, toolLoopVars, toolLast>>

\* Mutated form of ToolOffer: the catalog is the one from before the servers.
ToolOfferEarly(r) ==
  /\ toolPc[r] = "connecting"
  /\ toolNext[r] > ToolServers
  /\ toolOffered' = [toolOffered EXCEPT ![r] = ToolWith(ToolNothing, ToolBuiltins, ToolBuiltin)]
  /\ ToolGo(r, "loop")
  /\ UNCHANGED <<toolSandbox, toolSpaceOf, toolRegistry, toolNext, toolStacks,
                 toolLoopVars, toolLast>>

\* to_openai_tools, once every server has been tried.
ToolOffer(r) ==
  /\ toolPc[r] = "connecting"
  /\ toolNext[r] > ToolServers
  /\ toolOffered' = [toolOffered EXCEPT ![r] = toolRegistry[r]]
  /\ ToolGo(r, "loop")
  /\ UNCHANGED <<toolSandbox, toolSpaceOf, toolRegistry, toolNext, toolStacks,
                 toolLoopVars, toolLast>>

\* The model answers with n tool calls, appended to the messages in full.
ToolAsk(r) ==
  /\ toolPc[r] = "loop"
  /\ toolTurn[r] < ToolTurns
  /\ toolTurn' = [toolTurn EXCEPT ![r] = @ + 1]
  /\ \E n \in 1..(ToolCap + 1) : toolAsked' = [toolAsked EXCEPT ![r] = n]
  /\ toolAnswers' = [toolAnswers EXCEPT ![r] = 0]
  /\ ToolGo(r, "calling")
  /\ UNCHANGED <<toolSandbox, toolSpaceOf, toolBuildVars, toolShells, toolLast>>

\* tool_calls_raw[:5].
ToolLimit(r) == IF toolAsked[r] > ToolCap THEN ToolCap ELSE toolAsked[r]
ToolAnswered(r) == toolAnswers' = [toolAnswers EXCEPT ![r] = @ + 1]

\* A call that is answered with a text: an unknown tool, an error, an output, or
\* what a live or dead server's tool gives.
ToolCall(r) ==
  /\ toolPc[r] = "calling"
  /\ toolAnswers[r] < ToolLimit(r)
  /\ ToolAnswered(r)
  /\ UNCHANGED <<toolSandbox, toolSpaceOf, toolPc, toolBuildVars, toolTurn, toolAsked,
                 toolShells, toolLast>>

\* shell_exec checks the command against the global sandbox and starts it in
\* that directory.
ToolShell(r) ==
  /\ toolPc[r] = "calling"
  /\ toolAnswers[r] < ToolLimit(r)
  /\ toolRegistry[r]["shell_exec"] = ToolBuiltin
  /\ toolShells' = toolShells \cup
       {[run |-> r, dir |-> toolSandbox, last |-> toolLast = r, awaited |-> TRUE]}
  /\ ToolGo(r, "shell")
  /\ UNCHANGED <<toolSandbox, toolSpaceOf, toolBuildVars, toolTurn, toolAsked,
                 toolAnswers, toolLast>>

\* It ends, or wait_for gives up on it and leaves the process running.
ToolShellEnds(r) ==
  /\ toolPc[r] = "shell"
  /\ LET awaited == {s \in toolShells : s.run = r /\ s.awaited} IN
       toolShells' \in {toolShells \ awaited,
                        (toolShells \ awaited) \cup {[s EXCEPT !.awaited = FALSE] : s \in awaited}}
  /\ ToolAnswered(r)
  /\ ToolGo(r, "calling")
  /\ UNCHANGED <<toolSandbox, toolSpaceOf, toolBuildVars, toolTurn, toolAsked, toolLast>>

\* Mutated form of ToolIterated: the iteration ends with the first call.
ToolIteratedAtOnce(r) ==
  /\ toolPc[r] = "calling"
  /\ toolAnswers[r] > 0
  /\ ToolGo(r, "loop")
  /\ UNCHANGED <<toolSandbox, toolSpaceOf, toolBuildVars, toolLoopVars, toolLast>>

ToolIterated(r) ==
  /\ toolPc[r] = "calling"
  /\ toolAnswers[r] = ToolLimit(r)
  /\ ToolGo(r, "loop")
  /\ UNCHANGED <<toolSandbox, toolSpaceOf, toolBuildVars, toolLoopVars, toolLast>>

\* An answer, an error of the model, the budget or max_iterations ends the
\* loop, and every stack is closed.
ToolFinish(r) ==
  /\ toolPc[r] = "loop"
  /\ toolStacks' = [toolStacks EXCEPT ![r] = {}]
  /\ ToolGo(r, "done")
  /\ UNCHANGED <<toolSandbox, toolSpaceOf, toolRegistry, toolOffered, toolNext,
                 toolLoopVars, toolLast>>

\* The caller cancels the run: no finally closes the stacks.
ToolCancel(r) ==
  /\ toolPc[r] \in {"connecting", "loop", "calling", "shell"}
  /\ ToolGo(r, "cancelled")
  /\ UNCHANGED <<toolSandbox, toolSpaceOf, toolBuildVars, toolLoopVars, toolLast>>

ToolNextStep == \E r \in ToolRuns :
  \/ ToolCreateRegistry(r)
  \/ ToolConnect(r)
  \/ ToolOffer(r)
  \/ ToolAsk(r)
  \/ ToolCall(r)
  \/ ToolShell(r)
  \/ ToolShellEnds(r)
  \/ ToolIterated(r)
  \/ ToolFinish(r)
  \/ ToolCancel(r)

ToolSpec == ToolInit /\ [][ToolNextStep]_toolVars

--------------------------------------------------------------------------------
\* What the model is offered is what the registry runs: when two providers have
\* a tool of the same name, it is called by the provider whose schema was sent,
\* and a server that could not be connected has left no tool behind.
ToolOfferedRuns == \A r \in ToolRuns :
  toolPc[r] \in {"loop", "calling", "shell"} =>
    /\ toolOffered[r] = toolRegistry[r]
    /\ \A n \in DOMAIN toolOffered[r] :
         toolOffered[r][n] \in {ToolBuiltin} \cup toolStacks[r]

\* "shell_exec commands are sandboxed" to workspace_dir (create_default_registry):
\* a run that was the last to build a registry, and so every run that is alone
\* in its process, starts its commands in its own workspace, whatever runs
\* before it left in the global.
ToolShellHome == \A s \in toolShells : s.last => s.dir = toolSpaceOf[s.run]

\* The chat protocol wants a tool message for each tool call before the next
\* request: the loop gives one, for up to the cap of calls, however they end.
ToolCallsAnswered == \A r \in ToolRuns :
  toolPc[r] = "loop" /\ toolAsked[r] <= ToolCap => toolAnswers[r] = toolAsked[r]

\* What the loop's model may rely on, of its catalog, its calls and its shell.
ToolboxSound == ToolOfferedRuns /\ ToolShellHome /\ ToolCallsAnswered
================================================================================
