----------------------------- MODULE ToolHandlers -----------------------------
(***************************************************************************)
(* One call of a tool: the loop parses the arguments the model sent        *)
(* (agent/tools.py), the registry looks the tool up and runs its handler,  *)
(* or the exported MCP server does (mcp_bridge/server.py).  A handler is   *)
(* the sequence of its steps: checks that refuse, steps that act on the    *)
(* world, and for each the way it fails.  Which steps fail is chosen       *)
(* freely.  The page of read_file and the matches of search_grep have      *)
(* behaviours of their own, against what their descriptions promise.       *)
(***************************************************************************)
EXTENDS Integers, Sequences, FiniteSets

CONSTANTS
  HandFiles,    \* model bound: files of a search
  HandLines,    \* model bound: lines of a file
  HandMatches   \* model bound: max_results and context_lines

ASSUME HandAssumption == HandFiles \in Nat /\ HandLines \in Nat /\ HandMatches \in Nat

(***************************************************************************)
(* The handlers.  A check only reads; an act may leave something behind    *)
(* even if it fails.  A step fails with an error text, with an exception,  *)
(* or, as a command's exit code does, with an output that tells.           *)
(***************************************************************************)
Check(at, fails) == [at |-> at, acts |-> FALSE, fails |-> fails]
Deed(at, fails) == [at |-> at, acts |-> TRUE, fails |-> fails]

ShellExec == <<Check("sandbox", "error"), Deed("spawn", "error"),
               Deed("in_time", "error"), Deed("exit_zero", "output")>>
ReadFile == <<Check("exists", "error"), Check("is_file", "error"), Check("readable", "error")>>
WriteFile == <<Deed("parents", "error"), Deed("write", "error")>>
ListDirectory == <<Check("exists", "error"), Check("is_dir", "error"), Check("listed", "error")>>
\* Mutated form of HttpRequest: the address is looked at after the request.
HttpRequestFirst == <<Deed("request", "error"), Check("ssrf", "error"),
                      Check("headers", "error"), Deed("other_httpx_error", "raise")>>
HttpRequest == <<Check("ssrf", "error"), Check("headers", "error"),
                 Deed("request", "error"), Deed("other_httpx_error", "raise")>>
SearchGrep == <<Check("exists", "error"), Check("is_dir", "error"),
                Check("pattern", "error"), Check("walk", "raise"), Check("files_read", "output")>>
GitOps == <<Check("allowed", "error"), Deed("spawn", "error"),
            Deed("in_time", "error"), Deed("exit_zero", "error")>>
EnvInfo == <<Check("known_query", "error"), Deed("pip_list", "output")>>
Remember == <<Deed("insert", "error")>>
McpTool == <<Deed("call_tool", "raise"), Deed("not_is_error", "error")>>
Skill == <<Deed("handler", "error")>>

HandTools ==
  [shell_exec |-> ShellExec, read_file |-> ReadFile, write_file |-> WriteFile,
   list_directory |-> ListDirectory, http_request |-> HttpRequest,
   search_grep |-> SearchGrep, git_ops |-> GitOps, env_info |-> EnvInfo,
   remember |-> Remember, mcp_tool |-> McpTool, skill |-> Skill]

\* The tools whose schema has no required argument.
NoRequired == {"list_directory", "env_info"}

\* DEFAULT_EXPORT_ALLOWLIST.
Exported == {"read_file", "list_directory", "search_grep", "git_ops", "env_info"}

(***************************************************************************)
(* Arguments as the model sends them.                                      *)
(***************************************************************************)
RawForms == {"object", "blank", "json_list", "fenced_object", "fenced_list",
             "single_quoted", "trailing_comma", "garbage"}

\* parse_tool_arguments: the object, or {} for all it cannot make one of.
ParseToolArguments(raw) ==
  IF raw \in {"object", "fenced_object", "single_quoted", "trailing_comma"}
  THEN "arguments" ELSE "none"

(***************************************************************************)
(* A call: the tool's name, the raw arguments, who calls, and the steps    *)
(* that fail.                                                              *)
(***************************************************************************)
Calls ==
  (UNION {[tool : {t}, raw : RawForms, caller : {"loop", "mcp_client"},
           fail : SUBSET {HandTools[t][i].at : i \in DOMAIN HandTools[t]}]
            : t \in DOMAIN HandTools})
  \cup [tool : {"unheard_of"}, raw : RawForms, caller : {"loop", "mcp_client"}, fail : {{}}]

Failing(call) ==
  {i \in DOMAIN HandTools[call.tool] : HandTools[call.tool][i].at \in call.fail}
FirstFailing(call) == CHOOSE i \in Failing(call) : \A j \in Failing(call) : i <= j

Answer(text, steps) == [text |-> text, did |-> steps]

\* The steps that ran, the failing one included, and the text the handler
\* leaves; an exception passes through it.
RunHandler(call) ==
  IF Failing(call) = {}
  THEN Answer("output", DOMAIN HandTools[call.tool])
  ELSE Answer(HandTools[call.tool][FirstFailing(call)].fails, 1..FirstFailing(call))

\* Mutated form of Execute: only a TypeError is caught.
ExecuteRaises(call) ==
  IF call.tool \notin DOMAIN HandTools THEN Answer("error", {})
  ELSE IF ParseToolArguments(call.raw) = "none" /\ call.tool \notin NoRequired
  THEN Answer("error", {})
  ELSE RunHandler(call)

\* ToolRegistry.execute: unknown tool, TypeError for missing arguments, any
\* other exception: each becomes an error text.
Execute(call) ==
  IF call.tool \notin DOMAIN HandTools THEN Answer("error", {})
  ELSE IF ParseToolArguments(call.raw) # "arguments" /\ call.tool \notin NoRequired
  THEN Answer("error", {})
  ELSE LET answer == RunHandler(call) IN
         IF answer.text = "raise" THEN Answer("error", answer.did) ELSE answer

\* Mutated form of DispatchTool: the allowlist only filters the catalog.
DispatchToolOpen(call) == Execute(call)

\* dispatch_tool of the MCP server.
DispatchTool(call) ==
  IF call.tool \notin Exported THEN Answer("error", {}) ELSE Execute(call)

HandAnswered(call) == IF call.caller = "loop" THEN Execute(call) ELSE DispatchTool(call)

(***************************************************************************)
(* read_file's page and the block around one of search_grep's matches, as  *)
(* sets of line numbers.  `fits` is how many whole lines of the page its   *)
(* first 20,000 characters hold; the rest is cut, and the page says so.    *)
(***************************************************************************)
Larger(a, b) == IF a > b THEN a ELSE b
Smaller(a, b) == IF a < b THEN a ELSE b

PageOf(asked, start, fits) ==
  LET shown == {i \in asked : i - start < fits}
  IN [kind |-> "lines", lines |-> shown, cut |-> shown # asked]

\* Mutated form of PageRead: the start is taken as 0-based.
PageReadFromZero(lines, first, last, fits) ==
  LET start == Larger(first, 0) + 1
  IN PageOf(IF first > 0 \/ last > 0
            THEN start..Smaller(IF last > 0 THEN last ELSE lines, lines)
            ELSE 1..lines, start, fits)

\* lines[start:end] of the code, a slice with a 0-based start, and the cut.
PageRead(lines, first, last, fits) ==
  LET start == Larger(first - 1, 0) + 1
  IN PageOf(IF first > 0 \/ last > 0
            THEN start..Smaller(IF last > 0 THEN last ELSE lines, lines)
            ELSE 1..lines, start, fits)

\* Mutated form of GrepBlock: the end of the range is the last line itself.
GrepBlockShort(lines, match, context) ==
  (Larger(0, match - 1 - context) + 1)..(Smaller(lines, match + context) - 1)

\* The block of lines around a match, range(start, end) made 1-based.
GrepBlock(lines, match, context) ==
  (Larger(0, match - 1 - context) + 1)..Smaller(lines, match + context)

(***************************************************************************)
(* One behaviour per input: a call, a page, a search or a block.           *)
(***************************************************************************)
VARIABLES
  handCall,     \* the call, or HandNone
  handAnswer,   \* its answer
  handLook,     \* what is read or searched, or HandNone
  handSeen      \* what comes back

handVars == <<handCall, handAnswer, handLook, handSeen>>

HandNone == [kind |-> "none"]
HandWaiting == Answer("waiting", {})

HandPages ==
  [kind : {"page"}, lines : 0..HandLines, first : -2..(HandLines + 1),
   last : -2..(HandLines + 1), fits : 0..HandLines]
\* files[f] is the set of the lines of file f that match; the files of `unread`
\* are not UTF-8 text or cannot be opened.
HandSearches ==
  [kind : {"grep"}, files : [1..HandFiles -> SUBSET (1..HandLines)],
   unread : SUBSET (1..HandFiles), max : 1..HandMatches]
HandBlocks ==
  UNION {[kind : {"block"}, lines : {n}, match : 1..n, context : 0..HandMatches] :
           n \in 1..HandLines}

HandInit ==
  /\ \/ handCall \in Calls /\ handLook = HandNone
     \/ handCall = HandNone /\ handLook \in HandPages \cup HandSearches \cup HandBlocks
  /\ handAnswer = HandWaiting
  /\ handSeen = HandNone

HandAnswer ==
  /\ handCall # HandNone
  /\ handAnswer = HandWaiting
  /\ handAnswer' = HandAnswered(handCall)
  /\ UNCHANGED <<handCall, handLook, handSeen>>

HandReadPage ==
  /\ handLook.kind = "page" /\ handSeen = HandNone
  /\ handSeen' = PageRead(handLook.lines, handLook.first, handLook.last, handLook.fits)
  /\ UNCHANGED <<handCall, handAnswer, handLook>>

\* The two loops of search_grep, line by line in the order of the files.
HandSearch ==
  /\ handLook.kind = "grep" /\ handSeen = HandNone
  /\ handSeen' = [kind |-> "searching", matches |-> <<>>, file |-> 1, line |-> 1]
  /\ UNCHANGED <<handCall, handAnswer, handLook>>

HandNextLine(found) ==
  [kind |-> "searching", matches |-> found,
   file |-> IF handSeen.line < HandLines THEN handSeen.file ELSE handSeen.file + 1,
   line |-> IF handSeen.line < HandLines THEN handSeen.line + 1 ELSE 1]

HandMatched ==
  IF handSeen.line \in handLook.files[handSeen.file]
  THEN Append(handSeen.matches, <<handSeen.file, handSeen.line>>)
  ELSE handSeen.matches

\* Mutated form of HandLine: the inner loop goes on after the cap.
HandLineOn ==
  /\ handSeen.kind = "searching" /\ handSeen.file \in (1..HandFiles) \ handLook.unread
  /\ handSeen' = HandNextLine(HandMatched)
  /\ UNCHANGED <<handCall, handAnswer, handLook>>

\* The cap is tested before each line.
HandLine ==
  /\ handSeen.kind = "searching" /\ handSeen.file \in (1..HandFiles) \ handLook.unread
  /\ Len(handSeen.matches) < handLook.max
  /\ handSeen' = HandNextLine(HandMatched)
  /\ UNCHANGED <<handCall, handAnswer, handLook>>

\* A binary or unreadable file is skipped without a word.
HandSkip ==
  /\ handSeen.kind = "searching" /\ handSeen.file \in handLook.unread
  /\ Len(handSeen.matches) < handLook.max
  /\ handSeen' = [handSeen EXCEPT !.file = handSeen.file + 1, !.line = 1]
  /\ UNCHANGED <<handCall, handAnswer, handLook>>

HandFound ==
  /\ handSeen.kind = "searching"
  /\ handSeen.file > HandFiles \/ Len(handSeen.matches) >= handLook.max
  /\ handSeen' = [kind |-> "matches", matches |-> handSeen.matches]
  /\ UNCHANGED <<handCall, handAnswer, handLook>>

HandCutBlock ==
  /\ handLook.kind = "block" /\ handSeen = HandNone
  /\ handSeen' = [kind |-> "lines",
                  lines |-> GrepBlock(handLook.lines, handLook.match, handLook.context)]
  /\ UNCHANGED <<handCall, handAnswer, handLook>>

HandNext ==
  \/ HandAnswer \/ HandReadPage \/ HandSearch \/ HandLine \/ HandSkip \/ HandFound
  \/ HandCutBlock
HandSpec == HandInit /\ [][HandNext]_handVars

--------------------------------------------------------------------------------
\* The loop records success as "the text does not start with Error" and
\* appends the text as the tool's answer: whatever goes wrong, the call is
\* answered, and an error is what it shows, but for the exit code of a shell
\* command, a pip that fails inside env_info, the files that a search cannot
\* read, and malformed arguments to the two tools that need none, which run on
\* their defaults.
HandFailureShows == handAnswer # HandWaiting =>
  /\ handAnswer.text \in {"output", "error"}
  /\ (handAnswer.text = "error" <=>
        \/ handCall.tool \notin DOMAIN HandTools
        \/ handCall.caller = "mcp_client" /\ handCall.tool \notin Exported
        \/ handCall.raw \notin {"object", "fenced_object", "single_quoted", "trailing_comma"}
             /\ handCall.tool \notin NoRequired
        \/ handCall.fail \ {"exit_zero", "pip_list", "files_read"} # {}
        \/ handCall.tool = "git_ops" /\ handCall.fail # {})

\* "refused WITHOUT executing" (mcp_bridge/server.py), "All commands pass
\* through the sandbox before execution" (_shell_exec): a call that a check, the
\* allowlist or its arguments refuse has done nothing to the world.
HandRefusedUntouched ==
  handAnswer # HandWaiting /\ handAnswer.text = "error" /\ handCall.tool \in DOMAIN HandTools =>
    LET steps == HandTools[handCall.tool] IN
      \/ \A i \in handAnswer.did : ~steps[i].acts
      \/ \E i \in handAnswer.did : steps[i].acts /\ steps[i].at \in handCall.fail

\* A tool that an MCP client was not given never runs a step for it.
HandExportOnly ==
  handAnswer.did # {} /\ handCall.caller = "mcp_client" => handCall.tool \in Exported

\* "First line to read (1-indexed)", "Last line to read (inclusive)": for every
\* pair of bounds, negative and crossed ones too, the page is those lines, or as
\* many of the first of them as fit, and then it says that it is cut.
PageExact ==
  handLook.kind = "page" /\ handSeen # HandNone =>
    LET asked == {i \in 1..handLook.lines : /\ handLook.first > 0 => i >= handLook.first
                                            /\ handLook.last > 0 => i <= handLook.last}
    IN /\ handSeen.lines \subseteq asked
       /\ \A i \in handSeen.lines, j \in asked \ handSeen.lines : i < j
       /\ Cardinality(handSeen.lines) = Smaller(Cardinality(asked), handLook.fits)
       /\ handSeen.cut <=> Cardinality(asked) > handLook.fits

\* The matching lines of the files that can be read.
HandMatching ==
  {p \in ((1..HandFiles) \ handLook.unread) \X (1..HandLines) : p[2] \in handLook.files[p[1]]}
HandBefore(q) == {p \in HandMatching : p[1] < q[1] \/ (p[1] = q[1] /\ p[2] < q[2])}

\* "Maximum results to return": the matches are the first max_results ones in
\* the order of file and line, none left out before the cap, of the files that
\* are text and can be opened.
GrepExact ==
  handSeen.kind = "matches" =>
    LET found == handSeen.matches
    IN /\ Len(found) = Smaller(Cardinality(HandMatching), handLook.max)
       /\ \A i \in DOMAIN found : found[i] \in HandMatching
                                 /\ Cardinality(HandBefore(found[i])) = i - 1

\* "Lines of context around matches": a block is the match with its neighbours
\* inside the file, on both sides.
BlockExact ==
  handLook.kind = "block" /\ handSeen # HandNone =>
    handSeen.lines = {i \in 1..handLook.lines :
                        i - handLook.match \in -handLook.context..handLook.context}

\* What a caller of the tools may rely on, of answers and of what they hold.
HandlersSound ==
  /\ HandFailureShows /\ HandRefusedUntouched /\ HandExportOnly
  /\ PageExact /\ GrepExact /\ BlockExact
================================================================================
