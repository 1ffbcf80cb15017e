---------------------------- MODULE ResearchEngine ----------------------------
(***************************************************************************)
(* autoresearch/engine.py: experiments on a git branch.  An experiment     *)
(* edits a file, commits, evaluates, and keeps the commit or resets it;    *)
(* the ledger gets a row, the memory store a line.  The git commands and   *)
(* the ledger are synchronous, so a step is the code between two awaits    *)
(* (the LLM, the evaluation, the memory write): a timeout strikes only     *)
(* there.  A kill strikes there too, and inside the commit.                *)
(*                                                                         *)
(* An experiment's edit is its number; a tree is the set of edits it has.  *)
(* Scores are left out: whether a candidate is kept is a free choice.      *)
(* MaxSessions and MaxGitErrors bound the model only.                      *)
(***************************************************************************)
EXTENDS Naturals, Sequences, SequencesExt

CONSTANTS
  MaxExperiments,  \* --max-experiments, of each session
  MemoryEnabled,   \* a memory store is configured and was reachable
  MaxCrashesInRow, \* _MAX_CONSECUTIVE_CRASHES
  MaxSessions,     \* model bound: runs of the engine, one after the other
  MaxGitErrors     \* model bound: git commands that fail

ASSUME ResearchAssumption ==
  /\ MaxExperiments \in Nat \ {0}
  /\ MemoryEnabled \in BOOLEAN
  /\ MaxCrashesInRow \in Nat \ {0}
  /\ MaxSessions \in Nat
  /\ MaxGitErrors \in Nat

Experiment == 1..(MaxSessions * MaxExperiments)

VARIABLES
  branch,      \* the commits of the branch, each [id, edits]; HEAD is the last
  staged,      \* edits in git's index and in no commit
  unstaged,    \* edits in the files only
  ledger,      \* results.tsv: rows [exp, status]
  pc,          \* where run is
  pending,     \* _pending_commit, 0 for None
  cache,       \* the tree the target's cached evaluation is of, or Cold
  crashRow,    \* _consecutive_crashes
  count,       \* _experiment_count
  stopping,    \* _should_stop
  made,        \* experiments so far, over all sessions
  base,        \* history: how long the branch was when this session began
  sessions,    \* sessions so far
  gitErrors    \* failed git commands so far

gitVars == <<branch, staged, unstaged>>
engineVars == <<pc, pending, cache, crashRow, count, stopping>>
boundVars == <<made, base, sessions, gitErrors>>
vars == <<gitVars, ledger, engineVars, boundVars>>

Cold == {0}
Root == [id |-> 0, edits |-> {}]
Tip == Last(branch)
Tree == (UNION {branch[i].edits : i \in DOMAIN branch}) \cup staged \cup unstaged
OnBranch == {branch[i].id : i \in DOMAIN branch}
Kept == {ledger[i].exp : i \in {j \in DOMAIN ledger : ledger[j].status = "keep"}}

Init ==
  /\ branch = <<Root>>
  /\ staged = {}
  /\ unstaged = {}
  /\ ledger = <<>>
  /\ pc = "down"
  /\ pending = 0
  /\ cache = Cold
  /\ crashRow = 0
  /\ count = 0
  /\ stopping = FALSE
  /\ made = 0
  /\ base = 1
  /\ sessions = 0
  /\ gitErrors = 0

-------------------------------------------------------------------------------
(***************************************************************************)
(* git and the ledger.                                                     *)
(***************************************************************************)
Row(status) == ledger' = Append(ledger, [exp |-> made, status |-> status])

\* git reset --hard HEAD~1
Reset ==
  /\ branch' = Front(branch)
  /\ staged' = {}
  /\ unstaged' = {}

\* git checkout . restores the files from the index: what is staged stays.  If
\* the command fails, nobody looks, and the files stay as they are.
RevertIfDirty == unstaged' \in {{}, unstaged} /\ UNCHANGED <<branch, staged>>

\* The handler takes the commit off only if it is still there.
CandidateOnTop == pending # 0 /\ Tip.id = pending

\* Mutated forms of Rollback: HEAD is not looked at; only files are restored.
RollbackBlind ==
  /\ IF pending # 0 THEN Reset ELSE RevertIfDirty
  /\ pending' = 0
  /\ cache' = Cold

RollbackEditsOnly ==
  /\ RevertIfDirty
  /\ pending' = 0
  /\ cache' = Cold

Rollback ==
  /\ IF CandidateOnTop THEN Reset ELSE RevertIfDirty
  /\ pending' = 0
  /\ cache' = Cold

-------------------------------------------------------------------------------
(***************************************************************************)
(* A session begins and ends.                                              *)
(***************************************************************************)
\* A new process on the branch as the last one left it.
Start ==
  /\ pc = "down"
  /\ sessions < MaxSessions
  /\ sessions' = sessions + 1
  /\ pc' = "baselining"
  /\ pending' = 0
  /\ cache' = Cold
  /\ crashRow' = 0
  /\ count' = 0
  /\ stopping' = FALSE
  /\ base' = Len(branch)
  /\ UNCHANGED <<gitVars, ledger, made, gitErrors>>

\* Whatever is on the branch is the baseline, recorded with status "keep".
Baseline ==
  /\ pc = "baselining"
  /\ cache' = Tree
  /\ ledger' = Append(ledger, [exp |-> 0, status |-> "keep"])
  /\ pc' = "resting"
  /\ UNCHANGED <<gitVars, pending, crashRow, count, stopping, boundVars>>

\* evaluate raises outside any handler: the session is over.
BaselineFails ==
  /\ pc = "baselining"
  /\ pc' = "down"
  /\ UNCHANGED <<gitVars, ledger, pending, cache, crashRow, count, stopping,
                 boundVars>>

MayContinue == ~stopping /\ count < MaxExperiments

Finish ==
  /\ pc = "resting"
  /\ ~MayContinue
  /\ pc' = "down"
  /\ UNCHANGED <<gitVars, ledger, pending, cache, crashRow, count, stopping,
                 boundVars>>

\* SIGINT or SIGTERM.
StopSignal ==
  /\ pc # "down"
  /\ ~stopping
  /\ stopping' = TRUE
  /\ UNCHANGED <<gitVars, ledger, pc, pending, cache, crashRow, count, boundVars>>

-------------------------------------------------------------------------------
(***************************************************************************)
(* One experiment.                                                         *)
(***************************************************************************)
\* build_context runs the evaluation again if nothing is cached.
BeginExperiment ==
  /\ pc = "resting"
  /\ MayContinue
  /\ count' = count + 1
  /\ made' = made + 1
  /\ cache' = IF cache = Cold THEN Tree ELSE cache
  /\ pc' = "proposing"
  /\ UNCHANGED <<gitVars, ledger, pending, crashRow, stopping, base, sessions,
                 gitErrors>>

\* What git add stages: this edit, and older ones if they are of the same file.
Added == {{made}, {made} \cup unstaged}

\* The proposal is valid: write the file, git add, git commit of the whole index.
Commit ==
  /\ pc = "proposing"
  /\ \E E \in Added :
       /\ branch' = Append(branch, [id |-> made, edits |-> staged \cup E])
       /\ unstaged' = unstaged \ E
  /\ staged' = {}
  /\ pending' = made
  /\ pc' = "evaluating"
  /\ UNCHANGED <<ledger, cache, crashRow, count, stopping, boundVars>>

\* The score is better than the baseline's, or equal and the code is shorter.
Keep ==
  /\ pc = "evaluating"
  /\ cache' = Tree
  /\ Row("keep")
  /\ pc' = "remembering"
  /\ UNCHANGED <<gitVars, pending, crashRow, count, stopping, boundVars>>

\* Mutated form of Discard: the cached evaluation of the candidate is kept.
DiscardWarm ==
  /\ pc = "evaluating"
  /\ Reset
  /\ cache' = Tree
  /\ Row("discard")
  /\ pc' = "remembering"
  /\ UNCHANGED <<pending, crashRow, count, stopping, boundVars>>

Discard ==
  /\ pc = "evaluating"
  /\ Reset
  /\ cache' = Cold
  /\ Row("discard")
  /\ pc' = "remembering"
  /\ UNCHANGED <<pending, crashRow, count, stopping, boundVars>>

\* The memory is written, or its 10 seconds have passed (it fails open).
Remembered ==
  /\ pc = "remembering"
  /\ pending' = 0
  /\ crashRow' = 0
  /\ pc' = "resting"
  /\ UNCHANGED <<gitVars, ledger, cache, count, stopping, boundVars>>

-------------------------------------------------------------------------------
(***************************************************************************)
(* An experiment fails: _handle_failed_experiment.                         *)
(***************************************************************************)
HandleFailure ==
  /\ crashRow' = crashRow + 1
  /\ Rollback
  /\ Row("crash")
  /\ pc' = "handling"
  /\ UNCHANGED <<count, stopping, made, base, sessions>>

\* The LLM, the validation, the evaluation or a git command raises.
Raises ==
  /\ pc \in {"proposing", "evaluating"}
  /\ HandleFailure
  /\ UNCHANGED gitErrors

\* Mutated form of CanTimeOut: the proposal is not under the timeout.
CanTimeOutLate == pc = "evaluating" \/ (pc = "remembering" /\ MemoryEnabled)

\* The awaits under wait_for: without a memory store the last is none.
CanTimeOut == pc \in {"proposing", "evaluating"} \/ (pc = "remembering" /\ MemoryEnabled)

TimesOut ==
  /\ CanTimeOut
  /\ HandleFailure
  /\ UNCHANGED gitErrors

GitError == gitErrors < MaxGitErrors /\ gitErrors' = gitErrors + 1

\* git commit refuses (a hook, no identity, a lock) what git add staged, and the
\* handler's git checkout does not unstage it; or git add itself fails.
CommitFails ==
  /\ GitError
  /\ pc = "proposing"
  /\ crashRow' = crashRow + 1
  /\ \/ \E E \in Added : staged' = staged \cup E /\ unstaged' \in {{}, unstaged \ E}
     \/ unstaged' \in {{}, unstaged \cup {made}} /\ UNCHANGED staged
  /\ pending' = 0
  /\ cache' = Cold
  /\ Row("crash")
  /\ pc' = "handling"
  /\ UNCHANGED <<branch, count, stopping, made, base, sessions>>

\* git fails in the handler itself, before its reset or after it: nothing
\* catches that, and the engine ends.
RollbackFails ==
  /\ GitError
  /\ CanTimeOut
  /\ pc' = "down"
  /\ \/ RevertIfDirty /\ UNCHANGED <<pending, cache>>
     \/ Rollback
  /\ UNCHANGED <<ledger, crashRow, count, stopping, made, base, sessions>>

\* Mutated form of Tripped: > written for >=.
TrippedLate == crashRow > MaxCrashesInRow

Tripped == crashRow >= MaxCrashesInRow

\* The handler has written its memory; the breaker ends the session.
Handled ==
  /\ pc = "handling"
  /\ pc' = IF Tripped THEN "down" ELSE "resting"
  /\ UNCHANGED <<gitVars, ledger, pending, cache, crashRow, count, stopping,
                 boundVars>>

\* The process is killed: at an await, in the middle of a commit, or between
\* the reset of a candidate (a discard's, a handler's) and its row.
Kill ==
  /\ pc # "down"
  /\ \/ UNCHANGED gitVars
     \/ pc = "proposing" /\ unstaged' = unstaged \cup {made} /\ UNCHANGED <<branch, staged>>
     \/ /\ pc = "proposing"
        /\ \E E \in Added : staged' = staged \cup E /\ unstaged' = unstaged \ E
        /\ UNCHANGED branch
     \/ CanTimeOut /\ CandidateOnTop /\ Reset
  /\ pc' = "down"
  /\ UNCHANGED <<ledger, pending, cache, crashRow, count, stopping, boundVars>>

-------------------------------------------------------------------------------
\* What the engine does by itself; the LLM and the evaluation may never answer.
EngineStep ==
  \/ Baseline \/ BaselineFails \/ BeginExperiment \/ Finish
  \/ Remembered \/ TimesOut \/ Handled

Next ==
  \/ Start \/ EngineStep \/ StopSignal
  \/ Commit \/ Keep \/ Discard
  \/ Raises \/ CommitFails \/ RollbackFails
  \/ Kill

Spec == Init /\ [][Next]_vars

\* Timers fire and synchronous code runs on; the baseline's evaluation and the
\* memory writes have timeouts of their own.
FairSpec == Spec /\ WF_vars(EngineStep)

-------------------------------------------------------------------------------
(***************************************************************************)
(* Properties.                                                             *)
(***************************************************************************)
Edits == SUBSET Experiment

\* Every variable keeps its type, and the breaker trips in time: there are never
\* more than MaxCrashesInRow failures in a row in one session.
TypeOK ==
  /\ branch \in Seq([id : {0} \cup Experiment, edits : Edits])
  /\ staged \in Edits
  /\ unstaged \in Edits
  /\ ledger \in Seq([exp : {0} \cup Experiment, status : {"keep", "discard", "crash"}])
  /\ pc \in {"down", "baselining", "resting", "proposing", "evaluating", "remembering",
             "handling"}
  /\ pending \in {0} \cup Experiment
  /\ cache \in {Cold} \cup Edits
  /\ crashRow \in 0..MaxCrashesInRow
  /\ count \in 0..MaxExperiments
  /\ stopping \in BOOLEAN

\* Nothing unjudged stays: in a session, a commit on the branch is the baseline
\* the session began with, a kept one, or the candidate being judged, whatever
\* times out, raises or fails (the rollback's guard on HEAD).
NothingUnjudged ==
  pc # "down" => \A i \in DOMAIN branch :
    i > base => branch[i].id \in Kept \cup {pending}

\* The other direction: what the ledger says was kept is on the branch, unless
\* the experiment failed right after its row was written (a timeout of the
\* memory write rolls the kept commit back): then its crash is the next row, or
\* the session ended before it could be written.
KeptUnlessTimedOut ==
  \A i \in DOMAIN ledger :
    ledger[i].status = "keep" =>
      \/ ledger[i].exp \in OnBranch
      \/ i + 1 \in DOMAIN ledger /\ ledger[i + 1].exp \in {0, ledger[i].exp}
      \/ i = Len(ledger) /\ pc \in {"down", "baselining"}

\* Branch and ledger tell the same, both ways, in every state of the type above.
BranchTellsLedger == TypeOK /\ NothingUnjudged /\ KeptUnlessTimedOut

\* The LLM is never shown the evaluation of another tree than the one it edits:
\* a cached evaluation is dropped on every path that changes the tree.
CacheFresh == pc \in {"resting", "proposing"} => cache \in {Cold, Tree}

\* The engine implements the branch of KeptBranch: what is on the git branch
\* joined it and left it in the order the ledger tells.
Branch == INSTANCE KeptBranch WITH
  Commit <- [id : {0} \cup Experiment, edits : Edits],
  trunk <- IF pc = "evaluating" THEN Front(branch) ELSE branch,
  candidate <- IF pc = "evaluating" THEN {Tip} ELSE {},
  verdicts <- ledger

BranchSpec == Branch!Spec

\* Every session ends, though neither the LLM nor an evaluation ever answers.
SessionEnds == pc # "down" ~> pc = "down"

\* "Fail-open - never affects git/ledger state ... a memory-store failure here
\* can't roll back real state" (_record_outcome_memory): what was kept stays on
\* the branch.
KeptStays == \A i \in DOMAIN ledger : ledger[i].status = "keep" => ledger[i].exp \in OnBranch
===============================================================================
