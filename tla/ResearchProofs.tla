---------------------------- MODULE ResearchProofs ----------------------------
(***************************************************************************)
(* Theorems about ResearchEngine, for any number of experiments, sessions  *)
(* and git errors, and any limit of crashes in a row; and about the        *)
(* playbooks that research keeps and a room is healed by (RoomHealth).     *)
(***************************************************************************)
EXTENDS ResearchEngine, RoomHealth, Sums, SequenceTheorems, WellFoundedInduction, TLAPS

(***************************************************************************)
(* The inductive invariant.                                                *)
(***************************************************************************)
\* The counters: an experiment's number stays within the bounds, and the
\* breaker has not tripped while a session goes on.
CountInv ==
  /\ made \in Nat
  /\ sessions \in 0..MaxSessions
  /\ base \in Nat \ {0}
  /\ gitErrors \in Nat
  /\ made <= sessions * MaxExperiments
  /\ pc # "down" => made + MaxExperiments <= sessions * MaxExperiments + count
  /\ pc \notin {"down", "handling"} => crashRow < MaxCrashesInRow

\* An id is that of an experiment made, on the branch once at most; the branch
\* never loses its first commit.
IdsInv ==
  /\ branch # <<>>
  /\ branch[1].id = 0
  /\ \A i \in DOMAIN branch : branch[i].id \in 0..made
  /\ \A i, j \in DOMAIN branch : branch[i].id = branch[j].id => i = j
  /\ \A i \in DOMAIN ledger : ledger[i].exp \in 0..made

\* The pending commit is the experiment's, it is HEAD until it is judged, and
\* the last row then tells whether it still is.
CandidateInv ==
  /\ pc \in {"baselining", "resting", "proposing", "handling"} => pending = 0
  /\ pc \in {"evaluating", "remembering"} => pending = made
  /\ pc \in {"proposing", "evaluating", "remembering"} => made # 0
  /\ pc = "proposing" => \A i \in DOMAIN branch : branch[i].id # made
  /\ pc = "evaluating" => branch[Len(branch)].id = made
  /\ pc \in {"proposing", "evaluating"} => \A i \in DOMAIN ledger : ledger[i].exp # made
  /\ pc = "remembering" =>
       /\ ledger # <<>>
       /\ ledger[Len(ledger)].exp = made
       /\ ledger[Len(ledger)].status # "keep" =>
            \A i \in DOMAIN branch : branch[i].id # made

TypeInv == TypeOK /\ CountInv

Commits == [id : {0} \cup Experiment, edits : Edits]
Rows == [exp : {0} \cup Experiment, status : {"keep", "discard", "crash"}]

(***************************************************************************)
(* Sequences and numbers.                                                  *)
(***************************************************************************)
\* git reset --hard HEAD~1 takes the last commit and leaves the others.
LEMMA FrontIsShorter ==
  ASSUME NEW S, NEW s \in Seq(S), s # <<>>
  PROVE  /\ Front(s) \in Seq(S)
         /\ Len(Front(s)) = Len(s) - 1
         /\ DOMAIN Front(s) = 1..(Len(s) - 1)
         /\ DOMAIN s = 1..Len(s)
         /\ \A i \in 1..(Len(s) - 1) : Front(s)[i] = s[i]
<1>1. Len(s) \in Nat /\ Len(s) # 0 /\ DOMAIN s = 1..Len(s)
  BY EmptySeq, LenProperties
<1>2. Front(s) = [i \in 1..(Len(s) - 1) |-> s[i]]
  BY <1>1 DEF Front
<1> QED
  BY <1>1, <1>2

\* A session more has room for the experiments of one session more.
LEMMA RoomForSessions ==
  ASSUME NEW m \in Nat, NEW s \in Nat, NEW t \in Nat, s <= t
  PROVE  s * m <= t * m /\ (s + 1) * m = s * m + m
OBVIOUS

\* The number of an experiment is one of the model's.
LEMMA MadeIsExperiment ==
  ASSUME TypeInv, made # 0
  PROVE  made \in Experiment
<1>1. sessions * MaxExperiments <= MaxSessions * MaxExperiments
  BY ResearchAssumption, RoomForSessions DEF TypeInv, CountInv
<1>2. sessions * MaxExperiments \in Nat /\ MaxSessions * MaxExperiments \in Nat
  BY ResearchAssumption DEF TypeInv, CountInv
<1> QED
  BY <1>1, <1>2, ResearchAssumption DEF TypeInv, CountInv, Experiment

\* What a reset, a commit or neither makes of a typed branch.
LEMMA ResetIsTyped ==
  ASSUME TypeOK, branch # <<>>, Reset
  PROVE  branch' \in Seq(Commits) /\ staged' \in Edits /\ unstaged' \in Edits
<1>1. branch \in Seq(Commits)
  BY DEF TypeOK, Commits
<1> QED
  BY <1>1, FrontIsShorter DEF Reset, Edits

LEMMA RowIsTyped ==
  ASSUME TypeOK, NEW exp \in {0} \cup Experiment, NEW status \in {"keep", "discard", "crash"},
         ledger' = Append(ledger, [exp |-> exp, status |-> status])
  PROVE  ledger' \in Seq(Rows)
<1>1. ledger \in Seq(Rows) /\ [exp |-> exp, status |-> status] \in Rows
  BY DEF TypeOK, Rows
<1> QED
  BY <1>1, AppendProperties

\* The tree and what git add stages are edits of the experiments.
LEMMA TreeIsTyped == ASSUME TypeOK PROVE Tree \in Edits
<1>1. branch \in Seq(Commits) /\ staged \in Edits /\ unstaged \in Edits
  BY DEF TypeOK, Commits
<1>2. \A i \in DOMAIN branch : branch[i] \in Commits
  BY <1>1
<1>3. \A i \in DOMAIN branch : branch[i].edits \subseteq Experiment
  BY <1>2 DEF Commits, Edits
<1> QED
  BY <1>1, <1>3 DEF Tree, Edits

Inv == TypeInv /\ IdsInv /\ CandidateInv

LEMMA AddedIsTyped == ASSUME Inv, pc = "proposing", NEW E \in Added PROVE E \in Edits
<1>1. made \in Experiment
  BY MadeIsExperiment DEF Inv, CandidateInv
<1> QED
  BY <1>1 DEF Added, Edits, Inv, TypeInv, TypeOK

(***************************************************************************)
(* Types are preserved: git, the ledger, the engine.                       *)
(***************************************************************************)
GitTyped == branch \in Seq(Commits) /\ staged \in Edits /\ unstaged \in Edits

LEMMA RollbackIsTyped ==
  ASSUME Inv, Reset \/ RevertIfDirty
  PROVE  GitTyped'
<1>1. CASE Reset
  BY <1>1, ResetIsTyped DEF GitTyped, Inv, TypeInv, IdsInv
<1>2. CASE RevertIfDirty
  BY <1>2 DEF RevertIfDirty, GitTyped, Inv, TypeInv, TypeOK, Commits, Edits
<1> QED
  BY <1>1, <1>2

\* Steps that touch neither git nor anything read from it.
Quiet ==
  \/ Start \/ Baseline \/ BaselineFails \/ BeginExperiment \/ Finish \/ Remembered \/ Handled
  \/ StopSignal \/ Keep

LEMMA QuietLeavesGit == ASSUME Quiet PROVE UNCHANGED gitVars
BY DEF Quiet, Start, Baseline, BaselineFails, BeginExperiment, Finish, Remembered, Handled,
       StopSignal, Keep

\* Next, sorted by what it does to git.
LEMMA NextByGit ==
  ASSUME Next
  PROVE  Quiet \/ Commit \/ Discard \/ Raises \/ TimesOut \/ CommitFails \/ RollbackFails \/ Kill
BY DEF Next, EngineStep, Quiet

LEMMA GitStaysTyped == ASSUME Inv, Next PROVE GitTyped'
<1>0. GitTyped
  BY DEF Inv, TypeInv, TypeOK, GitTyped, Commits
<1>1. CASE Quiet
  BY <1>0, <1>1, QuietLeavesGit DEF gitVars, GitTyped
<1>2. CASE Commit
  <2>1. PICK E \in Added :
          /\ branch' = Append(branch, [id |-> made, edits |-> staged \cup E])
          /\ unstaged' = unstaged \ E
    BY <1>2 DEF Commit
  <2>2. E \in Edits /\ made \in Experiment
    BY <1>2, AddedIsTyped, MadeIsExperiment DEF Commit, Inv, CandidateInv
  <2>3. [id |-> made, edits |-> staged \cup E] \in Commits
    BY <1>0, <2>2 DEF GitTyped, Commits, Edits
  <2>4. branch' \in Seq(Commits)
    BY <1>0, <2>1, <2>3, AppendProperties DEF GitTyped
  <2>5. staged' \in Edits /\ unstaged' \in Edits
    BY <1>0, <1>2, <2>1 DEF Commit, GitTyped, Edits
  <2> QED
    BY <2>4, <2>5 DEF GitTyped
<1>3. CASE Discard
  BY <1>3, RollbackIsTyped DEF Discard
<1>4. CASE Raises \/ TimesOut
  BY <1>4, RollbackIsTyped DEF Raises, TimesOut, HandleFailure, Rollback
<1>5. CASE CommitFails
  <2>1. /\ UNCHANGED branch
        /\ \/ \E E \in Added : staged' = staged \cup E /\ unstaged' \in {{}, unstaged \ E}
           \/ unstaged' \in {{}, unstaged \cup {made}} /\ UNCHANGED staged
    BY <1>5 DEF CommitFails
  <2>2. made \in Experiment /\ \A E \in Added : E \in Edits
    BY <1>5, AddedIsTyped, MadeIsExperiment DEF CommitFails, Inv, CandidateInv
  <2> QED
    BY <1>0, <2>1, <2>2 DEF GitTyped, Edits
<1>6. CASE RollbackFails
  BY <1>6, RollbackIsTyped DEF RollbackFails, Rollback
<1>7. CASE Kill
  <2>1. CASE UNCHANGED gitVars
    BY <1>0, <2>1 DEF gitVars, GitTyped
  <2>2. CASE pc = "proposing" /\ unstaged' = unstaged \cup {made} /\ UNCHANGED <<branch, staged>>
    <3>1. made \in Experiment
      BY <2>2, MadeIsExperiment DEF Inv, CandidateInv
    <3> QED
      BY <1>0, <2>2, <3>1 DEF GitTyped, Edits
  <2>3. ASSUME pc = "proposing", UNCHANGED branch,
               NEW E \in Added, staged' = staged \cup E, unstaged' = unstaged \ E
        PROVE  GitTyped'
    <3>1. E \in Edits
      BY <2>3, AddedIsTyped
    <3> QED
      BY <1>0, <2>3, <3>1 DEF GitTyped, Edits
  <2>4. CASE Reset
    BY <2>4, RollbackIsTyped
  <2> QED
    BY <1>7, <2>1, <2>2, <2>3, <2>4 DEF Kill
<1> QED
  BY <1>1, <1>2, <1>3, <1>4, <1>5, <1>6, <1>7, NextByGit

\* The rows that a step may append: the baseline's, or one of this experiment.
LEMMA LedgerStep ==
  ASSUME Inv, Next
  PROVE  \/ UNCHANGED ledger
         \/ Baseline /\ ledger' = Append(ledger, [exp |-> 0, status |-> "keep"])
         \/ Keep /\ Row("keep")
         \/ Discard /\ Row("discard")
         \/ (Raises \/ TimesOut \/ CommitFails) /\ Row("crash")
BY DEF Next, EngineStep, Start, Baseline, BaselineFails, BeginExperiment, Finish, Remembered,
       Handled, StopSignal, Keep, Commit, Discard, Raises, TimesOut, HandleFailure,
       CommitFails, RollbackFails, Kill

LEMMA LedgerStaysTyped == ASSUME Inv, Next PROVE ledger' \in Seq(Rows)
<1>0. ledger \in Seq(Rows)
  BY DEF Inv, TypeInv, TypeOK, Rows
<1>1. made \in {0} \cup Experiment
  BY MadeIsExperiment DEF Inv
<1>2. ASSUME NEW exp \in {0} \cup Experiment, NEW status \in {"keep", "discard", "crash"},
             ledger' = Append(ledger, [exp |-> exp, status |-> status])
      PROVE  ledger' \in Seq(Rows)
  BY <1>2, RowIsTyped DEF Inv, TypeInv
<1> QED
  BY <1>0, <1>1, <1>2, LedgerStep DEF Row

LEMMA EngineStaysTyped ==
  ASSUME Inv, Next
  PROVE  /\ pc' \in {"down", "baselining", "resting", "proposing", "evaluating",
                     "remembering", "handling"}
         /\ pending' \in {0} \cup Experiment
         /\ cache' \in {Cold} \cup Edits
         /\ crashRow' \in 0..MaxCrashesInRow
         /\ count' \in 0..MaxExperiments
         /\ stopping' \in BOOLEAN
<1>1. Tree \in Edits /\ made \in {0} \cup Experiment
  BY TreeIsTyped, MadeIsExperiment DEF Inv, TypeInv
<1> USE ResearchAssumption DEF Inv, TypeInv, TypeOK, CountInv
<1>2. CASE Quiet
  <2>1. CASE BaselineFails \/ Finish \/ StopSignal
    BY <2>1 DEF BaselineFails, Finish, StopSignal
  <2>5. CASE Start
    <3>1. /\ pc' = "baselining" /\ pending' = 0 /\ cache' = Cold
          /\ crashRow' = 0 /\ count' = 0 /\ stopping' = FALSE
      BY <2>5 DEF Start
    <3>2. 0 \in 0..MaxCrashesInRow /\ 0 \in 0..MaxExperiments
      BY ResearchAssumption
    <3>3. cache' \in {Cold} \cup Edits
      BY <3>1
    <3>4. stopping' \in BOOLEAN /\ pending' \in {0} \cup Experiment
      BY <3>1
    <3> QED
      BY <3>1, <3>2, <3>3, <3>4
  <2>2. CASE Baseline \/ Keep
    BY <1>1, <2>2 DEF Baseline, Keep
  <2>3. CASE BeginExperiment
    <3>1. cache' = Tree \/ cache' = cache
      BY <2>3 DEF BeginExperiment
    <3>2. count' \in 0..MaxExperiments
      BY <2>3 DEF BeginExperiment, MayContinue
    <3>3. pc' = "proposing" /\ UNCHANGED <<pending, crashRow, stopping>>
      BY <2>3 DEF BeginExperiment
    <3> QED
      BY <1>1, <3>1, <3>2, <3>3
  <2>4. CASE Remembered \/ Handled
    BY <2>4 DEF Remembered, Handled
  <2> QED
    BY <1>2, <2>1, <2>2, <2>3, <2>4, <2>5 DEF Quiet
<1>3. CASE Commit \/ Discard
  BY <1>1, <1>3 DEF Commit, Discard
<1>4. CASE Raises \/ TimesOut \/ CommitFails
  BY <1>4 DEF Raises, TimesOut, CanTimeOut, HandleFailure, Rollback, CommitFails
<1>5. CASE RollbackFails \/ Kill
  BY <1>5 DEF RollbackFails, Rollback, Kill
<1> QED
  BY <1>2, <1>3, <1>4, <1>5, NextByGit

LEMMA CountStays == ASSUME Inv, Next PROVE CountInv'
<1> USE ResearchAssumption DEF Inv, TypeInv, TypeOK, CountInv
<1>0. /\ sessions * MaxExperiments \in Nat
      /\ sessions * MaxExperiments + MaxExperiments = (sessions + 1) * MaxExperiments
  BY RoomForSessions
<1>1. CASE Start
  <2>1. Len(branch) \in Nat \ {0}
    BY EmptySeq DEF IdsInv
  <2>2. made' <= sessions' * MaxExperiments
    BY <1>0, <1>1 DEF Start
  <2>3. made' + MaxExperiments <= sessions' * MaxExperiments + count'
    BY <1>0, <1>1 DEF Start
  <2> QED
    BY <1>1, <2>1, <2>2, <2>3 DEF Start
<1>2. CASE BeginExperiment
  BY <1>0, <1>2 DEF BeginExperiment, MayContinue
<1>3. CASE Handled
  BY <1>3 DEF Handled, Tripped, boundVars
<1>4. CASE Baseline \/ BaselineFails \/ Finish \/ Remembered \/ StopSignal \/ Keep
  <2>1. UNCHANGED boundVars
    BY <1>4 DEF Baseline, BaselineFails, Finish, Remembered, StopSignal, Keep
  <2>2. count' = count
    BY <1>4 DEF Baseline, BaselineFails, Finish, Remembered, StopSignal, Keep
  <2>3. pc' # "down" => pc # "down"
    BY <1>4 DEF Baseline, BaselineFails, Finish, Remembered, StopSignal, Keep
  <2>4. crashRow' = crashRow \/ crashRow' = 0
    BY <1>4 DEF Baseline, BaselineFails, Finish, Remembered, StopSignal, Keep
  <2>5. pc' \notin {"down", "handling"} => pc \notin {"down", "handling"}
    BY <1>4 DEF Baseline, BaselineFails, Finish, Remembered, StopSignal, Keep
  <2> QED
    BY <2>1, <2>2, <2>3, <2>4, <2>5 DEF boundVars
<1>5. CASE Commit \/ Discard
  BY <1>5 DEF Commit, Discard, boundVars
<1>6. CASE Raises \/ TimesOut \/ CommitFails
  BY <1>6 DEF Raises, TimesOut, CanTimeOut, HandleFailure, CommitFails, GitError
<1>7. CASE RollbackFails \/ Kill
  <2>1. pc' = "down" /\ UNCHANGED <<made, base, sessions>> /\ gitErrors' \in Nat
    BY <1>7 DEF RollbackFails, GitError, Kill, boundVars
  <2> QED
    BY <1>0, <2>1
<1> QED
  BY <1>1, <1>2, <1>3, <1>4, <1>5, <1>6, <1>7, NextByGit DEF Quiet

LEMMA TypesStay == ASSUME Inv, Next PROVE TypeInv'
BY GitStaysTyped, LedgerStaysTyped, EngineStaysTyped, CountStays
DEF TypeInv, TypeOK, GitTyped, Commits, Rows

(***************************************************************************)
(* The branch and the ledger, step by step.                                *)
(***************************************************************************)
\* The branch grows by a commit of this experiment, and loses no other.
Committed(e) == branch' = Append(branch, [id |-> made, edits |-> e])

TakenOff ==
  /\ branch' = Front(branch)
  /\ pc \in {"evaluating", "remembering"}
  /\ branch[Len(branch)].id = made

LEMMA CommitStep == ASSUME Inv, Commit PROVE \E e \in Edits : Committed(e)
<1>1. PICK E \in Added : Committed(staged \cup E)
  BY DEF Commit, Committed
<1>2. staged \cup E \in Edits
  BY AddedIsTyped DEF Commit, Inv, TypeInv, TypeOK, Edits
<1> QED
  BY <1>1, <1>2

LEMMA BranchStep ==
  ASSUME Inv, Next
  PROVE  UNCHANGED branch \/ TakenOff \/ (Commit /\ \E e \in Edits : Committed(e))
<1>1. CASE Quiet
  BY <1>1, QuietLeavesGit DEF gitVars
<1>2. CASE Commit
  BY <1>2, CommitStep
<1>3. CASE Discard
  BY <1>3 DEF Discard, Reset, TakenOff, Inv, CandidateInv
<1>4. ASSUME CandidateOnTop, Reset, CanTimeOut PROVE TakenOff
  BY <1>4 DEF CandidateOnTop, Tip, Last, Reset, CanTimeOut, TakenOff, Inv, CandidateInv
<1>5. CASE Raises \/ TimesOut
  BY <1>4, <1>5 DEF Raises, TimesOut, HandleFailure, Rollback, RevertIfDirty, CanTimeOut
<1>6. CASE CommitFails
  BY <1>6 DEF CommitFails
<1>7. CASE RollbackFails
  BY <1>4, <1>7 DEF RollbackFails, Rollback, RevertIfDirty
<1>8. CASE Kill
  BY <1>4, <1>8 DEF Kill, gitVars
<1> QED
  BY <1>1, <1>2, <1>3, <1>5, <1>6, <1>7, <1>8, NextByGit

\* What is on the branch after a step, place by place.
LEMMA BranchAfter ==
  ASSUME Inv, Next
  PROVE  /\ branch \in Seq(Commits) /\ branch' \in Seq(Commits)
         /\ DOMAIN branch = 1..Len(branch) /\ DOMAIN branch' = 1..Len(branch')
         /\ Len(branch) \in Nat \ {0}
         /\ \/ UNCHANGED branch
            \/ /\ TakenOff
               /\ Len(branch') = Len(branch) - 1
               /\ \A i \in DOMAIN branch' : branch'[i] = branch[i]
            \/ /\ Commit
               /\ Len(branch') = Len(branch) + 1
               /\ branch'[Len(branch) + 1].id = made
               /\ \A i \in DOMAIN branch : branch'[i] = branch[i]
         /\ Commit => Len(branch') = Len(branch) + 1 /\ branch'[Len(branch) + 1].id = made
         /\ TakenOff => Len(branch') = Len(branch) - 1
<1>0. branch \in Seq(Commits) /\ branch # <<>>
  BY DEF Inv, TypeInv, TypeOK, IdsInv, Commits
<1>1. branch' \in Seq(Commits)
  BY GitStaysTyped DEF GitTyped
<1>2. /\ DOMAIN branch = 1..Len(branch) /\ DOMAIN branch' = 1..Len(branch')
      /\ Len(branch) \in Nat \ {0}
  BY <1>0, <1>1, EmptySeq, LenProperties
<1>3. CASE TakenOff
  BY <1>0, <1>1, <1>2, <1>3, FrontIsShorter DEF TakenOff, Commit
<1>4. ASSUME NEW e \in Edits, Commit, Committed(e)
      PROVE  /\ Len(branch') = Len(branch) + 1
             /\ branch'[Len(branch) + 1].id = made
             /\ \A i \in DOMAIN branch : branch'[i] = branch[i]
  <2>1. [id |-> made, edits |-> e] \in Commits
    BY <1>4, MadeIsExperiment DEF Commits, Inv
  <2>2. /\ Len(branch') = Len(branch) + 1
        /\ branch'[Len(branch) + 1] = [id |-> made, edits |-> e]
        /\ \A i \in 1..Len(branch) : branch'[i] = branch[i]
    BY <1>0, <1>4, <2>1, AppendProperties DEF Committed
  <2> QED
    BY <1>2, <2>2
<1> QED
  BY <1>0, <1>1, <1>2, <1>3, <1>4, BranchStep, CommitStep

LEMMA BranchHasTip == ASSUME Inv PROVE 1 \in DOMAIN branch /\ Len(branch) \in DOMAIN branch
<1>1. branch \in Seq(Commits) /\ branch # <<>>
  BY DEF Inv, TypeInv, TypeOK, IdsInv, Commits
<1>2. DOMAIN branch = 1..Len(branch) /\ Len(branch) \in Nat \ {0}
  BY <1>1, EmptySeq, LenProperties
<1> QED
  BY <1>2

\* A commit on the branch was there in the same place, or is the new one.
LEMMA BranchPlaces ==
  ASSUME Inv, Next, NEW i \in DOMAIN branch'
  PROVE  \/ i \in DOMAIN branch /\ branch'[i] = branch[i] /\ (TakenOff => i # Len(branch))
         \/ Commit /\ branch'[i].id = made
<1>0. /\ DOMAIN branch = 1..Len(branch) /\ DOMAIN branch' = 1..Len(branch')
      /\ Len(branch) \in Nat \ {0}
      /\ TakenOff => Len(branch') = Len(branch) - 1
  BY BranchAfter
<1>4. i \in 1..Len(branch') /\ Len(branch') \in Nat
  <2>1. branch' \in Seq(Commits)
    BY BranchAfter
  <2> QED
    BY <1>0, <2>1, LenProperties
<1>5. Len(branch) \in Nat /\ (TakenOff => Len(branch') = Len(branch) - 1)
  BY <1>0
<1>1. CASE UNCHANGED branch
  <2>1. Len(branch') = Len(branch) /\ branch'[i] = branch[i] /\ DOMAIN branch' = DOMAIN branch
    BY <1>1
  <2>2. ~TakenOff
    <3>1. SUFFICES ASSUME TakenOff PROVE FALSE
      OBVIOUS
    <3>2. Len(branch') = Len(branch) - 1
      BY <1>5, <3>1
    <3>3. Len(branch) \in Nat /\ Len(branch) = Len(branch) - 1
      BY <1>5, <2>1, <3>2
    <3> QED
      BY <3>3
  <2> QED
    BY <2>1, <2>2
<1>2. CASE TakenOff /\ \A j \in DOMAIN branch' : branch'[j] = branch[j]
  <2>1. i \in 1..Len(branch) /\ i # Len(branch)
    BY <1>0, <1>2, <1>4
  <2> QED
    BY <1>0, <1>2, <2>1
<1>3. CASE /\ Commit
           /\ Len(branch') = Len(branch) + 1
           /\ branch'[Len(branch) + 1].id = made
           /\ \A j \in DOMAIN branch : branch'[j] = branch[j]
  <2>1. ~TakenOff
    BY <1>3 DEF TakenOff, Commit
  <2>3. Len(branch') = Len(branch) + 1
    BY <1>3
  <2>2. i \in 1..Len(branch) \/ i = Len(branch) + 1
    BY <1>4, <1>5, <2>3
  <2> QED
    BY <1>0, <1>3, <2>1, <2>2
<1> QED
  BY <1>1, <1>2, <1>3, BranchAfter

\* What is in the ledger after a step, row by row.
Recorded(exp, status) ==
  /\ Len(ledger') = Len(ledger) + 1
  /\ ledger'[Len(ledger) + 1] = [exp |-> exp, status |-> status]
  /\ \A i \in DOMAIN ledger : ledger'[i] = ledger[i]

LEMMA LedgerAfter ==
  ASSUME Inv, Next
  PROVE  /\ DOMAIN ledger = 1..Len(ledger) /\ DOMAIN ledger' = 1..Len(ledger')
         /\ Len(ledger) \in Nat
         /\ \/ UNCHANGED ledger
            \/ Baseline /\ Recorded(0, "keep")
            \/ Keep /\ Recorded(made, "keep")
            \/ Discard /\ Recorded(made, "discard")
            \/ (Raises \/ TimesOut \/ CommitFails) /\ Recorded(made, "crash")
         /\ Keep => Recorded(made, "keep")
         /\ Discard => Recorded(made, "discard")
         /\ Len(ledger) <= Len(ledger')
         /\ \A i \in DOMAIN ledger : i \in DOMAIN ledger' /\ ledger'[i] = ledger[i]
<1>1. ledger \in Seq(Rows) /\ ledger' \in Seq(Rows)
  BY LedgerStaysTyped DEF Inv, TypeInv, TypeOK, Rows
<1>2. DOMAIN ledger = 1..Len(ledger) /\ DOMAIN ledger' = 1..Len(ledger') /\ Len(ledger) \in Nat
  BY <1>1, LenProperties
<1>3. ASSUME NEW exp \in {0} \cup Experiment, NEW status \in {"keep", "discard", "crash"},
             ledger' = Append(ledger, [exp |-> exp, status |-> status])
      PROVE  Recorded(exp, status)
  <2>1. [exp |-> exp, status |-> status] \in Rows
    BY DEF Rows
  <2> QED
    BY <1>1, <1>2, <1>3, <2>1, AppendProperties DEF Recorded
<1>4. made \in {0} \cup Experiment
  BY MadeIsExperiment DEF Inv
<1>5. \/ UNCHANGED ledger
      \/ Baseline /\ Recorded(0, "keep")
      \/ Keep /\ Recorded(made, "keep")
      \/ Discard /\ Recorded(made, "discard")
      \/ (Raises \/ TimesOut \/ CommitFails) /\ Recorded(made, "crash")
  BY <1>3, <1>4, LedgerStep DEF Row
<1>6. (Keep => Recorded(made, "keep")) /\ (Discard => Recorded(made, "discard"))
  BY <1>3, <1>4 DEF Keep, Discard, Row
<1>7. CASE UNCHANGED ledger
  BY <1>2, <1>5, <1>6, <1>7
<1>8. ASSUME NEW exp, NEW status, Recorded(exp, status)
      PROVE  /\ Len(ledger) <= Len(ledger')
             /\ \A i \in DOMAIN ledger : i \in DOMAIN ledger' /\ ledger'[i] = ledger[i]
  BY <1>2, <1>8 DEF Recorded
<1> QED
  BY <1>2, <1>5, <1>6, <1>7, <1>8

(***************************************************************************)
(* Ids and the candidate.                                                  *)
(***************************************************************************)
\* Only BeginExperiment gives out a number, the next one.
LEMMA NumberStep ==
  ASSUME Next
  PROVE  IF BeginExperiment THEN made' = made + 1 ELSE UNCHANGED made
BY DEF Next, EngineStep, Start, Baseline, BaselineFails, BeginExperiment, Finish, Remembered,
       Handled, StopSignal, Keep, Commit, Discard, Raises, TimesOut, HandleFailure,
       CommitFails, RollbackFails, Kill, boundVars

LEMMA IdsStay == ASSUME Inv, Next PROVE IdsInv'
<1>0. made \in Nat /\ made' \in Nat /\ made <= made'
  BY NumberStep DEF Inv, TypeInv, CountInv
<1>1. Commit => pc = "proposing" /\ UNCHANGED made
  BY DEF Commit, boundVars
<1>2. TakenOff => Len(branch) > 1
  BY DEF TakenOff, Inv, IdsInv, CandidateInv, TypeInv, TypeOK
<1>3. branch' # <<>> /\ branch'[1].id = 0
  <2>0. branch[1].id = 0
    BY DEF Inv, IdsInv
  <2>1. CASE UNCHANGED branch
    BY <2>0, <2>1 DEF Inv, IdsInv
  <2>2. Len(branch') >= 1 => branch' # <<>>
    OBVIOUS
  <2>5. DOMAIN branch = 1..Len(branch) /\ Len(branch) \in Nat \ {0}
    BY BranchAfter
  <2>3. CASE TakenOff /\ Len(branch') = Len(branch) - 1
             /\ \A i \in DOMAIN branch' : branch'[i] = branch[i]
    <3>1. 1 \in DOMAIN branch' /\ Len(branch') >= 1
      BY <1>2, <2>3, BranchAfter
    <3> QED
      BY <2>0, <2>2, <2>3, <3>1
  <2>4. CASE Len(branch') = Len(branch) + 1 /\ \A i \in DOMAIN branch : branch'[i] = branch[i]
    <3>1. 1 \in DOMAIN branch /\ Len(branch') >= 1
      BY <2>4, <2>5
    <3> QED
      BY <2>0, <2>2, <2>4, <3>1
  <2> QED
    BY <2>1, <2>3, <2>4, BranchAfter
<1>4. \A i \in DOMAIN branch' : branch'[i].id \in 0..made'
  BY <1>0, <1>1, BranchAfter DEF Inv, IdsInv
<1>5. \A i, j \in DOMAIN branch' : branch'[i].id = branch'[j].id => i = j
  BY <1>1, BranchAfter DEF Inv, IdsInv, CandidateInv
<1>6. \A i \in DOMAIN ledger' : ledger'[i].exp \in 0..made'
  BY <1>0, LedgerAfter DEF Recorded, Inv, IdsInv
<1> QED
  BY <1>3, <1>4, <1>5, <1>6 DEF IdsInv

LEMMA CandidateStays == ASSUME Inv, Next PROVE CandidateInv'
<1>1. CASE Start \/ Baseline \/ BaselineFails \/ Finish \/ Remembered \/ Handled
  BY <1>1 DEF Start, Baseline, BaselineFails, Finish, Remembered, Handled, Inv, CandidateInv
<1>2. CASE StopSignal
  BY <1>2 DEF StopSignal, gitVars, boundVars, Inv, CandidateInv
<1>3. CASE BeginExperiment
  <2>1. /\ made \in Nat /\ made' = made + 1 /\ pc = "resting" /\ pc' = "proposing"
        /\ UNCHANGED <<branch, ledger, pending>>
    BY <1>3 DEF BeginExperiment, gitVars, Inv, TypeInv, CountInv
  <2>2. \A i \in DOMAIN branch : branch[i].id # made'
    BY <2>1 DEF Inv, IdsInv
  <2>3. \A i \in DOMAIN ledger : ledger[i].exp # made'
    BY <2>1 DEF Inv, IdsInv
  <2> QED
    BY <2>1, <2>2, <2>3 DEF Inv, CandidateInv
<1>4. CASE Commit
  <2>1. /\ pc = "proposing" /\ pc' = "evaluating" /\ pending' = made
        /\ UNCHANGED <<made, ledger>>
    BY <1>4 DEF Commit, boundVars
  <2>2. branch'[Len(branch')].id = made
    BY <1>4, BranchAfter
  <2> QED
    BY <2>1, <2>2 DEF Inv, CandidateInv
<1>5. CASE Keep
  <2>1. /\ pc = "evaluating" /\ pc' = "remembering"
        /\ UNCHANGED <<branch, pending, made>>
    BY <1>5 DEF Keep, gitVars, boundVars
  <2>2. Recorded(made, "keep")
    BY <1>5, LedgerAfter
  <2>3. ledger' # <<>> /\ ledger'[Len(ledger')] = [exp |-> made, status |-> "keep"]
    BY <2>2, LedgerAfter DEF Recorded
  <2> QED
    BY <2>1, <2>3 DEF Inv, CandidateInv
<1>6. CASE Discard
  <2>1. /\ pc = "evaluating" /\ pc' = "remembering"
        /\ UNCHANGED <<pending, made>>
        /\ branch' = Front(branch)
    BY <1>6 DEF Discard, boundVars, Reset
  <2>0. Recorded(made, "discard")
    BY <1>6, LedgerAfter
  <2>2. ledger' # <<>> /\ ledger'[Len(ledger')] = [exp |-> made, status |-> "discard"]
    BY <2>0, LedgerAfter DEF Recorded
  <2>3. branch \in Seq(Commits) /\ branch # <<>>
    BY DEF Inv, TypeInv, TypeOK, IdsInv, Commits
  <2>4. \A i \in DOMAIN branch' : branch'[i].id # made
    BY <2>1, <2>3, FrontIsShorter DEF Inv, CandidateInv, IdsInv
  <2> QED
    BY <2>1, <2>2, <2>4 DEF Inv, CandidateInv
<1>7. CASE Raises \/ TimesOut \/ CommitFails
  BY <1>7 DEF Raises, TimesOut, HandleFailure, Rollback, CommitFails, Inv, CandidateInv
<1>8. CASE RollbackFails \/ Kill
  BY <1>8 DEF RollbackFails, Kill, CandidateInv
<1> QED
  BY <1>1, <1>2, <1>3, <1>4, <1>5, <1>6, <1>7, <1>8, NextByGit DEF Quiet

LEMMA InvStays == ASSUME Inv, [Next]_vars PROVE Inv'
<1>1. CASE UNCHANGED vars
  BY <1>1 DEF vars, gitVars, engineVars, boundVars, Inv, TypeInv, TypeOK, CountInv, IdsInv,
              CandidateInv
<1> QED
  BY <1>1, TypesStay, IdsStay, CandidateStays DEF Inv

LEMMA InvBegins == ASSUME Init PROVE Inv
<1> USE ResearchAssumption DEF Init
<1>1. branch \in Seq([id : {0} \cup Experiment, edits : Edits])
  BY DEF Root, Edits
<1>2. TypeOK
  <2>1. cache \in {Cold} \cup Edits /\ staged \in Edits /\ unstaged \in Edits
    BY DEF Edits
  <2>2. crashRow \in 0..MaxCrashesInRow /\ count \in 0..MaxExperiments
    OBVIOUS
  <2>3. ledger \in Seq([exp : {0} \cup Experiment, status : {"keep", "discard", "crash"}])
    OBVIOUS
  <2> QED
    BY <1>1, <2>1, <2>2, <2>3 DEF TypeOK
<1>3. CountInv
  BY DEF CountInv
<1>4. IdsInv /\ CandidateInv
  BY DEF IdsInv, CandidateInv, Root
<1> QED
  BY <1>2, <1>3, <1>4 DEF Inv, TypeInv

(***************************************************************************)
(* The branch tells what the ledger tells.                                 *)
(***************************************************************************)
\* NothingUnjudged, place by place.
Judged ==
  pc # "down" => \A i \in DOMAIN branch :
    i > base => \/ branch[i].id = pending
                \/ \E j \in DOMAIN ledger :
                     ledger[j].status = "keep" /\ ledger[j].exp = branch[i].id

LEMMA JudgedStays == ASSUME Inv, Judged, [Next]_vars PROVE Judged'
<1>1. CASE UNCHANGED vars
  BY <1>1 DEF vars, gitVars, engineVars, boundVars, Judged
<1>2. CASE Start
  <2>1. branch' = branch /\ base' = Len(branch)
    BY <1>2 DEF Start, gitVars
  <2>2. DOMAIN branch = 1..Len(branch) /\ Len(branch) \in Nat
    BY LenProperties DEF Inv, TypeInv, TypeOK
  <2> QED
    BY <2>1, <2>2 DEF Judged
<1>3. ASSUME Next, ~Start, pc' # "down"
      PROVE  pc # "down" /\ UNCHANGED base
  BY <1>3 DEF Next, EngineStep, Baseline, BaselineFails, BeginExperiment, Finish, Remembered,
       Handled, StopSignal, Keep, Commit, Discard, Raises, TimesOut, CanTimeOut, HandleFailure,
       CommitFails, RollbackFails, Kill, boundVars
\* A pending commit is given up only when it is kept or off the branch.
<1>4. ASSUME Next, pc' # "down", pending # 0, pending' # pending,
             NEW i \in DOMAIN branch', branch'[i].id = pending, ~Start
      PROVE  \E j \in DOMAIN ledger :
               ledger[j].status = "keep" /\ ledger[j].exp = branch'[i].id
  <2>1. pc \in {"evaluating", "remembering"} /\ pending = made
    BY <1>3, <1>4 DEF Next, EngineStep, Baseline, BaselineFails, BeginExperiment, Finish,
       Remembered, Handled, StopSignal, Keep, Commit, Discard, Raises, TimesOut, CanTimeOut,
       HandleFailure, CommitFails, RollbackFails, Kill, boundVars, Inv, CandidateInv
  <2>2. Remembered \/ Raises \/ TimesOut
    BY <1>4, <2>1 DEF Next, EngineStep, Baseline, BaselineFails, BeginExperiment, Finish,
       Handled, StopSignal, Keep, Commit, Discard, CommitFails, RollbackFails, Kill
  <2>3. i \in DOMAIN branch /\ branch[i].id = made /\ (TakenOff => i # Len(branch))
    BY <1>4, <2>1, BranchPlaces DEF Commit
  <2>4. ~TakenOff
    <3>1. SUFFICES ASSUME TakenOff PROVE FALSE
      OBVIOUS
    <3>2. Len(branch) \in DOMAIN branch
      BY BranchHasTip
    <3> QED
      BY <2>3, <3>1, <3>2 DEF TakenOff, Inv, IdsInv
  <2>5. pc = "remembering"
    <3>1. SUFFICES ASSUME pc = "evaluating" PROVE FALSE
      BY <2>1
    <3>2. CandidateOnTop /\ Rollback
      BY <1>4, <2>1, <2>2, <3>1 DEF Remembered, Raises, TimesOut, HandleFailure, CandidateOnTop,
         Tip, Last, Inv, CandidateInv
    <3> QED
      BY <2>4, <3>1, <3>2 DEF Rollback, Reset, TakenOff, Inv, CandidateInv
  <2>6. /\ Len(ledger) \in DOMAIN ledger
        /\ ledger[Len(ledger)].status = "keep" /\ ledger[Len(ledger)].exp = made
    <3>1. ledger # <<>> /\ ledger \in Seq(Rows)
      BY <2>5 DEF Inv, CandidateInv, TypeInv, TypeOK, Rows
    <3>2. Len(ledger) \in DOMAIN ledger
      BY <3>1, EmptySeq, LenProperties
    <3> QED
      BY <2>3, <2>5, <3>2 DEF Inv, CandidateInv
  <2> QED
    BY <1>4, <2>1, <2>6
<1>5. ASSUME Next, ~Start, pc' # "down", NEW i \in DOMAIN branch', i > base'
      PROVE  \/ branch'[i].id = pending'
             \/ \E j \in DOMAIN ledger' :
                  ledger'[j].status = "keep" /\ ledger'[j].exp = branch'[i].id
  <2>0. pc # "down" /\ base' = base
    BY <1>3, <1>5
  <2>1. \A j \in DOMAIN ledger : j \in DOMAIN ledger' /\ ledger'[j] = ledger[j]
    BY <1>5, LedgerAfter
  <2>2. CASE i \in DOMAIN branch /\ branch'[i] = branch[i]
    <3>1. \/ branch[i].id = pending
          \/ \E j \in DOMAIN ledger :
               ledger[j].status = "keep" /\ ledger[j].exp = branch[i].id
      BY <1>5, <2>0, <2>2 DEF Judged
    <3>2. CASE branch[i].id = pending /\ pending # 0
      BY <1>4, <1>5, <2>1, <2>2, <3>2
    <3>3. CASE branch[i].id = pending /\ pending = 0
      <4>1. 1 \in DOMAIN branch
        BY BranchHasTip
      <4>2. i = 1
        BY <2>2, <3>3, <4>1 DEF Inv, IdsInv
      <4> QED
        BY <1>5, <2>0, <4>2 DEF Inv, TypeInv, CountInv
    <3> QED
      BY <2>1, <2>2, <3>1, <3>2, <3>3
  <2>3. CASE ~(i \in DOMAIN branch /\ branch'[i] = branch[i])
    <3>1. Commit /\ branch'[i].id = made
      BY <1>5, <2>3, BranchPlaces
    <3> QED
      BY <3>1 DEF Commit
  <2> QED
    BY <2>2, <2>3
<1> QED
  BY <1>1, <1>2, <1>5 DEF Judged

\* KeptUnlessTimedOut, and why a rollback strikes the last row only: while an
\* experiment is remembered, no earlier row is of it.
KeptTold ==
  /\ KeptUnlessTimedOut
  /\ pc = "remembering" =>
       \A i \in DOMAIN ledger : ledger[i].exp = made => i = Len(ledger)

LEMMA LastRowStays ==
  ASSUME Inv, KeptTold, Next, pc' = "remembering", NEW i \in DOMAIN ledger', ledger'[i].exp = made'
  PROVE  i = Len(ledger')
<1>0. \/ Keep \/ Discard
      \/ pc = "remembering" /\ UNCHANGED <<ledger, made>>
  BY DEF Next, EngineStep, Start, Baseline, BaselineFails, BeginExperiment, Finish, Remembered,
       Handled, StopSignal, Keep, Commit, Discard, Raises, TimesOut, HandleFailure,
       CommitFails, RollbackFails, Kill, boundVars
<1>1. CASE Keep \/ Discard
  <2>1. pc = "evaluating" /\ made' = made
    BY <1>1 DEF Keep, Discard, boundVars
  <2>2. i \notin DOMAIN ledger
    <3>1. SUFFICES ASSUME i \in DOMAIN ledger PROVE FALSE
      OBVIOUS
    <3>2. ledger'[i] = ledger[i]
      BY <3>1, LedgerAfter
    <3> QED
      BY <2>1, <3>1, <3>2 DEF Inv, CandidateInv
  <2>3. /\ DOMAIN ledger = 1..Len(ledger) /\ DOMAIN ledger' = 1..Len(ledger')
        /\ Len(ledger) \in Nat /\ Len(ledger') = Len(ledger) + 1
    BY <1>1, LedgerAfter DEF Recorded
  <2> QED
    BY <2>2, <2>3
<1>2. CASE pc = "remembering" /\ UNCHANGED <<ledger, made>>
  BY <1>2 DEF KeptTold
<1> QED
  BY <1>0, <1>1, <1>2

\* The row a step records is the next one, and the only new one.
LEMMA RowRecorded ==
  ASSUME Inv, Next, NEW exp, NEW status, Recorded(exp, status)
  PROVE  /\ Len(ledger) + 1 \in DOMAIN ledger'
         /\ ledger'[Len(ledger) + 1].exp = exp /\ ledger'[Len(ledger) + 1].status = status
         /\ \A i \in DOMAIN ledger' : i \in DOMAIN ledger \/ i = Len(ledger) + 1
<1>1. /\ DOMAIN ledger = 1..Len(ledger) /\ DOMAIN ledger' = 1..Len(ledger')
      /\ Len(ledger) \in Nat
  BY LedgerAfter
<1>2. /\ Len(ledger') = Len(ledger) + 1
      /\ ledger'[Len(ledger) + 1] = [exp |-> exp, status |-> status]
  BY DEF Recorded
<1> QED
  BY <1>1, <1>2

\* A kept row of before keeps its excuse, or its commit.
LEMMA OldRowTold ==
  ASSUME Inv, KeptTold, Next, NEW i \in DOMAIN ledger, ledger[i].status = "keep"
  PROVE  \/ ledger[i].exp \in OnBranch'
         \/ i + 1 \in DOMAIN ledger' /\ ledger'[i + 1].exp \in {0, ledger[i].exp}
         \/ i = Len(ledger') /\ pc' \in {"down", "baselining"}
<1>0. /\ DOMAIN ledger = 1..Len(ledger) /\ Len(ledger) \in Nat
      /\ \A j \in DOMAIN ledger : j \in DOMAIN ledger' /\ ledger'[j] = ledger[j]
      /\ DOMAIN ledger' = 1..Len(ledger')
  BY LedgerAfter
<1>1. ASSUME NEW k \in DOMAIN branch, branch[k].id = ledger[i].exp, k \in DOMAIN branch',
             branch'[k] = branch[k]
      PROVE  ledger[i].exp \in OnBranch'
  BY <1>1 DEF OnBranch
<1>2. ASSUME NEW k \in DOMAIN branch, branch[k].id = ledger[i].exp,
             ~(k \in DOMAIN branch' /\ branch'[k] = branch[k])
      PROVE  \/ i + 1 \in DOMAIN ledger' /\ ledger'[i + 1].exp \in {0, ledger[i].exp}
             \/ i = Len(ledger') /\ pc' \in {"down", "baselining"}
  <2>1. TakenOff /\ k = Len(branch)
    <3>1. /\ DOMAIN branch = 1..Len(branch) /\ DOMAIN branch' = 1..Len(branch')
          /\ Len(branch) \in Nat \ {0}
      BY BranchAfter
    <3>2. CASE UNCHANGED branch
      BY <1>2, <3>2
    <3>3. CASE /\ TakenOff /\ Len(branch') = Len(branch) - 1
               /\ \A j \in DOMAIN branch' : branch'[j] = branch[j]
      BY <1>2, <3>1, <3>3
    <3>4. CASE /\ Len(branch') = Len(branch) + 1
               /\ \A j \in DOMAIN branch : branch'[j] = branch[j]
      BY <1>2, <3>1, <3>4
    <3> QED
      BY <3>2, <3>3, <3>4, BranchAfter
  <2>2. ledger[i].exp = made /\ pc = "remembering"
    BY <1>2, <2>1 DEF TakenOff, Inv, CandidateInv
  <2>3. i = Len(ledger)
    BY <2>2 DEF KeptTold
  <2>4. branch' # branch
    <3>1. Len(branch') = Len(branch) - 1 /\ Len(branch) \in Nat \ {0}
      BY <2>1, BranchAfter
    <3>2. Len(branch') # Len(branch)
      BY <3>1
    <3> QED
      BY <3>2
  <2>5. TimesOut \/ (pc' = "down" /\ UNCHANGED ledger)
    BY <2>2, <2>4 DEF Next, EngineStep, Start, Baseline, BaselineFails, BeginExperiment, Finish,
       Remembered, Handled, StopSignal, Keep, Commit, Discard, Raises, CommitFails,
       RollbackFails, Kill, gitVars
  <2>6. CASE TimesOut
    <3>1. Recorded(made, "crash")
      <4>1. ledger' # ledger
        <5>1. Row("crash")
          BY <2>6 DEF TimesOut, HandleFailure
        <5>2. ledger \in Seq(Rows) /\ [exp |-> made, status |-> "crash"] \in Rows
          BY MadeIsExperiment DEF Inv, TypeInv, TypeOK, Rows
        <5>3. Len(ledger') = Len(ledger) + 1
          BY <5>1, <5>2, AppendProperties DEF Row
        <5> QED
          BY <1>0, <5>3
      <4> QED
        BY <2>2, <4>1, LedgerAfter DEF Baseline, Keep, Discard
    <3>2. i + 1 \in DOMAIN ledger' /\ ledger'[i + 1].exp = made
      BY <2>3, <3>1, RowRecorded
    <3> QED
      BY <2>2, <3>2
  <2> QED
    BY <2>3, <2>5, <2>6
<1>3. CASE ledger[i].exp \in OnBranch
  BY <1>1, <1>2, <1>3 DEF OnBranch
<1>4. CASE i + 1 \in DOMAIN ledger /\ ledger[i + 1].exp \in {0, ledger[i].exp}
  BY <1>0, <1>4
<1>5. CASE i = Len(ledger) /\ pc \in {"down", "baselining"}
  <2>1. \/ Baseline
        \/ pc' \in {"down", "baselining"} /\ UNCHANGED ledger
    BY <1>5 DEF Next, EngineStep, Start, BaselineFails, BeginExperiment, Finish, Remembered,
       Handled, StopSignal, Keep, Commit, Discard, Raises, TimesOut, CanTimeOut, HandleFailure,
       CommitFails, RollbackFails, Kill
  <2>2. CASE Baseline
    <3>1. \/ UNCHANGED ledger
          \/ Recorded(0, "keep")
      BY <2>2, LedgerAfter DEF Baseline, Keep, Discard, Raises, TimesOut, CanTimeOut, CommitFails
    <3>2. ledger' # ledger
      <4>1. ledger \in Seq(Rows) /\ [exp |-> 0, status |-> "keep"] \in Rows
        BY DEF Inv, TypeInv, TypeOK, Rows
      <4>2. Len(ledger') = Len(ledger) + 1
        BY <2>2, <4>1, AppendProperties DEF Baseline
      <4> QED
        BY <1>0, <4>2
    <3>3. Recorded(0, "keep")
      BY <3>1, <3>2
    <3>4. i + 1 \in DOMAIN ledger' /\ ledger'[i + 1].exp = 0
      BY <1>5, <3>3, RowRecorded
    <3> QED
      BY <3>4
  <2> QED
    BY <1>5, <2>1, <2>2
<1> QED
  BY <1>3, <1>4, <1>5 DEF KeptTold, KeptUnlessTimedOut

LEMMA KeptStaysTold == ASSUME Inv, KeptTold, [Next]_vars PROVE KeptTold'
<1>1. CASE UNCHANGED vars
  BY <1>1 DEF vars, gitVars, engineVars, boundVars, KeptTold, KeptUnlessTimedOut, OnBranch
<1>2. ASSUME Next, NEW i \in DOMAIN ledger', ledger'[i].status = "keep"
      PROVE  \/ ledger'[i].exp \in OnBranch'
             \/ i + 1 \in DOMAIN ledger' /\ ledger'[i + 1].exp \in {0, ledger'[i].exp}
             \/ i = Len(ledger') /\ pc' \in {"down", "baselining"}
  <2>1. CASE i \in DOMAIN ledger
    BY <1>2, <2>1, OldRowTold, LedgerAfter
  <2>2. CASE i \notin DOMAIN ledger
    <3>1. \/ Baseline /\ ledger'[i].exp = 0
          \/ Keep /\ ledger'[i].exp = made
      <4>1. ASSUME NEW exp, NEW status, Recorded(exp, status)
            PROVE  ledger'[i].exp = exp /\ ledger'[i].status = status
        BY <1>2, <2>2, <4>1, RowRecorded
      <4>2. ~UNCHANGED ledger
        BY <1>2, <2>2
      <4>3. CASE Baseline /\ Recorded(0, "keep")
        BY <4>1, <4>3
      <4>4. CASE Keep /\ Recorded(made, "keep")
        BY <4>1, <4>4
      <4>5. CASE Recorded(made, "discard") \/ Recorded(made, "crash")
        <5>1. ledger'[i].status \in {"discard", "crash"}
          BY <4>1, <4>5
        <5> QED
          BY <1>2, <5>1
      <4> QED
        BY <1>2, <4>2, <4>3, <4>4, <4>5, LedgerAfter
    <3>2. 1 \in DOMAIN branch /\ Len(branch) \in DOMAIN branch
      BY BranchHasTip
    <3>3. CASE Baseline /\ ledger'[i].exp = 0
      BY <3>2, <3>3 DEF Baseline, gitVars, OnBranch, Inv, IdsInv
    <3>4. CASE Keep /\ ledger'[i].exp = made
      BY <3>2, <3>4 DEF Keep, gitVars, OnBranch, Inv, CandidateInv
    <3> QED
      BY <3>1, <3>3, <3>4
  <2> QED
    BY <2>1, <2>2
<1> QED
  BY <1>1, <1>2, LastRowStays DEF KeptTold, KeptUnlessTimedOut

\* CacheFresh holds on the way from a judgement to the next experiment too.
CacheTold == pc \in {"resting", "proposing", "remembering", "handling"} => cache \in {Cold, Tree}

LEMMA CacheStaysTold == ASSUME CacheTold, [Next]_vars PROVE CacheTold'
<1>1. UNCHANGED gitVars => Tree' = Tree
  BY DEF gitVars, Tree
<1>2. CASE UNCHANGED vars
  BY <1>1, <1>2 DEF vars, engineVars, CacheTold
<1>3. CASE Baseline \/ Keep \/ BeginExperiment
  BY <1>1, <1>3 DEF Baseline, Keep, BeginExperiment, CacheTold
<1>4. CASE Start \/ BaselineFails \/ Finish \/ Commit \/ Discard \/ CommitFails
           \/ RollbackFails \/ Kill
  BY <1>4 DEF Start, BaselineFails, Finish, Commit, Discard, CommitFails, RollbackFails, Kill,
              CacheTold
<1>5. CASE StopSignal \/ Remembered \/ Handled
  BY <1>1, <1>5 DEF StopSignal, Remembered, Handled, CacheTold
<1>6. CASE Raises \/ TimesOut
  BY <1>6 DEF Raises, TimesOut, HandleFailure, Rollback, CacheTold
<1> QED
  BY <1>2, <1>3, <1>4, <1>5, <1>6, NextByGit DEF Quiet

-----------------------------------------------------------------------------
\* The branch tells what the ledger tells: in a session no commit of it is
\* unjudged but the candidate (engine.py's handler looks at HEAD before it
\* resets), and a row "keep" has its commit on the branch, or the crash of its
\* own experiment, a new baseline or the end of the session after it.
THEOREM BranchIsHonest == Spec => []BranchTellsLedger
<1>1. Init => Inv /\ Judged /\ KeptTold
  <2>1. Init => Judged /\ KeptTold
    BY DEF Init, Judged, KeptTold, KeptUnlessTimedOut
  <2> QED
    BY <2>1, InvBegins
<1>2. Inv /\ Judged /\ KeptTold /\ [Next]_vars => (Inv /\ Judged /\ KeptTold)'
  BY InvStays, JudgedStays, KeptStaysTold
<1>3. Inv /\ Judged /\ KeptTold => BranchTellsLedger
  BY DEF Inv, TypeInv, Judged, KeptTold, BranchTellsLedger, NothingUnjudged, Kept
<1> QED
  BY <1>1, <1>2, <1>3, PTL DEF Spec

\* The proposal's context is of the tree the proposal edits: every path that
\* changes the tree drops the evaluation the target has cached.
THEOREM CacheIsFresh == Spec => []CacheFresh
<1>1. Init => CacheTold
  BY DEF Init, CacheTold
<1>2. CacheTold /\ [Next]_vars => CacheTold'
  BY CacheStaysTold
<1>3. CacheTold => CacheFresh
  BY DEF CacheTold, CacheFresh
<1> QED
  BY <1>1, <1>2, <1>3, PTL DEF Spec

-----------------------------------------------------------------------------
(***************************************************************************)
(* The engine implements KeptBranch.  While a candidate is evaluated it is *)
(* the last commit of the git branch, and the trunk is what is before it;  *)
(* at any other time the trunk is the git branch.                          *)
(***************************************************************************)
\* A branch is what is before its last commit, and that commit.
LEMMA FrontAndTip ==
  ASSUME Inv
  PROVE  /\ branch = Append(Front(branch), Tip)
         /\ Tip = branch[Len(branch)] /\ Tip \in Commits
         /\ \A i \in DOMAIN Front(branch) : \E j \in DOMAIN branch :
              Front(branch)[i] = branch[j] /\ j # Len(branch)
<1>1. branch \in Seq(Commits) /\ branch # <<>>
  BY DEF Inv, TypeInv, TypeOK, IdsInv, Commits
<1>2. /\ Front(branch) \in Seq(Commits) /\ Len(Front(branch)) = Len(branch) - 1
      /\ DOMAIN Front(branch) = 1..(Len(branch) - 1)
      /\ DOMAIN branch = 1..Len(branch) /\ Len(branch) \in Nat \ {0}
      /\ \A i \in 1..(Len(branch) - 1) : Front(branch)[i] = branch[i]
  BY <1>1, FrontIsShorter, EmptySeq, LenProperties
<1>3. Tip = branch[Len(branch)] /\ Tip \in Commits
  BY <1>1, <1>2 DEF Tip, Last
<1>4. /\ Append(Front(branch), Tip) \in Seq(Commits)
      /\ Len(Append(Front(branch), Tip)) = Len(branch)
      /\ \A i \in 1..Len(branch) : Append(Front(branch), Tip)[i] = branch[i]
  BY <1>2, <1>3, AppendProperties
<1> QED
  BY <1>1, <1>2, <1>3, <1>4, SeqEqual

\* The commit of this experiment is new to the branch it joins.
LEMMA CommitIsProposal ==
  ASSUME Inv, Commit
  PROVE  /\ Front(branch') = branch /\ Tip' \in Commits /\ Tip'.id = made
<1>1. PICK e \in Edits : Committed(e)
  BY CommitStep
<1> DEFINE c == [id |-> made, edits |-> e]
<1>2. branch \in Seq(Commits) /\ c \in Commits
  BY MadeIsExperiment DEF Commits, Inv, TypeInv, TypeOK
<1>3. branch' = Append(branch, c)
  BY <1>1 DEF Committed
<1> HIDE DEF c
<1>4. /\ branch' \in Seq(Commits) /\ branch' # <<>> /\ Len(branch') = Len(branch) + 1
      /\ Len(branch) \in Nat
      /\ \A i \in 1..Len(branch) : branch'[i] = branch[i]
      /\ branch'[Len(branch')] = c
  BY <1>2, <1>3, AppendProperties, LenProperties
<1>5. /\ Front(branch') \in Seq(Commits) /\ Len(Front(branch')) = Len(branch') - 1
      /\ \A i \in 1..(Len(branch') - 1) : Front(branch')[i] = branch'[i]
  BY <1>4, FrontIsShorter
<1>6. Front(branch') = branch
  BY <1>2, <1>4, <1>5, SeqEqual
<1> QED
  BY <1>2, <1>4, <1>6 DEF Tip, Last, c

\* What the handler of a failure makes of the branch: a candidate that is still
\* on top is taken off, and nothing else.
LEMMA RollbackByPhase ==
  ASSUME Inv, pc \in {"proposing", "evaluating", "remembering"}
  PROVE  /\ pc = "proposing" => ~CandidateOnTop
         /\ pc = "evaluating" => CandidateOnTop
         /\ pc = "remembering" => (CandidateOnTop <=> Tip.id = made)
BY FrontAndTip DEF CandidateOnTop, Inv, CandidateInv

\* A commit kept and taken off is that of the last verdict.
LEMMA WithdrawalIsTold ==
  ASSUME Inv, pc = "remembering", Tip.id = made
  PROVE  /\ ledger # <<>>
         /\ Last(ledger) = [exp |-> Last(branch).id, status |-> "keep"]
<1>1. /\ ledger \in Seq(Rows) /\ ledger # <<>> /\ Last(ledger) = ledger[Len(ledger)]
      /\ Len(ledger) \in DOMAIN ledger
  <2>1. ledger \in Seq(Rows) /\ ledger # <<>>
    BY DEF Inv, CandidateInv, TypeInv, TypeOK, Rows
  <2>2. Len(ledger) \in DOMAIN ledger
    BY <2>1, EmptySeq, LenProperties
  <2> QED
    BY <2>1, <2>2 DEF Last
<1>2. ledger[Len(ledger)].exp = made /\ ledger[Len(ledger)].status = "keep"
  BY FrontAndTip, BranchHasTip DEF Inv, CandidateInv
<1>3. ledger[Len(ledger)] \in Rows
  BY <1>1
<1> QED
  BY <1>1, <1>2, <1>3 DEF Rows, Tip

\* While a kept experiment is remembered, its commit is HEAD.
KeptOnTop ==
  pc = "remembering" /\ ledger[Len(ledger)].status = "keep" => branch[Len(branch)].id = made

LEMMA KeptStaysOnTop == ASSUME Inv, KeptOnTop, [Next]_vars PROVE KeptOnTop'
<1>1. CASE UNCHANGED vars
  BY <1>1 DEF vars, gitVars, boundVars, engineVars, KeptOnTop
<1>2. CASE Keep
  BY <1>2 DEF Keep, gitVars, boundVars, KeptOnTop, Inv, CandidateInv
<1>3. CASE Discard
  <2>1. Recorded(made, "discard")
    <3>1. Next
      BY <1>3 DEF Next
    <3> QED
      BY <1>3, <3>1, LedgerAfter
  <2>2. ledger'[Len(ledger')].status = "discard"
    BY <2>1 DEF Recorded
  <2> QED
    BY <2>2 DEF KeptOnTop
<1>4. CASE StopSignal
  BY <1>4 DEF StopSignal, gitVars, boundVars, KeptOnTop
<1>5. ASSUME Next, ~(Keep \/ Discard \/ StopSignal) PROVE pc' # "remembering"
  BY <1>5 DEF Next, EngineStep, Start, Baseline, BaselineFails, BeginExperiment, Finish,
       Remembered, Handled, Commit, Raises, TimesOut, HandleFailure, CommitFails,
       RollbackFails, Kill
<1> QED
  BY <1>1, <1>2, <1>3, <1>4, <1>5 DEF KeptOnTop

\* A failed experiment that is not HEAD has no commit on the branch.
LEMMA NotOnBranch ==
  ASSUME Inv, KeptOnTop, \/ pc = "proposing"
                         \/ pc = "remembering" /\ Tip.id # made
  PROVE  \A i \in DOMAIN branch : branch[i].id # made
<1>1. pc = "remembering" /\ Tip.id # made => ledger[Len(ledger)].status # "keep"
  BY FrontAndTip DEF KeptOnTop
<1> QED
  BY <1>1 DEF Inv, CandidateInv

(***************************************************************************)
(* Every step of the engine is one of the branch, or none.                 *)
(***************************************************************************)
BranchMoves == Branch!Next \/ UNCHANGED Branch!branchVars

\* What leaves git's branch and the ledger alone while nothing is evaluated.
LEMMA StutterOfBranch ==
  ASSUME UNCHANGED <<branch, ledger>>,
         \/ pc # "evaluating" /\ pc' # "evaluating"
         \/ pc = "evaluating" /\ pc' = "evaluating"
  PROVE  UNCHANGED Branch!branchVars
BY DEF Branch!branchVars, Tip

LEMMA ProposalOfBranch == ASSUME Inv, Commit PROVE Branch!Next
<1>1. /\ Front(branch') = branch /\ Tip' \in Commits /\ Tip'.id = made
      /\ pc = "proposing" /\ pc' = "evaluating" /\ ledger' = ledger
  BY CommitIsProposal DEF Commit
<1>2. /\ \A i \in DOMAIN branch : branch[i].id # made
      /\ \A i \in DOMAIN ledger : ledger[i].exp # made
  BY <1>1 DEF Inv, CandidateInv
<1>3. Branch!Propose(Tip')
  BY <1>1, <1>2 DEF Branch!Propose, Branch!OnTrunk, Branch!Judged
<1>4. Tip' \in [id : {0} \cup Experiment, edits : Edits]
  BY <1>1 DEF Commits
<1> QED
  BY <1>1, <1>3, <1>4 DEF Branch!Next

LEMMA VerdictOfBranch ==
  ASSUME Inv, pc = "evaluating", pc' # "evaluating"
  PROVE  /\ branch' = branch /\ Row("keep") => Branch!Next
         /\ branch' = Front(branch) /\ Row("discard") => Branch!Next
         /\ branch' = Front(branch) /\ Row("crash") => Branch!Next
         /\ branch' = branch /\ UNCHANGED ledger => Branch!Next
         /\ branch' = Front(branch) /\ UNCHANGED ledger => Branch!Next
<1>1. branch = Append(Front(branch), Tip) /\ Tip.id = made
  BY FrontAndTip DEF Inv, CandidateInv
<1>2. branch' = branch /\ Row("keep") => Branch!Accept(Tip)
  BY <1>1 DEF Branch!Accept, Branch!Verdict, Row
<1>3. ASSUME NEW status, branch' = Front(branch), Row(status) PROVE Branch!Reject(Tip, status)
  BY <1>1, <1>3 DEF Branch!Reject, Branch!Verdict, Row
<1>4. branch' \in {branch, Front(branch)} /\ UNCHANGED ledger => Branch!Abandon(Tip)
  BY <1>1 DEF Branch!Abandon
<1>5. \/ Branch!Accept(Tip) \/ Branch!Reject(Tip, "discard") \/ Branch!Reject(Tip, "crash")
      \/ Branch!Abandon(Tip)
      => Branch!Next
  BY DEF Branch!Next
<1> QED
  BY <1>2, <1>3, <1>4, <1>5

LEMMA WithdrawalOfBranch ==
  ASSUME Inv, pc = "remembering", Tip.id = made, pc' # "evaluating", branch' = Front(branch),
         Row("crash") \/ UNCHANGED ledger
  PROVE  Branch!Next
<1>1. \A s : Branch!Last(s) = Last(s) /\ Branch!Front(s) = Front(s)
  BY DEF Branch!Last, Last, Branch!Front, Front
<1>2. ledger # <<>> /\ Last(ledger) = [exp |-> made, status |-> "keep"] /\ Last(branch).id = made
  BY WithdrawalIsTold DEF Tip
<1>3. Branch!Withdraw
  BY <1>1, <1>2 DEF Branch!Withdraw, Branch!Verdict, Row
<1> QED
  BY <1>3 DEF Branch!Next

LEMMA FailureOfBranch ==
  ASSUME Inv, KeptOnTop, \/ pc = "proposing"
                         \/ pc = "remembering" /\ Tip.id # made,
         pc' # "evaluating", branch' = branch, Row("crash")
  PROVE  Branch!Next
<1>1. \A i \in DOMAIN branch : branch[i].id # made
  BY NotOnBranch
<1>2. Branch!Fail(made)
  BY <1>1 DEF Branch!Fail, Branch!OnTrunk, Branch!Verdict, Row
<1>3. made \in Experiment
  BY MadeIsExperiment DEF Inv, CandidateInv
<1> QED
  BY <1>2, <1>3 DEF Branch!Next

\* A failure's handler, whether it reaches its row or not.
LEMMA RollbackOfBranch ==
  ASSUME Inv, KeptOnTop, pc \in {"proposing", "evaluating", "remembering"},
         pc' # "evaluating",
         branch' = IF CandidateOnTop THEN Front(branch) ELSE branch,
         Row("crash") \/ UNCHANGED ledger
  PROVE  BranchMoves
<1>1. CASE pc = "proposing"
  BY <1>1, RollbackByPhase, FailureOfBranch, StutterOfBranch DEF BranchMoves
<1>2. CASE pc = "evaluating"
  BY <1>2, RollbackByPhase, VerdictOfBranch DEF BranchMoves
<1>3. CASE pc = "remembering"
  BY <1>3, RollbackByPhase, WithdrawalOfBranch, FailureOfBranch, StutterOfBranch DEF BranchMoves
<1> QED
  BY <1>1, <1>2, <1>3

LEMMA EngineMovesBranch == ASSUME Inv, KeptOnTop, Next PROVE BranchMoves
<1>1. CASE Start \/ BaselineFails \/ BeginExperiment \/ Finish \/ Remembered \/ Handled
           \/ StopSignal
  <2>1. UNCHANGED <<branch, ledger>>
    BY <1>1 DEF Start, BaselineFails, BeginExperiment, Finish, Remembered, Handled, StopSignal,
                gitVars
  <2>2. \/ pc # "evaluating" /\ pc' # "evaluating"
        \/ pc' = pc
    BY <1>1 DEF Start, BaselineFails, BeginExperiment, Finish, Remembered, Handled, StopSignal
  <2> QED
    BY <2>1, <2>2, StutterOfBranch DEF BranchMoves
<1>2. CASE Baseline
  <2>1. Branch!Baseline
    BY <1>2 DEF Baseline, gitVars, Branch!Baseline, Branch!Verdict, Root
  <2> QED
    BY <2>1 DEF BranchMoves, Branch!Next
<1>3. CASE Keep
  <2>1. pc = "evaluating" /\ pc' # "evaluating" /\ branch' = branch /\ Row("keep")
    BY <1>3 DEF Keep, gitVars
  <2> QED
    BY <2>1, VerdictOfBranch DEF BranchMoves
<1>4. CASE Discard
  <2>1. pc = "evaluating" /\ pc' # "evaluating" /\ branch' = Front(branch) /\ Row("discard")
    BY <1>4 DEF Discard, Reset
  <2> QED
    BY <2>1, VerdictOfBranch DEF BranchMoves
<1>5. CASE Commit
  BY <1>5, ProposalOfBranch DEF BranchMoves
<1>6. CASE Raises \/ TimesOut
  <2>1. /\ pc \in {"proposing", "evaluating", "remembering"} /\ pc' # "evaluating"
        /\ branch' = IF CandidateOnTop THEN Front(branch) ELSE branch
        /\ Row("crash")
    BY <1>6 DEF Raises, TimesOut, CanTimeOut, HandleFailure, Rollback, Reset, RevertIfDirty
  <2> QED
    BY <2>1, RollbackOfBranch
<1>7. CASE CommitFails
  <2>1. pc = "proposing" /\ pc' # "evaluating" /\ branch' = branch /\ Row("crash")
    BY <1>7 DEF CommitFails
  <2> QED
    BY <2>1, FailureOfBranch DEF BranchMoves
\* A session that dies, with the branch as it was or without its candidate.
<1>8. ASSUME pc' = "down", UNCHANGED ledger, branch' = branch PROVE BranchMoves
  BY <1>8, VerdictOfBranch, StutterOfBranch DEF BranchMoves
<1>9. CASE RollbackFails
  <2>1. /\ pc \in {"proposing", "evaluating", "remembering"} /\ pc' = "down"
        /\ UNCHANGED ledger
        /\ branch' \in {branch, IF CandidateOnTop THEN Front(branch) ELSE branch}
    BY <1>9 DEF RollbackFails, CanTimeOut, Rollback, Reset, RevertIfDirty
  <2> QED
    BY <1>8, <2>1, RollbackOfBranch
<1>10. CASE Kill
  <2>1. /\ pc' = "down" /\ UNCHANGED ledger
        /\ \/ branch' = branch
           \/ /\ pc \in {"proposing", "evaluating", "remembering"} /\ CandidateOnTop
              /\ branch' = Front(branch)
    BY <1>10 DEF Kill, CanTimeOut, Reset, gitVars
  <2> QED
    BY <1>8, <2>1, RollbackOfBranch
<1> QED
  BY <1>1, <1>2, <1>3, <1>4, <1>5, <1>6, <1>7, <1>9, <1>10, NextByGit DEF Quiet

\* For any number of experiments, sessions and git errors, whatever times out,
\* fails or is killed, what is on the branch joined it and left it as KeptBranch
\* says: at its end, with its verdict or straight after it.
THEOREM EngineKeepsBranch == Spec => BranchSpec
<1>1. Init => Inv /\ KeptOnTop /\ Branch!Init
  <2>1. Init => KeptOnTop /\ Branch!Init
    BY DEF Init, KeptOnTop, Branch!Init
  <2> QED
    BY <2>1, InvBegins
<1>2. Inv /\ KeptOnTop /\ [Next]_vars => (Inv /\ KeptOnTop)'
  BY InvStays, KeptStaysOnTop
<1>3. Inv /\ KeptOnTop /\ [Next]_vars => [Branch!Next]_(Branch!branchVars)
  <2> SUFFICES ASSUME Inv, KeptOnTop, [Next]_vars PROVE BranchMoves
    BY DEF BranchMoves
  <2>1. CASE UNCHANGED vars
    BY <2>1, StutterOfBranch DEF vars, gitVars, engineVars, BranchMoves
  <2>2. CASE Next
    BY <2>2, EngineMovesBranch
  <2> QED
    BY <2>1, <2>2
<1> QED
  BY <1>1, <1>2, <1>3, PTL DEF Spec, BranchSpec, Branch!Spec
--------------------------------------------------------------------------------
(***************************************************************************)
(* The self-healing room (RoomHealth), for any set of rules and playbooks. *)
(* First, how the scenarios and their fault types can count: two faults    *)
(* have two fixtures each, so a set of scenarios has at most two more      *)
(* members than fault types.                                               *)
(***************************************************************************)
LEMMA ScenarioFaults ==
  /\ RecorderStopped.fault = "recorder_stopped" /\ RecorderPaused.fault = "recorder_stopped"
  /\ SignalLost.fault = "signal_loss"
  /\ StorageAt95.fault = "storage_full" /\ StorageAt90.fault = "storage_full"
  /\ Unmounted.fault = "storage_unmounted" /\ Offline.fault = "device_offline"
  /\ Overloaded.fault = "cpu_overload" /\ Healthy.fault = "healthy"
BY DEF RecorderStopped, RecorderPaused, SignalLost, StorageAt95, StorageAt90, Unmounted, Offline,
       Overloaded, Healthy, Scenario

LEMMA ScenariosAreFinite == IsFiniteSet(Scenarios)
<1>1. \A a, b, c : IsFiniteSet({a, b, c})
  <2> TAKE a, b, c
  <2>1. IsFiniteSet({a}) /\ IsFiniteSet({b}) /\ IsFiniteSet({c})
    BY FS_Singleton
  <2>2. IsFiniteSet({a} \cup {b})
    BY <2>1, FS_Union
  <2>3. IsFiniteSet(({a} \cup {b}) \cup {c})
    BY <2>1, <2>2, FS_Union
  <2>4. {a, b, c} = ({a} \cup {b}) \cup {c}
    OBVIOUS
  <2> QED
    BY <2>3, <2>4
<1> DEFINE one == {RecorderStopped, RecorderPaused, SignalLost}
           two == {StorageAt95, StorageAt90, Unmounted}
           three == {Offline, Overloaded, Healthy}
<1>2. IsFiniteSet(one) /\ IsFiniteSet(two) /\ IsFiniteSet(three)
  BY <1>1
<1>3. Scenarios = (one \cup two) \cup three
  BY DEF Scenarios
<1> HIDE DEF one, two, three
<1>4. IsFiniteSet(one \cup two)
  BY <1>2, FS_Union
<1>5. IsFiniteSet((one \cup two) \cup three)
  BY <1>2, <1>4, FS_Union
<1> QED
  BY <1>3, <1>5

LEMMA TypesAndScenarios ==
  ASSUME NEW P \in SUBSET Scenarios
  PROVE  /\ Cardinality(P) \in Nat /\ Cardinality(FaultTypes(P)) \in Nat
         /\ Cardinality(FaultTypes(P)) <= Cardinality(P)
         /\ Cardinality(P) <= Cardinality(FaultTypes(P)) + 2
<1> DEFINE types == FaultTypes(P)
           Q == P \ {RecorderPaused}
           R == Q \ {StorageAt90}
           name == [s \in P |-> s.fault]
           told == [s \in R |-> s.fault]
<1>1. IsFiniteSet(P) /\ Cardinality(P) \in Nat
  BY ScenariosAreFinite, FS_Subset, FS_CardinalityType
<1>2. name \in Surjection(P, types)
  BY DEF FaultTypes, Surjection
<1>3. IsFiniteSet(types) /\ Cardinality(types) <= Cardinality(P)
  BY <1>1, <1>2, FS_Surjection
<1>4. Cardinality(types) \in Nat
  BY <1>3, FS_CardinalityType
<1>5. IsFiniteSet(Q) /\ Cardinality(Q) \in Nat /\ Cardinality(P) <= Cardinality(Q) + 1
  <2>1. /\ IsFiniteSet(Q)
        /\ Cardinality(Q) = IF RecorderPaused \in P THEN Cardinality(P) - 1 ELSE Cardinality(P)
    BY <1>1, FS_RemoveElement
  <2>2. Cardinality(Q) \in Nat
    BY <2>1, FS_CardinalityType
  <2> QED
    BY <1>1, <2>1, <2>2
<1>6. Cardinality(R) \in Nat /\ Cardinality(Q) <= Cardinality(R) + 1
  <2>1. /\ IsFiniteSet(R)
        /\ Cardinality(R) = IF StorageAt90 \in Q THEN Cardinality(Q) - 1 ELSE Cardinality(Q)
    BY <1>5, FS_RemoveElement
  <2>2. Cardinality(R) \in Nat
    BY <2>1, FS_CardinalityType
  <2> QED
    BY <1>5, <2>1, <2>2
<1>7. Cardinality(R) <= Cardinality(types)
  <2>1. R \subseteq {RecorderStopped, SignalLost, StorageAt95, Unmounted, Offline, Overloaded, Healthy}
    BY DEF Scenarios
  <2>2. \A s, t \in R : s.fault = t.fault => s = t
    BY <2>1, ScenarioFaults
  <2>3. told \in [R -> types]
    BY DEF FaultTypes
  <2>4. \A s, t \in R : told[s] = told[t] => s = t
    BY <2>2
  <2>5. told \in Injection(R, types)
    <3> HIDE DEF told
    <3> QED
      BY <2>3, <2>4 DEF Injection, IsInjective
  <2> QED
    BY <1>3, <2>5, FS_Injection
<1> HIDE DEF types, Q, R
<1>8. Cardinality(P) <= Cardinality(types) + 2
  BY <1>1, <1>4, <1>5, <1>6, <1>7
<1> QED
  BY <1>1, <1>3, <1>4, <1>8 DEF types

\* What is kept remediates no fewer scenarios: to trade one for fault types, at
\* 42 points against 27, a playbook would need two types and no scenario more.
LEMMA KeptIsNoWorse ==
  ASSUME NEW p, NEW q, ShouldKeep(q, p)
  PROVE  Cardinality(Remediated(q)) + (IF LintClean(q) /\ ~LintClean(p) THEN 1 ELSE 0)
           >= Cardinality(Remediated(p))
<1> DEFINE c(r) == Cardinality(Remediated(r))
           t(r) == Cardinality(FaultTypes(Remediated(r)))
           l(r) == IF LintClean(r) THEN 63 ELSE 0
<1>1. \A r : Remediated(r) \in SUBSET Scenarios
  BY DEF Remediated
<1>2. \A r : c(r) \in Nat /\ t(r) \in Nat /\ t(r) <= c(r) /\ c(r) <= t(r) + 2
  BY <1>1, TypesAndScenarios
<1>3. \A r : Score(r) = 42 * c(r) + 27 * t(r) + l(r)
  BY DEF Score
<1>4. Score(q) > Score(p) \/ Score(q) = Score(p)
  BY DEF ShouldKeep
<1> HIDE DEF c, t
<1>5. 42 * c(q) + 27 * t(q) + l(q) >= 42 * c(p) + 27 * t(p) + l(p)
  <2>1. l(q) \in Nat /\ l(p) \in Nat
    OBVIOUS
  <2> HIDE DEF l
  <2> QED
    BY <1>2, <1>3, <1>4, <2>1
<1>6. CASE LintClean(q) /\ ~LintClean(p)
  <2>1. 42 * c(q) + 27 * t(q) + 63 >= 42 * c(p) + 27 * t(p)
    BY <1>2, <1>5, <1>6
  <2>2. c(q) + 1 >= c(p)
    BY <1>2, <2>1
  <2> QED
    BY <1>6, <2>2 DEF c
<1>7. CASE ~(LintClean(q) /\ ~LintClean(p))
  <2>1. 42 * c(q) + 27 * t(q) >= 42 * c(p) + 27 * t(p)
    BY <1>2, <1>5, <1>7
  <2>2. c(q) >= c(p)
    BY <1>2, <2>1
  <2> QED
    BY <1>7, <2>2, <1>2 DEF c
<1> QED
  BY <1>6, <1>7

(***************************************************************************)
(* What a playbook decides, and what its actions do to the mock's rooms.   *)
(***************************************************************************)
\* Only a rule that is loaded decides, so what is decided is a known action.
LEMMA DecisionIsKnown ==
  ASSUME NEW p \in RoomPlaybooks, NEW signals
  PROVE  DecideAction(p, signals) \in KnownActions
<1> DEFINE matching == {i \in LoadPlaybook(p) : RuleMatches(p.rules[i], signals)}
           first == CHOOSE i \in matching : \A j \in matching : i <= j
<1>1. matching \subseteq LoadPlaybook(p) /\ LoadPlaybook(p) \subseteq Nat
  <2>1. p.rules \in Seq(RoomRules)
    BY RoomAssumption
  <2>2. DOMAIN p.rules \subseteq Nat
    BY <2>1
  <2> QED
    BY <2>2 DEF LoadPlaybook
<1>2. DecidingRule(p, signals) = IF matching = {} THEN 0 ELSE first
  BY DEF DecidingRule
<1>3. \A i \in LoadPlaybook(p) : p.rules[i].action \in KnownActions
  BY DEF LoadPlaybook
<1> HIDE DEF matching
<1>4. CASE matching = {}
  BY <1>2, <1>4 DEF DecideAction, KnownActions
<1>5. CASE matching # {}
  <2>1. \E k \in matching : \A j \in matching : k <= j
    BY <1>1, <1>5, LeastNumber
  <2>2. first \in matching
    BY <2>1
  <2>3. DecidingRule(p, signals) = first
    BY <1>2, <1>5
  <2> HIDE DEF first
  <2>4. first \in LoadPlaybook(p)
    BY <1>1, <2>2
  <2> QED
    BY <1>3, <2>3, <2>4 DEF DecideAction, KnownActions
<1> QED
  BY <1>4, <1>5

LEMMA SameRuleSameAction ==
  ASSUME NEW p, NEW s, NEW t, DecidingRule(p, s) = DecidingRule(p, t)
  PROVE  DecideAction(p, s) = DecideAction(p, t)
BY DEF DecideAction

\* The ground truth names every fault the mock has, and what its fixtures
\* expect cures it.
LEMMA WhatIsDetected ==
  \A f \in Faults \cup {"none"} : DetectFault(ResetRoom(f)) = f
<1> USE DEF DetectFault, ResetRoom, DefaultRoom, Room, HighCpu
<1>1. DetectFault(ResetRoom("recorder_stopped")) = "recorder_stopped"
  OBVIOUS
<1>2. DetectFault(ResetRoom("signal_loss")) = "signal_loss"
  OBVIOUS
<1>3. DetectFault(ResetRoom("storage_full")) = "storage_full"
  OBVIOUS
<1>4. DetectFault(ResetRoom("storage_unmounted")) = "storage_unmounted"
  OBVIOUS
<1>5. DetectFault(ResetRoom("device_offline")) = "device_offline"
  OBVIOUS
<1>6. DetectFault(ResetRoom("cpu_overload")) = "cpu_overload"
  OBVIOUS
<1>7. DetectFault(ResetRoom("none")) = "none"
  OBVIOUS
<1> HIDE DEF DetectFault, ResetRoom, DefaultRoom, Room, HighCpu
<1> QED
  BY <1>1, <1>2, <1>3, <1>4, <1>5, <1>6, <1>7 DEF Faults

Cures(action, f) == DetectFault(ApplyAction(ResetRoom(f), action)) = "none"

LEMMA WhatCures ==
  /\ Cures("start_recorder", "recorder_stopped") /\ Cures("restart_input", "signal_loss")
  /\ Cures("rotate_recordings", "storage_full") /\ Cures("remount_storage", "storage_unmounted")
  /\ Cures("reboot_device", "device_offline") /\ Cures("throttle_channels", "cpu_overload")
<1> USE DEF ApplyAction, ResetRoom, DefaultRoom, Room
<1>1. ApplyAction(ResetRoom("recorder_stopped"), "start_recorder") = DefaultRoom
  OBVIOUS
<1>2. ApplyAction(ResetRoom("signal_loss"), "restart_input") = DefaultRoom
  OBVIOUS
<1>3. ApplyAction(ResetRoom("storage_full"), "rotate_recordings") = DefaultRoom
  OBVIOUS
<1>4. ApplyAction(ResetRoom("storage_unmounted"), "remount_storage") = DefaultRoom
  OBVIOUS
<1>5. ApplyAction(ResetRoom("device_offline"), "reboot_device") = DefaultRoom
  OBVIOUS
<1>6. ApplyAction(ResetRoom("cpu_overload"), "throttle_channels") = DefaultRoom
  OBVIOUS
<1>7. DetectFault(DefaultRoom) = "none"
  BY DEF DetectFault, HighCpu
<1> HIDE DEF ApplyAction, ResetRoom, DefaultRoom, Room
<1> QED
  BY <1>1, <1>2, <1>3, <1>4, <1>5, <1>6, <1>7 DEF Cures

LEMMA FixturesExpectCures ==
  ASSUME NEW s \in Scenarios, s.fault \in Faults
  PROVE  s.expected # "none" /\ Cures(s.expected, s.fault)
<1>1. /\ RecorderStopped.expected = "start_recorder" /\ RecorderPaused.expected = "start_recorder"
      /\ SignalLost.expected = "restart_input"
      /\ StorageAt95.expected = "rotate_recordings" /\ StorageAt90.expected = "rotate_recordings"
      /\ Unmounted.expected = "remount_storage" /\ Offline.expected = "reboot_device"
      /\ Overloaded.expected = "throttle_channels"
  BY DEF RecorderStopped, RecorderPaused, SignalLost, StorageAt95, StorageAt90, Unmounted,
         Offline, Overloaded, Scenario
<1>2. s # Healthy
  BY ScenarioFaults DEF Faults
<1> QED
  BY <1>1, <1>2, ScenarioFaults, WhatCures DEF Scenarios

\* A server that answers shows the room as it is.
IsRoom(r) == r = Room(r.device, r.recorder, r.signal, r.mounted, r.disk, r.cpu)

LEMMA RoomsAreRooms ==
  ASSUME NEW f \in Faults \cup {"none"}
  PROVE  /\ IsRoom(ResetRoom(f))
         /\ \A action \in KnownActions \ {"none"} : IsRoom(ApplyAction(ResetRoom(f), action))
<1>1. IsRoom(ResetRoom(f))
  BY DEF IsRoom, ResetRoom, DefaultRoom, Room
<1>2. ASSUME NEW rm, IsRoom(rm), NEW action \in KnownActions \ {"none"}
      PROVE  IsRoom(ApplyAction(rm, action))
  BY <1>2 DEF IsRoom, ApplyAction, Room, KnownActions
<1> QED
  BY <1>1, <1>2

LEMMA AnswersShowRoom ==
  ASSUME NEW r, IsRoom(r) PROVE ReadSignals(r, ReadTools) = r
BY DEF IsRoom, Room, ReadSignals, ReadTools

\* While the server lives, the cycle is at the room it was given, or at what its
\* action made of it; if it is sure, that is what a fixture of the fault expects.
CycleTold ==
  /\ heal = [step |-> heal.step, fault |-> heal.fault, action |-> heal.action,
             outcome |-> heal.outcome, sure |-> heal.sure]
  /\ heal.outcome # "none" => heal.step = "done"
  /\ alive => heal.step # "none"
  /\ alive /\ heal.outcome \in {"healed", "healthy"} => DetectFault(room) = "none"
  /\ alive /\ heal.step = "read" => \E f \in Faults \cup {"none"} : room = ResetRoom(f)
  /\ alive /\ heal.step = "act" =>
       /\ heal.fault \in Faults /\ room = ResetRoom(heal.fault)
       /\ heal.action \in KnownActions \ {"none"}
       /\ heal.sure => Cures(heal.action, heal.fault)
  /\ alive /\ heal.step = "verify" => IsRoom(room) /\ (heal.sure => DetectFault(room) = "none")
  /\ alive /\ heal.outcome = "unhandled" => ~heal.sure

RoomInv == {file, baseline} \subseteq RoomPlaybooks /\ CycleTold

LEMMA RoomInvBegins == ASSUME RoomInit PROVE RoomInv
BY RoomAssumption DEF RoomInit, RoomInv, CycleTold, NoHeal

\* A cycle that is sure has decided on what a fixture of its fault expects.
LEMMA SureIsCure ==
  ASSUME NEW f \in Faults, NEW signals, FixtureTells(f, signals)
  PROVE  DecideAction(file, signals) # "none" /\ Cures(DecideAction(file, signals), f)
<1>1. PICK s \in Remediated(file) :
        s.fault = f /\ DecidingRule(file, s.signals) = DecidingRule(file, signals)
  BY DEF FixtureTells
<1>2. s \in Scenarios /\ DecideAction(file, s.signals) = s.expected
  BY DEF Remediated
<1>3. DecideAction(file, signals) = s.expected
  BY <1>1, <1>2, SameRuleSameAction
<1> QED
  BY <1>1, <1>2, <1>3, FixturesExpectCures

LEMMA CycleStays ==
  ASSUME RoomInv, SpawnMock \/ MockDies \/ Detect \/ Act \/ Verify PROVE RoomInv'
<1>1. {file, baseline} \subseteq RoomPlaybooks /\ CycleTold
  BY DEF RoomInv
<1>2. UNCHANGED <<file, baseline>>
  BY DEF SpawnMock, MockDies, Detect, Act, Verify
<1>3. CASE SpawnMock
  <2>1. PICK f \in Faults \cup {"none"} : room' = ResetRoom(f)
    BY <1>3 DEF SpawnMock
  <2>2. heal' = [step |-> "read", fault |-> "none", action |-> "none", outcome |-> "none",
                 sure |-> FALSE]
    BY <1>3 DEF SpawnMock, NoHeal
  <2> QED
    BY <1>1, <1>2, <2>1, <2>2 DEF RoomInv, CycleTold
<1>4. CASE MockDies
  BY <1>1, <1>2, <1>4 DEF MockDies, RoomInv, CycleTold
<1>5. CASE Detect
  <2>1. PICK answered \in Answered : heal' = HealFrom(ReadSignals(room, answered))
    BY <1>5 DEF Detect
  <2> DEFINE signals == ReadSignals(room, answered)
             fault == DetectFault(signals)
             action == DecideAction(file, signals)
             mute == fault = "none" \/ file.loads = "raises" \/ action = "none"
  <2>2. UNCHANGED <<room, alive>> /\ heal.step = "read"
    BY <1>5 DEF Detect
  <2>3. /\ heal' = [step |-> heal'.step, fault |-> heal'.fault, action |-> heal'.action,
                    outcome |-> heal'.outcome, sure |-> heal'.sure]
        /\ heal'.fault = fault /\ heal'.sure = FixtureTells(fault, signals)
        /\ heal'.step = (IF mute THEN "done" ELSE "act")
        /\ heal'.step = "act" => heal'.action = action
    BY <2>1 DEF HealFrom
  <2>4. /\ mute => heal'.outcome \in {"healthy", "raised", "unhandled"}
        /\ heal'.outcome = "healthy" => fault = "none"
        /\ heal'.outcome = "unhandled" => fault # "none" /\ action = "none"
        /\ heal'.outcome # "healed"
        /\ ~mute => heal'.outcome = "none"
    BY <2>1 DEF HealFrom
  <2> HIDE DEF signals, fault, action, mute
  <2>5. CASE ~alive
    BY <1>1, <1>2, <2>2, <2>3, <2>4, <2>5 DEF RoomInv, CycleTold
  <2>6. CASE alive
    <3>1. PICK f \in Faults \cup {"none"} : room = ResetRoom(f)
      BY <1>1, <2>2, <2>6 DEF CycleTold
    <3>2. signals = room
      BY <2>6, <3>1, RoomsAreRooms, AnswersShowRoom DEF signals, Answered
    <3>3. fault = f /\ DetectFault(room) = f
      BY <3>1, <3>2, WhatIsDetected DEF fault
    <3>4. action \in KnownActions
      BY <1>1, DecisionIsKnown DEF action
    <3>5. heal'.sure /\ f \in Faults => action # "none" /\ Cures(action, f)
      BY <2>3, <3>3, SureIsCure DEF action
    <3>6. heal'.step = "act" => f # "none" /\ action # "none"
      BY <2>3, <3>3 DEF mute
    <3> QED
      BY <1>1, <1>2, <2>2, <2>3, <2>4, <2>6, <3>1, <3>3, <3>4, <3>5, <3>6 DEF RoomInv, CycleTold
  <2> QED
    BY <2>5, <2>6
<1>6. CASE Act
  <2>1. /\ heal.step = "act" /\ heal.outcome = "none" /\ UNCHANGED alive
        /\ room' = IF alive THEN ApplyAction(room, heal.action) ELSE room
        /\ heal' = [step |-> "verify", fault |-> heal.fault, action |-> heal.action,
                    outcome |-> "none", sure |-> heal.sure]
    BY <1>1, <1>6 DEF Act, CycleTold
  <2>2. CASE ~alive
    BY <1>1, <1>2, <2>1, <2>2 DEF RoomInv, CycleTold
  <2>3. CASE alive
    <3>1. /\ heal.fault \in Faults /\ room = ResetRoom(heal.fault)
          /\ heal.action \in KnownActions \ {"none"}
          /\ heal.sure => Cures(heal.action, heal.fault)
      BY <1>1, <2>1, <2>3 DEF CycleTold
    <3>2. IsRoom(room') /\ (heal.sure => DetectFault(room') = "none")
      BY <2>1, <2>3, <3>1, RoomsAreRooms DEF Cures
    <3> QED
      BY <1>1, <1>2, <2>1, <2>3, <3>2 DEF RoomInv, CycleTold
  <2> QED
    BY <2>2, <2>3
<1>7. CASE Verify
  <2>1. PICK answered \in Answered :
          EndHeal(IF DetectFault(ReadSignals(room, answered)) = "none"
                    THEN "healed" ELSE "unhandled")
    BY <1>7 DEF Verify
  <2>2. /\ heal.step = "verify" /\ UNCHANGED <<room, alive>>
        /\ heal' = [step |-> "done", fault |-> heal.fault, action |-> heal.action,
                    outcome |-> heal'.outcome, sure |-> heal.sure]
        /\ heal'.outcome = IF DetectFault(ReadSignals(room, answered)) = "none"
                             THEN "healed" ELSE "unhandled"
    BY <1>1, <1>7, <2>1 DEF Verify, EndHeal, CycleTold
  <2>3. CASE ~alive
    BY <1>1, <1>2, <2>2, <2>3 DEF RoomInv, CycleTold
  <2>4. CASE alive
    <3>1. IsRoom(room) /\ (heal.sure => DetectFault(room) = "none")
      BY <1>1, <2>2, <2>4 DEF CycleTold
    <3>2. ReadSignals(room, answered) = room
      BY <2>4, <3>1, AnswersShowRoom DEF Answered
    <3> QED
      BY <1>1, <1>2, <2>2, <2>4, <3>1, <3>2 DEF RoomInv, CycleTold
  <2> QED
    BY <2>3, <2>4
<1> QED
  BY <1>3, <1>4, <1>5, <1>6, <1>7

LEMMA RoomInvStays == ASSUME RoomInv, [RoomNext]_roomVars PROVE RoomInv'
<1>1. {file, baseline} \subseteq RoomPlaybooks /\ CycleTold
  BY DEF RoomInv
<1>2. CASE UNCHANGED roomVars
  BY <1>1, <1>2 DEF RoomInv, CycleTold, roomVars
<1>3. CASE WriteCandidate \/ Judge \/ ExperimentFails
  <2>1. UNCHANGED <<room, alive, heal>>
    BY <1>3 DEF WriteCandidate, Judge, ExperimentFails
  <2>2. {file', baseline'} \subseteq RoomPlaybooks
    BY <1>1, <1>3 DEF WriteCandidate, Judge, ExperimentFails
  <2> QED
    BY <1>1, <2>1, <2>2 DEF RoomInv, CycleTold
<1> QED
  BY <1>2, <1>3, CycleStays DEF RoomNext

\* HealingSound: as long as the tool server answers, what is reported as healed
\* or healthy is healthy, and a fault is cured by whatever the LLM wrote if one
\* of the fault's fixtures passes by the rule that decides; and a playbook that
\* is kept remediates no fewer scenarios, but for one that a repaired lint costs.
THEOREM HealingIsSound == RoomSpec => HealingSound
<1>1. RoomInit => RoomInv
  BY RoomInvBegins
<1>2. RoomInv /\ [RoomNext]_roomVars => RoomInv'
  BY RoomInvStays
<1>3. RoomInv => HealedMeansHealthy /\ PassedIsCured
  BY DEF RoomInv, CycleTold, HealedMeansHealthy, VerifiedMeansHealthy, PassedIsCured
<1>4. [RoomNext]_roomVars =>
        [baseline' # baseline =>
           Cardinality(Remediated(baseline')) + LintTrade >= Cardinality(Remediated(baseline))]_roomVars
  <2> SUFFICES ASSUME RoomNext, baseline' # baseline
               PROVE  Cardinality(Remediated(baseline')) + LintTrade
                        >= Cardinality(Remediated(baseline))
    OBVIOUS
  <2>1. Judge
    BY DEF RoomNext, WriteCandidate, ExperimentFails, SpawnMock, MockDies, Detect, Act, Verify
  <2>2. baseline' = file /\ ShouldKeep(file, baseline)
    BY <2>1 DEF Judge
  <2>3. ShouldKeep(baseline', baseline)
    BY <2>2
  <2> QED
    BY <2>3, KeptIsNoWorse DEF LintTrade
<1> QED
  BY <1>1, <1>2, <1>3, <1>4, PTL DEF RoomSpec, HealingSound, KeptRemediates
=============================================================================
