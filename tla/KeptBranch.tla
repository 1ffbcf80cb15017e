------------------------------ MODULE KeptBranch ------------------------------
(***************************************************************************)
(* What the research engine promises to the reader of its branch and of    *)
(* its ledger, with neither git, nor timeouts, nor a process that dies: at *)
(* most one candidate is judged at a time; the trunk changes at its end    *)
(* only; a commit joins it with its verdict "keep", and leaves it, if at   *)
(* all, straight after that verdict and before any other; a verdict, once  *)
(* given, stays.  The ledger is silent where a session ends in the middle  *)
(* of a judgement: the candidate is dropped, or stays unjudged.            *)
(***************************************************************************)
EXTENDS Naturals, Sequences, SequencesExt

CONSTANTS
  Commit,     \* commits, each [id, edits]
  Root,       \* the commit the branch begins with
  Experiment  \* numbers of experiments

VARIABLES
  trunk,      \* commits, oldest first
  candidate,  \* the commit being judged, in a set: one or none
  verdicts    \* rows [exp, status], oldest first

branchVars == <<trunk, candidate, verdicts>>

Verdict(e, status) == [exp |-> e, status |-> status]
OnTrunk == {trunk[i].id : i \in DOMAIN trunk}
Judged == {verdicts[i].exp : i \in DOMAIN verdicts}

Init ==
  /\ trunk = <<Root>>
  /\ candidate = {}
  /\ verdicts = <<>>

\* An experiment is proposed once, and not again when it was judged.
Propose(c) ==
  /\ candidate = {}
  /\ c.id \notin OnTrunk \cup Judged
  /\ candidate' = {c}
  /\ UNCHANGED <<trunk, verdicts>>

Accept(c) ==
  /\ candidate = {c}
  /\ candidate' = {}
  /\ trunk' = Append(trunk, c)
  /\ verdicts' = Append(verdicts, Verdict(c.id, "keep"))

Reject(c, status) ==
  /\ candidate = {c}
  /\ candidate' = {}
  /\ verdicts' = Append(verdicts, Verdict(c.id, status))
  /\ UNCHANGED trunk

\* The session ends before the verdict.
Abandon(c) ==
  /\ candidate = {c}
  /\ candidate' = {}
  /\ trunk' \in {trunk, Append(trunk, c)}
  /\ UNCHANGED verdicts

\* The experiment fails after its verdict "keep" and before any other; the
\* session may end before the crash is told.
Withdraw ==
  /\ candidate = {}
  /\ verdicts # <<>>
  /\ Last(verdicts) = Verdict(Last(trunk).id, "keep")
  /\ trunk' = Front(trunk)
  /\ verdicts' \in {verdicts, Append(verdicts, Verdict(Last(trunk).id, "crash"))}
  /\ UNCHANGED candidate

\* An experiment fails with nothing on the branch.
Fail(e) ==
  /\ candidate = {}
  /\ e \notin OnTrunk
  /\ verdicts' = Append(verdicts, Verdict(e, "crash"))
  /\ UNCHANGED <<trunk, candidate>>

\* A session takes the trunk as it is.
Baseline ==
  /\ candidate = {}
  /\ verdicts' = Append(verdicts, Verdict(Root.id, "keep"))
  /\ UNCHANGED <<trunk, candidate>>

\* A proposal is named by the state it leads to: there are many commits.
Next ==
  \/ \E c \in candidate :
       Accept(c) \/ Reject(c, "discard") \/ Reject(c, "crash") \/ Abandon(c)
  \/ Withdraw \/ Baseline
  \/ \E e \in Experiment : Fail(e)
  \/ \E c \in candidate' : c \in Commit /\ Propose(c)

Spec == Init /\ [][Next]_branchVars
===============================================================================
