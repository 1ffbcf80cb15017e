----------------------------- MODULE ServiceProofs -----------------------------
(***************************************************************************)
(* Theorems about services that share nothing: Ralph's cycles, a plan's    *)
(* context, the memories, the cost books and the decomposers, for any      *)
(* values of their constants.                                              *)
(***************************************************************************)
EXTENDS Integers, Ralph, ContextStore, Memories, CostBooks, Decompose, Sums, SequenceTheorems,
        FiniteSetTheorems, WellFoundedInduction, TLAPS

(***************************************************************************)
(* Sequences without repetition, and the sets of their elements.           *)
(***************************************************************************)
Injective(s) == \A i, j \in DOMAIN s : s[i] = s[j] => i = j

LEMMA AppendElements ==
  ASSUME NEW S, NEW s \in Seq(S), NEW x \in S
  PROVE  /\ ToSet(Append(s, x)) = ToSet(s) \cup {x}
         /\ Injective(s) /\ x \notin ToSet(s) => Injective(Append(s, x))
<1>1. /\ Len(s) \in Nat /\ DOMAIN s = 1..Len(s)
      /\ DOMAIN Append(s, x) = 1..(Len(s) + 1)
      /\ \A i \in 1..Len(s) : Append(s, x)[i] = s[i]
      /\ Append(s, x)[Len(s) + 1] = x
  BY AppendProperties, LenProperties
<1>2. ToSet(Append(s, x)) \subseteq ToSet(s) \cup {x}
  <2>1. SUFFICES ASSUME NEW i \in 1..(Len(s) + 1) PROVE Append(s, x)[i] \in ToSet(s) \cup {x}
    BY <1>1 DEF ToSet
  <2>2. i \in 1..Len(s) \/ i = Len(s) + 1
    BY <1>1
  <2> QED
    BY <1>1, <2>2 DEF ToSet
<1>3. ToSet(s) \subseteq ToSet(Append(s, x))
  <2>1. SUFFICES ASSUME NEW i \in 1..Len(s) PROVE s[i] \in ToSet(Append(s, x))
    BY <1>1 DEF ToSet
  <2>2. i \in 1..(Len(s) + 1) /\ Append(s, x)[i] = s[i]
    BY <1>1
  <2> QED
    BY <1>1, <2>2 DEF ToSet
<1>4. x \in ToSet(Append(s, x))
  <2>1. Len(s) + 1 \in 1..(Len(s) + 1)
    BY <1>1
  <2> QED
    BY <1>1, <2>1 DEF ToSet
<1>5. ASSUME Injective(s), x \notin ToSet(s),
             NEW i \in 1..(Len(s) + 1), NEW j \in 1..(Len(s) + 1),
             Append(s, x)[i] = Append(s, x)[j]
      PROVE  i = j
  <2>1. (i \in 1..Len(s) \/ i = Len(s) + 1) /\ (j \in 1..Len(s) \/ j = Len(s) + 1)
    BY <1>1
  <2>2. \A k \in 1..Len(s) : s[k] # x
    BY <1>1, <1>5 DEF ToSet
  <2> QED
    BY <1>1, <1>5, <2>1, <2>2 DEF Injective
<1> QED
  BY <1>1, <1>2, <1>3, <1>4, <1>5 DEF Injective

LEMMA TailElements ==
  ASSUME NEW S, NEW s \in Seq(S), s # <<>>
  PROVE  /\ ToSet(s) = ToSet(Tail(s)) \cup {Head(s)}
         /\ Injective(s) => Injective(Tail(s)) /\ Head(s) \notin ToSet(Tail(s))
<1>1. /\ Len(s) \in Nat \ {0} /\ DOMAIN s = 1..Len(s)
      /\ DOMAIN Tail(s) = 1..(Len(s) - 1)
      /\ \A i \in 1..(Len(s) - 1) : Tail(s)[i] = s[i + 1]
      /\ Head(s) = s[1]
  BY EmptySeq, HeadTailProperties, LenProperties
<1>2. ToSet(s) \subseteq ToSet(Tail(s)) \cup {Head(s)}
  <2>1. SUFFICES ASSUME NEW i \in 1..Len(s) PROVE s[i] \in ToSet(Tail(s)) \cup {Head(s)}
    BY <1>1 DEF ToSet
  <2>2. CASE i = 1
    BY <1>1, <2>2
  <2>3. CASE i # 1
    <3>1. i - 1 \in 1..(Len(s) - 1) /\ (i - 1) + 1 = i
      BY <1>1, <2>3
    <3>2. Tail(s)[i - 1] = s[i]
      BY <1>1, <3>1
    <3> QED
      BY <1>1, <3>1, <3>2 DEF ToSet
  <2> QED
    BY <2>2, <2>3
<1>3. ToSet(Tail(s)) \subseteq ToSet(s)
  <2>1. SUFFICES ASSUME NEW i \in 1..(Len(s) - 1) PROVE Tail(s)[i] \in ToSet(s)
    BY <1>1 DEF ToSet
  <2>2. i + 1 \in 1..Len(s)
    BY <1>1
  <2> QED
    BY <1>1, <2>2 DEF ToSet
<1>4. Head(s) \in ToSet(s)
  <2>1. 1 \in 1..Len(s)
    BY <1>1
  <2> QED
    BY <1>1, <2>1 DEF ToSet
<1>5. ASSUME Injective(s),
             NEW i \in 1..(Len(s) - 1), NEW j \in 1..(Len(s) - 1), Tail(s)[i] = Tail(s)[j]
      PROVE  i = j
  <2>1. i + 1 \in 1..Len(s) /\ j + 1 \in 1..Len(s) /\ s[i + 1] = s[j + 1]
    BY <1>1, <1>5
  <2>2. i + 1 = j + 1
    BY <1>1, <1>5, <2>1 DEF Injective
  <2> QED
    BY <1>1, <2>2
<1>6. ASSUME Injective(s), NEW i \in 1..(Len(s) - 1) PROVE Tail(s)[i] # Head(s)
  <2>1. 1 \in 1..Len(s) /\ i + 1 \in 1..Len(s) /\ i + 1 # 1
    BY <1>1
  <2> QED
    BY <1>1, <1>6, <2>1 DEF Injective
<1>7. ToSet(s) = ToSet(Tail(s)) \cup {Head(s)}
  BY <1>2, <1>3, <1>4
<1>8. ASSUME Injective(s) PROVE Injective(Tail(s)) /\ Head(s) \notin ToSet(Tail(s))
  <2>1. Injective(Tail(s))
    BY <1>1, <1>5, <1>8 DEF Injective
  <2>2. Head(s) \notin ToSet(Tail(s))
    BY <1>1, <1>6, <1>8 DEF ToSet
  <2> QED
    BY <2>1, <2>2
<1> QED
  BY <1>7, <1>8

\* Without repetition, a sequence has as many elements as places.
LEMMA ElementsCounted ==
  ASSUME NEW S, NEW s \in Seq(S), Injective(s)
  PROVE  IsFiniteSet(ToSet(s)) /\ Cardinality(ToSet(s)) = Len(s)
<1>1. Len(s) \in Nat /\ DOMAIN s = 1..Len(s) /\ s \in [1..Len(s) -> S]
  BY LenProperties
<1>2. s \in [1..Len(s) -> ToSet(s)]
  BY <1>1 DEF ToSet
<1>3. s \in Bijection(1..Len(s), ToSet(s))
  <2>1. s \in Injection(1..Len(s), ToSet(s))
    BY <1>1, <1>2 DEF Injection, IsInjective, Injective
  <2>2. \A t \in ToSet(s) : \E i \in 1..Len(s) : s[i] = t
    BY <1>1 DEF ToSet
  <2>3. s \in Surjection(1..Len(s), ToSet(s))
    BY <1>2, <2>2 DEF Surjection
  <2> QED
    BY <2>1, <2>3 DEF Bijection
<1>4. IsFiniteSet(1..Len(s)) /\ Cardinality(1..Len(s)) = Len(s)
  BY <1>1, FS_Interval
<1> QED
  BY <1>3, <1>4, FS_Bijection DEF ExistsBijection

LEMMA DisjointCounted ==
  ASSUME NEW A, NEW B, IsFiniteSet(A), IsFiniteSet(B), A \cap B = {}
  PROVE  /\ IsFiniteSet(A \cup B)
         /\ Cardinality(A \cup B) = Cardinality(A) + Cardinality(B)
         /\ Cardinality(A) \in Nat /\ Cardinality(B) \in Nat
<1>1. /\ IsFiniteSet(A \cup B)
      /\ Cardinality(A \cup B) = Cardinality(A) + Cardinality(B) - Cardinality(A \cap B)
  BY FS_Union
<1>2. Cardinality(A \cap B) = 0
  BY FS_EmptySet
<1>3. Cardinality(A) \in Nat /\ Cardinality(B) \in Nat
  BY FS_CardinalityType
<1> QED
  BY <1>1, <1>2, <1>3

(***************************************************************************)
(* The inductive invariant.                                                *)
(***************************************************************************)
RalphTyped ==
  /\ ralphQueue \in Seq(RalphTasks)
  /\ ralphPlans \in Seq(RalphTasks)
  /\ IsFiniteSet(ralphEnded)
  /\ IsFiniteSet(ralphLost)
  /\ ralphPc \in {"idle", "discover", "execute"}
  /\ ralphSpent \in Nat
  /\ ralphOwn \in Nat
  /\ ralphAborts \in Nat
  /\ Len(ralphPlans) <= 3
  /\ ralphPc = "idle" => ralphPlans = <<>>
  /\ ralphPc = "execute" => ralphPlans # <<>>

\* A task is in one place and there once.
RalphPlaced ==
  /\ Injective(ralphQueue)
  /\ Injective(ralphPlans)
  /\ ToSet(ralphQueue) \cap (ToSet(ralphPlans) \cup ralphEnded \cup ralphLost) = {}
  /\ ToSet(ralphPlans) \cap (ralphEnded \cup ralphLost) = {}
  /\ ralphEnded \cap ralphLost = {}

\* What a session may cost; what the plans of the cycle may still add to it.
Session == RalphBudget + RalphOverrun
Due == Len(ralphPlans) * Session

\* While no gate has failed open: a cycle began below the cap, and what its
\* plans that are left may spend fits under the bound.
RalphPaid ==
  /\ ralphOwn <= ralphSpent
  /\ ~ralphOpened /\ ralphPc = "discover" => ralphOwn < RalphDailyMax
  /\ ~ralphOpened /\ ralphPc = "execute" => ralphOwn + Due < RalphDailyMax + 3 * Session
  /\ RalphSpendBounded

RalphInv == RalphTyped /\ RalphPlaced /\ RalphPaid /\ RalphLossBounded

\* The four places together hold every task submitted, and each once.
LEMMA EveryTaskOnce ==
  ASSUME RalphTyped, RalphPlaced
  PROVE  Len(ralphQueue) + Len(ralphPlans) + Cardinality(ralphEnded) + Cardinality(ralphLost)
           = Cardinality(RalphSubmitted)
<1> DEFINE Q == ToSet(ralphQueue)
           P == ToSet(ralphPlans)
           W == ralphEnded \cup ralphLost
<1>1. /\ IsFiniteSet(Q) /\ Cardinality(Q) = Len(ralphQueue)
      /\ IsFiniteSet(P) /\ Cardinality(P) = Len(ralphPlans)
  BY ElementsCounted DEF RalphTyped, RalphPlaced
<1>2. IsFiniteSet(W) /\ Cardinality(W) = Cardinality(ralphEnded) + Cardinality(ralphLost)
  <2>1. ralphEnded \cap ralphLost = {} /\ IsFiniteSet(ralphEnded) /\ IsFiniteSet(ralphLost)
    BY DEF RalphTyped, RalphPlaced
  <2> QED
    BY <2>1, DisjointCounted
<1>3. IsFiniteSet(P \cup W) /\ Cardinality(P \cup W) = Cardinality(P) + Cardinality(W)
  <2>1. P \cap W = {}
    BY DEF RalphPlaced
  <2> QED
    BY <1>1, <1>2, <2>1, DisjointCounted
<1>4. Cardinality(Q \cup (P \cup W)) = Cardinality(Q) + Cardinality(P \cup W)
  <2>1. Q \cap (P \cup W) = {}
    BY DEF RalphPlaced
  <2> QED
    BY <1>1, <1>3, <2>1, DisjointCounted
<1>5. RalphSubmitted = Q \cup (P \cup W)
  BY DEF RalphSubmitted
<1>6. /\ Len(ralphQueue) \in Nat /\ Len(ralphPlans) \in Nat
      /\ Cardinality(ralphEnded) \in Nat /\ Cardinality(ralphLost) \in Nat
  BY FS_CardinalityType, LenProperties DEF RalphTyped
<1> HIDE DEF Q, P, W
<1>7. Cardinality(RalphSubmitted) = Cardinality(Q) + (Cardinality(P) + Cardinality(W))
  BY <1>3, <1>4, <1>5, Zenon
<1> QED
  BY <1>1, <1>2, <1>6, <1>7

(***************************************************************************)
(* Where the tasks are, action by action.                                  *)
(***************************************************************************)
\* Taking the first task of a sequence and putting it into a set of tasks.
LEMMA FirstTaken ==
  ASSUME NEW s \in Seq(RalphTasks), s # <<>>, Injective(s)
  PROVE  /\ Tail(s) \in Seq(RalphTasks)
         /\ Len(Tail(s)) = Len(s) - 1
         /\ Len(s) \in Nat
         /\ Injective(Tail(s))
         /\ Head(s) \in RalphTasks
         /\ ToSet(s) = ToSet(Tail(s)) \cup {Head(s)}
         /\ Head(s) \notin ToSet(Tail(s))
  BY HeadTailProperties, LenProperties, TailElements

LEMMA NothingInEmpty == Injective(<<>>) /\ ToSet(<<>>) = {} /\ <<>> \in Seq(RalphTasks)
  BY DEF Injective, ToSet

Where == RalphTyped /\ RalphPlaced

LEMMA SubmitKeeps ==
  ASSUME Where, NEW task \in RalphTasks, RalphSubmit(task)
  PROVE  Where' /\ RalphSubmitted \subseteq RalphSubmitted'
<1> USE DEF Where, RalphTyped, RalphPlaced
<1>1. /\ ralphQueue' = Append(ralphQueue, task)
      /\ UNCHANGED <<ralphPc, ralphPlans, ralphEnded, ralphLost, ralphSpent, ralphOwn,
                     ralphAborts>>
      /\ task \notin RalphSubmitted
  BY DEF RalphSubmit
<1>2. /\ ralphQueue' \in Seq(RalphTasks)
      /\ ToSet(ralphQueue') = ToSet(ralphQueue) \cup {task}
  BY <1>1, AppendProperties, AppendElements
<1>3. Injective(ralphQueue')
  BY <1>1, AppendElements DEF RalphSubmitted
<1>4. ToSet(ralphPlans') = ToSet(ralphPlans) /\ Injective(ralphPlans')
  BY <1>1
<1>5. RalphTyped'
  BY <1>1, <1>2
<1>6. RalphPlaced'
  BY <1>1, <1>2, <1>3, <1>4 DEF RalphSubmitted
<1> QED
  BY <1>1, <1>2, <1>4, <1>5, <1>6 DEF RalphSubmitted

LEMMA WorkerKeeps ==
  ASSUME Where, NEW cost \in Nat, RalphWorker(cost)
  PROVE  Where' /\ RalphSubmitted \subseteq RalphSubmitted'
<1> USE DEF Where, RalphTyped, RalphPlaced
<1>1. /\ ralphQueue # <<>> /\ ralphQueue' = Tail(ralphQueue)
      /\ ralphEnded' = ralphEnded \cup {Head(ralphQueue)}
      /\ ralphSpent' = ralphSpent + IF Head(ralphQueue) \in RalphForeign THEN 0
                                    ELSE RalphCharge(cost)
      /\ UNCHANGED <<ralphPc, ralphPlans, ralphLost, ralphOwn, ralphAborts>>
  BY DEF RalphWorker
<1>2. /\ ralphQueue' \in Seq(RalphTasks) /\ Injective(ralphQueue')
      /\ ToSet(ralphQueue) = ToSet(ralphQueue') \cup {Head(ralphQueue)}
      /\ Head(ralphQueue) \notin ToSet(ralphQueue')
  BY <1>1, FirstTaken
<1>3. ToSet(ralphPlans') = ToSet(ralphPlans) /\ Injective(ralphPlans')
  BY <1>1
<1>4. ralphSpent' \in Nat
  BY <1>1 DEF RalphCharge
<1>5. IsFiniteSet(ralphEnded')
  BY <1>1, FS_AddElement
<1>6. RalphTyped'
  BY <1>1, <1>2, <1>4, <1>5
<1>7. RalphPlaced'
  BY <1>1, <1>2, <1>3
<1> QED
  BY <1>1, <1>2, <1>3, <1>6, <1>7 DEF RalphSubmitted

LEMMA TakeKeeps ==
  ASSUME Where, RalphTake
  PROVE  Where' /\ RalphSubmitted \subseteq RalphSubmitted'
<1> USE DEF Where, RalphTyped, RalphPlaced
<1>1. /\ ralphQueue # <<>> /\ ralphQueue' = Tail(ralphQueue)
      /\ ralphPlans' = Append(ralphPlans, Head(ralphQueue))
      /\ ralphPc = "discover" /\ Len(ralphPlans) < 3
      /\ UNCHANGED <<ralphPc, ralphEnded, ralphLost, ralphSpent, ralphOwn, ralphAborts>>
  BY DEF RalphTake
<1>2. /\ ralphQueue' \in Seq(RalphTasks) /\ Injective(ralphQueue')
      /\ Head(ralphQueue) \in RalphTasks
      /\ ToSet(ralphQueue) = ToSet(ralphQueue') \cup {Head(ralphQueue)}
      /\ Head(ralphQueue) \notin ToSet(ralphQueue')
  BY <1>1, FirstTaken
<1>3. /\ ralphPlans' \in Seq(RalphTasks)
      /\ Len(ralphPlans') = Len(ralphPlans) + 1 /\ Len(ralphPlans) \in Nat
      /\ ToSet(ralphPlans') = ToSet(ralphPlans) \cup {Head(ralphQueue)}
  BY <1>1, <1>2, AppendProperties, AppendElements, LenProperties
<1>4. Injective(ralphPlans')
  BY <1>1, <1>2, AppendElements
<1>5. RalphTyped'
  BY <1>1, <1>2, <1>3
<1>6. RalphPlaced'
  BY <1>1, <1>2, <1>3, <1>4
<1> QED
  BY <1>1, <1>2, <1>3, <1>5, <1>6 DEF RalphSubmitted

LEMMA ExecuteKeeps ==
  ASSUME Where, NEW cost \in Nat, NEW fails, RalphExecute(cost, fails)
  PROVE  Where' /\ RalphSubmitted \subseteq RalphSubmitted'
<1> USE DEF Where, RalphTyped, RalphPlaced
<1>1. /\ ralphPc = "execute" /\ ralphPlans # <<>> /\ ralphPlans' = Tail(ralphPlans)
      /\ ralphEnded' = ralphEnded \cup {Head(ralphPlans)}
      /\ ralphSpent' = ralphSpent + RalphCharge(cost)
      /\ ralphOwn' = ralphOwn + RalphCharge(cost)
      /\ ralphPc' = IF ralphPlans' = <<>> THEN "idle" ELSE "execute"
      /\ UNCHANGED <<ralphQueue, ralphLost, ralphAborts>>
  BY DEF RalphExecute
<1>2. /\ ralphPlans' \in Seq(RalphTasks) /\ Injective(ralphPlans')
      /\ Len(ralphPlans') = Len(ralphPlans) - 1 /\ Len(ralphPlans) \in Nat
      /\ ToSet(ralphPlans) = ToSet(ralphPlans') \cup {Head(ralphPlans)}
      /\ Head(ralphPlans) \notin ToSet(ralphPlans')
  BY <1>1, FirstTaken
<1>3. ToSet(ralphQueue') = ToSet(ralphQueue) /\ Injective(ralphQueue')
  BY <1>1
<1>4. ralphSpent' \in Nat /\ ralphOwn' \in Nat
  BY <1>1 DEF RalphCharge
<1>5. IsFiniteSet(ralphEnded')
  BY <1>1, FS_AddElement
<1>6. RalphTyped'
  BY <1>1, <1>2, <1>4, <1>5
<1>7. RalphPlaced'
  BY <1>1, <1>2, <1>3
<1> QED
  BY <1>1, <1>2, <1>3, <1>6, <1>7 DEF RalphSubmitted

LEMMA AbortKeeps ==
  ASSUME Where, NEW cost \in Nat, RalphAbort(cost)
  PROVE  /\ Where' /\ RalphSubmitted \subseteq RalphSubmitted'
         /\ Cardinality(ralphLost') <= Cardinality(ralphLost) + 3
         /\ Cardinality(ralphLost) \in Nat /\ Cardinality(ralphLost') \in Nat
<1> USE DEF Where, RalphTyped, RalphPlaced
<1>1. /\ ralphPlans' = <<>> /\ ralphLost' = ralphLost \cup ToSet(ralphPlans)
      /\ ralphPc' = "idle" /\ ralphAborts' = ralphAborts + 1
      /\ ralphSpent' = ralphSpent + RalphCharge(cost) /\ ralphOwn' = ralphOwn + RalphCharge(cost)
      /\ UNCHANGED <<ralphQueue, ralphEnded>>
  BY DEF RalphAbort
<1>2. IsFiniteSet(ToSet(ralphPlans)) /\ Cardinality(ToSet(ralphPlans)) = Len(ralphPlans)
  BY ElementsCounted
<1>3. ralphLost \cap ToSet(ralphPlans) = {}
  OBVIOUS
<1>n. ralphSpent' \in Nat /\ ralphOwn' \in Nat
  BY <1>1 DEF RalphCharge
<1>4. /\ IsFiniteSet(ralphLost')
      /\ Cardinality(ralphLost') = Cardinality(ralphLost) + Len(ralphPlans)
      /\ Cardinality(ralphLost) \in Nat /\ Len(ralphPlans) \in Nat
  BY <1>1, <1>2, <1>3, DisjointCounted
<1>5. Injective(ralphPlans') /\ ToSet(ralphPlans') = {} /\ ralphPlans' \in Seq(RalphTasks)
  BY <1>1, NothingInEmpty
<1>6. ToSet(ralphQueue') = ToSet(ralphQueue) /\ Injective(ralphQueue')
  BY <1>1
<1>7. RalphTyped'
  BY <1>1, <1>n, <1>4, <1>5
<1>8. RalphPlaced'
  BY <1>1, <1>5, <1>6
<1> QED
  BY <1>1, <1>4, <1>5, <1>6, <1>7, <1>8 DEF RalphSubmitted

LEMMA GateAndDiscoveredKeep ==
  ASSUME Where, RalphGate \/ RalphDiscovered
  PROVE  Where' /\ RalphSubmitted \subseteq RalphSubmitted'
<1>1. UNCHANGED <<ralphQueue, ralphPlans, ralphEnded, ralphLost, ralphSpent, ralphOwn,
                  ralphAborts>>
  BY DEF RalphGate, RalphDiscovered
<1>2. /\ ralphPc' \in {"idle", "discover", "execute"}
      /\ ralphPc' = "idle" => ralphPlans = <<>>
      /\ ralphPc' = "execute" => ralphPlans # <<>>
  BY DEF RalphGate, RalphDiscovered
<1>3. RalphTyped'
  BY <1>1, <1>2 DEF Where, RalphTyped
<1>4. RalphPlaced'
  BY <1>1 DEF Where, RalphPlaced, Injective, ToSet
<1> QED
  BY <1>1, <1>3, <1>4 DEF Where, RalphSubmitted, ToSet

LEMMA CostsAreNumbers ==
  /\ {0, RalphBudget} \subseteq Nat
  /\ {0, RalphBudget, RalphBudget + RalphOverrun} \subseteq Nat
  /\ Session \in Nat /\ RalphDailyMax \in Nat /\ RalphMaxAborts \in Nat
  /\ \A cost \in {0, RalphBudget, RalphBudget + RalphOverrun} : cost <= Session
<1>1. RalphBudget \in Nat /\ RalphOverrun \in Nat /\ RalphDailyMax \in Nat /\ RalphMaxAborts \in Nat
  BY RalphAssumption
<1> QED
  BY <1>1 DEF Session

LEMMA WhereStays ==
  ASSUME Where, RalphNext
  PROVE  Where' /\ RalphSubmitted \subseteq RalphSubmitted'
  BY SubmitKeeps, WorkerKeeps, TakeKeeps, ExecuteKeeps, AbortKeeps, GateAndDiscoveredKeep,
     CostsAreNumbers DEF RalphNext

(***************************************************************************)
(* What the cycles cost and lose.                                          *)
(***************************************************************************)
LEMMA LossStays == ASSUME Where, RalphLossBounded, RalphNext PROVE RalphLossBounded'
<1> DEFINE Aborted == \E cost \in {0, RalphBudget, RalphBudget + RalphOverrun} : RalphAbort(cost)
<1>1. CASE Aborted
  <2>1. ralphAborts' = ralphAborts + 1 /\ ralphAborts \in Nat
    BY <1>1 DEF RalphAbort, Where, RalphTyped
  <2>2. /\ Cardinality(ralphLost') <= Cardinality(ralphLost) + 3
        /\ Cardinality(ralphLost) \in Nat /\ Cardinality(ralphLost') \in Nat
    BY <1>1, AbortKeeps, CostsAreNumbers
  <2> QED
    BY <2>1, <2>2 DEF RalphLossBounded
<1>2. CASE ~Aborted
  <2>1. UNCHANGED <<ralphLost, ralphAborts>>
    BY <1>2 DEF RalphNext, RalphSubmit, RalphWorker, RalphGate, RalphTake, RalphDiscovered,
                RalphExecute
  <2> QED
    BY <2>1 DEF RalphLossBounded
<1> QED
  BY <1>1, <1>2

LEMMA DueStepwise ==
  ASSUME NEW n \in 1..3, NEW s \in Nat
  PROVE  n * s = (n - 1) * s + s /\ (n - 1) * s \in Nat /\ n * s <= 3 * s
<1>1. n = 1 \/ n = 2 \/ n = 3
  OBVIOUS
<1> QED
  BY <1>1

\* A plan that was due s is paid c, and what was below the bound still is.
LEMMA PaidFromDue ==
  ASSUME NEW o \in Nat, NEW c \in Nat, NEW s \in Nat, NEW d \in Nat, NEW bound \in Nat,
         c <= s, o + (d + s) < bound
  PROVE  (o + c) + d < bound /\ o + c < bound
OBVIOUS

LEMMA SumsBelow ==
  ASSUME NEW o \in Nat, NEW m \in Nat, NEW d \in Nat, NEW t \in Nat, o < m, d <= t
  PROVE  o + d < m + t
OBVIOUS

LEMMA PlansAreFew ==
  ASSUME RalphTyped, ralphPlans # <<>>
  PROVE  Len(ralphPlans) \in 1..3
<1>1. Len(ralphPlans) \in Nat \ {0}
  BY EmptySeq DEF RalphTyped
<1>2. Len(ralphPlans) <= 3
  BY DEF RalphTyped
<1>3. \A n \in Nat \ {0} : n <= 3 => n \in 1..3
  OBVIOUS
<1> QED
  BY <1>1, <1>2, <1>3

LEMMA ExecutePays ==
  ASSUME Where, RalphPaid, NEW cost \in Nat, NEW fails, cost <= Session,
         RalphExecute(cost, fails)
  PROVE  RalphPaid'
<1>1. /\ ralphPc = "execute" /\ ralphPlans # <<>> /\ ralphPlans' = Tail(ralphPlans)
      /\ ralphPc' \in {"idle", "execute"}
      /\ ralphSpent' = ralphSpent + RalphCharge(cost)
      /\ ralphOwn' = ralphOwn + RalphCharge(cost)
      /\ UNCHANGED ralphOpened
  BY DEF RalphExecute, Where, RalphTyped
<1>2. /\ RalphCharge(cost) \in Nat
      /\ RalphCharge(cost) <= Session
      /\ Session \in Nat /\ RalphDailyMax \in Nat
      /\ ralphOwn \in Nat /\ ralphSpent \in Nat
  BY CostsAreNumbers DEF RalphCharge, Where, RalphTyped
<1>3. Due = Due' + Session /\ Due' \in Nat
  <2>1. Len(ralphPlans) \in 1..3
    BY <1>1, PlansAreFew DEF Where
  <2>2. Len(ralphPlans') = Len(ralphPlans) - 1
    BY <1>1, FirstTaken DEF Where, RalphTyped, RalphPlaced
  <2>3. Session' = Session
    BY DEF Session
  <2> QED
    BY <1>2, <2>1, <2>2, <2>3, DueStepwise DEF Due
<1>4. ralphOwn' <= ralphSpent'
  BY <1>1, <1>2 DEF RalphPaid
<1>5. ASSUME ~ralphOpened PROVE ralphOwn' + Due' < RalphDailyMax + 3 * Session
  <2>1. ralphOwn + Due < RalphDailyMax + 3 * Session
    BY <1>1, <1>5 DEF RalphPaid
  <2>2. RalphDailyMax + 3 * Session \in Nat
    BY <1>2
  <2>3. ralphOwn + (Due' + Session) < RalphDailyMax + 3 * Session
    BY <1>3, <2>1
  <2>4. (ralphOwn + RalphCharge(cost)) + Due' < RalphDailyMax + 3 * Session
    BY <1>2, <1>3, <2>2, <2>3, PaidFromDue
  <2> QED
    BY <1>1, <2>4
<1>6. ~ralphOpened => ralphOwn' < RalphDailyMax + 3 * Session
  <2>1. ralphOwn' \in Nat /\ RalphDailyMax + 3 * Session \in Nat
    BY <1>1, <1>2
  <2> QED
    BY <1>3, <1>5, <2>1
<1>7. RalphSpendBounded'
  BY <1>1, <1>6 DEF RalphSpendBounded, Session
<1> QED
  BY <1>1, <1>4, <1>5, <1>7 DEF RalphPaid, Session

\* What an aborted session has spent was due.
LEMMA AbortPays ==
  ASSUME Where, RalphPaid, NEW cost \in Nat, cost <= Session, RalphAbort(cost)
  PROVE  RalphPaid'
<1>1. /\ ralphPc' = "idle" /\ UNCHANGED ralphOpened
      /\ cost > 0 => ralphPc = "execute"
      /\ ralphSpent' = ralphSpent + RalphCharge(cost)
      /\ ralphOwn' = ralphOwn + RalphCharge(cost)
  BY DEF RalphAbort
<1>2. /\ ralphOwn \in Nat /\ ralphSpent \in Nat /\ RalphCharge(cost) \in {0, cost}
      /\ Session \in Nat /\ RalphDailyMax \in Nat
  BY CostsAreNumbers DEF RalphCharge, Where, RalphTyped
<1>3. ralphOwn' <= ralphSpent'
  BY <1>1, <1>2 DEF RalphPaid
<1>4. CASE RalphCharge(cost) = 0
  <2>1. ralphOwn' = ralphOwn
    BY <1>1, <1>2, <1>4
  <2> QED
    BY <1>1, <1>3, <2>1 DEF RalphPaid, RalphSpendBounded
<1>5. CASE RalphCharge(cost) # 0
  <2>1. ralphPc = "execute"
    BY <1>1, <1>2, <1>5
  <2>2. ASSUME ~ralphOpened PROVE ralphOwn' < RalphDailyMax + 3 * Session
    <3>1. ralphOwn + Due < RalphDailyMax + 3 * Session
      BY <2>1, <2>2 DEF RalphPaid
    <3>2. Len(ralphPlans) \in 1..3
      BY <2>1, PlansAreFew DEF Where, RalphTyped
    <3>3. /\ Due = (Len(ralphPlans) - 1) * Session + Session
          /\ (Len(ralphPlans) - 1) * Session \in Nat
      BY <1>2, <3>2, DueStepwise DEF Due
    <3>4. RalphDailyMax + 3 * Session \in Nat
      BY <1>2
    <3>5. ralphOwn + RalphCharge(cost) < RalphDailyMax + 3 * Session
      BY <1>2, <3>1, <3>3, <3>4, PaidFromDue
    <3> QED
      BY <1>1, <3>5
  <2> QED
    BY <1>1, <1>3, <2>2 DEF RalphPaid, RalphSpendBounded, Session
<1> QED
  BY <1>4, <1>5

LEMMA PaidStays == ASSUME Where, RalphPaid, RalphNext PROVE RalphPaid'
<1>0. /\ ralphOwn \in Nat /\ ralphSpent \in Nat
      /\ Session \in Nat /\ RalphDailyMax \in Nat
  BY CostsAreNumbers DEF Where, RalphTyped
<1>1. ASSUME NEW cost \in {0, RalphBudget, RalphBudget + RalphOverrun}, NEW fails,
             RalphExecute(cost, fails)
      PROVE  RalphPaid'
  BY <1>1, ExecutePays, CostsAreNumbers
<1>2. ASSUME NEW cost \in {0, RalphBudget}, RalphWorker(cost) PROVE RalphPaid'
  <2>1. /\ ralphSpent' = ralphSpent + IF Head(ralphQueue) \in RalphForeign THEN 0
                                      ELSE RalphCharge(cost)
        /\ UNCHANGED <<ralphPc, ralphPlans, ralphOwn, ralphOpened>>
    BY <1>2 DEF RalphWorker
  <2>2. RalphCharge(cost) \in Nat
    BY CostsAreNumbers DEF RalphCharge
  <2>3. ralphOwn' <= ralphSpent'
    BY <1>0, <2>1, <2>2 DEF RalphPaid
  <2> QED
    BY <2>1, <2>3 DEF RalphPaid, Due, Session, RalphSpendBounded
<1>a. ASSUME NEW cost \in {0, RalphBudget, RalphBudget + RalphOverrun}, RalphAbort(cost)
      PROVE  RalphPaid'
  BY <1>a, AbortPays, CostsAreNumbers
<1>3. CASE \E task \in RalphTasks : RalphSubmit(task)
  <2>1. UNCHANGED <<ralphSpent, ralphOwn, ralphOpened, ralphPc, ralphPlans>>
    BY <1>3 DEF RalphSubmit
  <2> QED
    BY <2>1 DEF RalphPaid, Due, Session, RalphSpendBounded
<1>4. CASE RalphGate
  <2>1. /\ UNCHANGED <<ralphSpent, ralphOwn>> /\ ralphPc' = "discover"
        /\ ralphOpened' \/ (ralphSpent < RalphDailyMax /\ UNCHANGED ralphOpened)
    BY <1>4 DEF RalphGate
  <2>2. ~ralphOpened' => ralphOwn' < RalphDailyMax
    BY <1>0, <2>1 DEF RalphPaid
  <2> QED
    BY <2>1, <2>2 DEF RalphPaid, RalphSpendBounded
<1>5. CASE RalphTake
  <2>1. ralphPc = "discover" /\ UNCHANGED <<ralphPc, ralphSpent, ralphOwn, ralphOpened>>
    BY <1>5 DEF RalphTake
  <2> QED
    BY <2>1 DEF RalphPaid, RalphSpendBounded
<1>6. CASE RalphDiscovered
  <2>1. /\ ralphPc = "discover"
        /\ UNCHANGED <<ralphPlans, ralphSpent, ralphOwn, ralphOpened>>
        /\ ralphPc' = "idle" \/ (ralphPc' = "execute" /\ ralphPlans # <<>>)
    BY <1>6 DEF RalphDiscovered
  <2>2. ASSUME ~ralphOpened, ralphPlans # <<>>
        PROVE  ralphOwn + Due < RalphDailyMax + 3 * Session
    <3>1. ralphOwn < RalphDailyMax
      BY <2>1, <2>2 DEF RalphPaid
    <3>2. Len(ralphPlans) \in 1..3
      BY <2>2, PlansAreFew DEF Where
    <3>3. Len(ralphPlans) * Session <= 3 * Session
      BY <1>0, <3>2, DueStepwise
    <3>4. Len(ralphPlans) * Session \in Nat /\ 3 * Session \in Nat
      BY <1>0, <3>2
    <3>5. ralphOwn + Len(ralphPlans) * Session < RalphDailyMax + 3 * Session
      BY <1>0, <3>1, <3>3, <3>4, SumsBelow
    <3> QED
      BY <3>5 DEF Due
  <2> QED
    BY <2>1, <2>2 DEF RalphPaid, Due, Session, RalphSpendBounded
<1> QED
  BY <1>1, <1>2, <1>a, <1>3, <1>4, <1>5, <1>6 DEF RalphNext

LEMMA RalphInvStays == ASSUME RalphInv, [RalphNext]_ralphVars PROVE RalphInv'
<1>1. CASE UNCHANGED ralphVars
  BY <1>1 DEF ralphVars, RalphInv, RalphTyped, RalphPlaced, RalphPaid, RalphSpendBounded,
              RalphLossBounded, Due, Session, Injective, ToSet
<1>2. CASE RalphNext
  BY <1>2, WhereStays, PaidStays, LossStays DEF RalphInv, Where
<1> QED
  BY <1>1, <1>2

LEMMA RalphInvBegins == ASSUME RalphInit PROVE RalphInv
<1>1. IsFiniteSet({}) /\ Cardinality({}) = 0
  BY FS_EmptySet
<1>2. RalphTyped
  BY <1>1, NothingInEmpty, EmptySeq DEF RalphInit, RalphTyped
<1>3. RalphPlaced
  BY NothingInEmpty DEF RalphInit, RalphPlaced
<1>4. RalphPaid /\ RalphLossBounded
  BY <1>1 DEF RalphInit, RalphPaid, RalphSpendBounded, RalphLossBounded
<1> QED
  BY <1>2, <1>3, <1>4 DEF RalphInv

--------------------------------------------------------------------------------
\* Ralph's promise, whatever the workers spend meanwhile and wherever cycles
\* break off: on a day on which no gate failed open its own spend passes the cap
\* by less than three sessions, an aborted cycle loses three tasks at the most,
\* and no task is doubled or dropped by any other step (run_cycle, _discover_work).
THEOREM RalphIsSound == RalphSpec => RalphSound
<1>1. RalphInit => RalphInv
  BY RalphInvBegins
<1>2. RalphInv /\ [RalphNext]_ralphVars => RalphInv'
  BY RalphInvStays
<1>3. RalphInv => RalphSpendBounded /\ RalphLossBounded
  BY DEF RalphInv, RalphPaid
<1>4. RalphInv /\ [RalphNext]_ralphVars =>
        [/\ RalphSubmitted \subseteq RalphSubmitted'
         /\ Len(ralphQueue') + Len(ralphPlans') + Cardinality(ralphEnded')
              + Cardinality(ralphLost') = Cardinality(RalphSubmitted')]_ralphVars
  <2>1. SUFFICES ASSUME RalphInv, RalphNext
                 PROVE  /\ RalphSubmitted \subseteq RalphSubmitted'
                        /\ Len(ralphQueue') + Len(ralphPlans') + Cardinality(ralphEnded')
                             + Cardinality(ralphLost') = Cardinality(RalphSubmitted')
    OBVIOUS
  <2>2. Where' /\ RalphSubmitted \subseteq RalphSubmitted'
    BY <2>1, WhereStays DEF RalphInv, Where
  <2>3. RalphTyped' /\ RalphPlaced'
    BY <2>2 DEF Where
  <2>4. (RalphTyped /\ RalphPlaced =>
           Len(ralphQueue) + Len(ralphPlans) + Cardinality(ralphEnded) + Cardinality(ralphLost)
             = Cardinality(RalphSubmitted))'
    BY EveryTaskOnce, PTL
  <2> QED
    BY <2>2, <2>3, <2>4
<1> QED
  BY <1>1, <1>2, <1>3, <1>4, PTL DEF RalphSpec, RalphSound, RalphAccounted

(***************************************************************************)
(* In a finite set with a strict total order, one element is the first.    *)
(***************************************************************************)
LEMMA OneIsFirst ==
  ASSUME NEW R, IsFiniteSet(R), R # {}, NEW order,
         \A k \in R : <<k, k>> \notin order,
         \A j, k, l \in R : <<j, k>> \in order /\ <<k, l>> \in order => <<j, l>> \in order,
         \A j, k \in R : j = k \/ <<j, k>> \in order \/ <<k, j>> \in order
  PROVE  \E k \in R : \A j \in R \ {k} : <<k, j>> \in order
<1> DEFINE before(k) == {j \in R : <<j, k>> \in order}
           sizes == {Cardinality(before(k)) : k \in R}
<1>1. \A k \in R : IsFiniteSet(before(k)) /\ Cardinality(before(k)) \in Nat
  <2> SUFFICES ASSUME NEW k \in R PROVE IsFiniteSet(before(k)) /\ Cardinality(before(k)) \in Nat
    OBVIOUS
  <2>1. before(k) \in SUBSET R
    OBVIOUS
  <2>2. IsFiniteSet(before(k))
    BY <2>1, FS_Subset
  <2> QED
    BY <2>2, FS_CardinalityType
<1>2. PICK n \in sizes : \A m \in sizes : ~ (<<m, n>> \in OpToRel(<, Nat))
  <2>1. sizes \subseteq Nat /\ sizes # {}
    <3>1. sizes # {}
      <4>1. PICK k \in R : TRUE
        OBVIOUS
      <4>2. Cardinality(before(k)) \in sizes
        OBVIOUS
      <4> QED
        BY <4>2
    <3>2. \A m \in sizes : m \in Nat
      <4> HIDE DEF before
      <4> QED
        BY <1>1
    <3> QED
      BY <3>1, <3>2
  <2> QED
    BY <2>1, NatLessThanWellFounded, WFMin
<1>3. PICK k \in R : n = Cardinality(before(k))
  OBVIOUS
<1>4. ASSUME NEW j \in R, <<j, k>> \in order PROVE FALSE
  <2>1. before(j) \subseteq before(k) /\ j \in before(k) /\ j \notin before(j)
    BY <1>4
  <2>2. Cardinality(before(j)) < Cardinality(before(k))
    <3>1. before(j) \in SUBSET before(k) /\ before(j) # before(k)
      BY <2>1
    <3>2. IsFiniteSet(before(k)) /\ Cardinality(before(j)) \in Nat /\ Cardinality(before(k)) \in Nat
      BY <1>1
    <3> HIDE DEF before
    <3>3. Cardinality(before(j)) <= Cardinality(before(k))
          /\ (Cardinality(before(k)) = Cardinality(before(j)) => before(k) = before(j))
      BY <3>1, <3>2, FS_Subset
    <3> QED
      BY <3>1, <3>2, <3>3
  <2>3. <<Cardinality(before(j)), n>> \in OpToRel(<, Nat)
    BY <1>1, <1>3, <2>2 DEF OpToRel
  <2>4. Cardinality(before(j)) \in sizes
    OBVIOUS
  <2> HIDE DEF sizes, before
  <2> QED
    BY <1>2, <2>3, <2>4
<1>5. \A j \in R \ {k} : <<k, j>> \in order
  BY <1>4
<1> QED
  BY <1>5

\* A family of sums, each bounded by that of a part of its own, is bounded by the
\* sum over all the parts.
LEMMA TotalOfFamily ==
  ASSUME NEW M, IsFiniteSet(M), NEW L, IsFiniteSet(L),
         NEW part, \A m \in M : part[m] \in SUBSET L,
         \A m, n \in M : m # n => part[m] \cap part[n] = {},
         NEW f, \A i \in L : f[i] \in Nat,
         NEW g, \A m \in M : g[m] \in Nat /\ g[m] <= Total(part[m], f)
  PROVE  Total(M, g) <= Total(L, f)
<1> DEFINE all(N) == UNION {part[m] : m \in N}
           bad == {N \in SUBSET M : ~(Total(N, g) <= Total(all(N), f))}
           sizes == {Cardinality(N) : N \in bad}
<1>1. \A N \in SUBSET M : IsFiniteSet(N) /\ Cardinality(N) \in Nat
                         /\ all(N) \in SUBSET L /\ IsFiniteSet(all(N))
  <2> SUFFICES ASSUME NEW N \in SUBSET M
               PROVE  IsFiniteSet(N) /\ Cardinality(N) \in Nat
                      /\ all(N) \in SUBSET L /\ IsFiniteSet(all(N))
    OBVIOUS
  <2>1. IsFiniteSet(N) /\ Cardinality(N) \in Nat
    BY FS_Subset, FS_CardinalityType
  <2>2. all(N) \in SUBSET L
    OBVIOUS
  <2> HIDE DEF all
  <2> QED
    BY <2>1, <2>2, FS_Subset
<1>2. \A N \in SUBSET M : Total(N, g) \in Nat /\ Total(all(N), f) \in Nat
  <2> SUFFICES ASSUME NEW N \in SUBSET M PROVE Total(N, g) \in Nat /\ Total(all(N), f) \in Nat
    OBVIOUS
  <2> HIDE DEF all
  <2>1. Total(N, g) \in Nat
    BY <1>1, TotalIsNat
  <2>2. Total(all(N), f) \in Nat
    BY <1>1, TotalIsNat
  <2> QED
    BY <2>1, <2>2
<1>3. bad = {}
  <2> SUFFICES ASSUME bad # {} PROVE FALSE
    OBVIOUS
  <2>1. PICK n \in sizes : \A m \in sizes : ~ (<<m, n>> \in OpToRel(<, Nat))
    <3>1. sizes # {}
      <4>1. PICK N \in bad : TRUE
        OBVIOUS
      <4>2. Cardinality(N) \in sizes
        OBVIOUS
      <4> QED
        BY <4>2
    <3>2. sizes \subseteq Nat
      <4>1. \A N \in bad : Cardinality(N) \in Nat
        BY <1>1
      <4> QED
        BY <4>1
    <3> QED
      BY <3>1, <3>2, NatLessThanWellFounded, WFMin
  <2>2. PICK N \in bad : n = Cardinality(N)
    OBVIOUS
  <2>3. N # {}
    <3>1. Total({}, g) = 0
      BY TotalOfZeros
    <3>2. {} \in SUBSET M
      OBVIOUS
    <3>3. Total(all({}), f) \in Nat
      BY <1>2, <3>2
    <3> SUFFICES ASSUME N = {} PROVE FALSE
      OBVIOUS
    <3>4. ~(Total({}, g) <= Total(all({}), f))
      OBVIOUS
    <3> HIDE DEF all
    <3> QED
      BY <3>1, <3>3, <3>4
  <2>4. PICK m \in N : TRUE
    BY <2>3
  <2> DEFINE R == N \ {m}
  <2>5. R \in SUBSET M /\ N \in SUBSET M /\ m \in M
    OBVIOUS
  <2>6. R \notin bad
    <3>1. Cardinality(R) < Cardinality(N) /\ Cardinality(R) \in Nat /\ Cardinality(N) \in Nat
      <4>1. Cardinality(R) = Cardinality(N) - 1
        BY <1>1, <2>5, FS_RemoveElement
      <4>2. Cardinality(R) \in Nat /\ Cardinality(N) \in Nat
        BY <1>1, <2>5
      <4> HIDE DEF R
      <4> QED
        BY <4>1, <4>2
    <3>2. <<Cardinality(R), n>> \in OpToRel(<, Nat)
      <4> HIDE DEF R
      <4> QED
        BY <2>2, <3>1 DEF OpToRel
    <3>3. Cardinality(R) \notin sizes
      BY <2>1, <3>2
    <3> QED
      BY <3>3
  <2>7. Total(R, g) <= Total(all(R), f)
    BY <2>5, <2>6
  <2>8. Total(N, g) = g[m] + Total(R, g)
    BY <1>1, <2>5, TotalSplits
  <2>9. all(N) = part[m] \cup all(R) /\ part[m] \cap all(R) = {}
    <3>1. all(N) = part[m] \cup all(R)
      OBVIOUS
    <3>2. \A k \in R : part[m] \cap part[k] = {}
      BY <2>5
    <3> QED
      BY <3>1, <3>2
  <2>10. Total(all(N), f) = Total(part[m], f) + Total(all(R), f)
    <3>1. IsFiniteSet(part[m]) /\ IsFiniteSet(all(R)) /\ part[m] \in SUBSET L /\ all(R) \in SUBSET L
      BY <1>1, <2>5, FS_Subset
    <3> HIDE DEF all, R
    <3> QED
      BY <2>9, <3>1, TotalOfParts
  <2>11. Total(part[m], f) \in Nat
    <3>1. IsFiniteSet(part[m]) /\ part[m] \in SUBSET L
      BY <2>5, FS_Subset
    <3> QED
      BY <3>1, TotalIsNat
  <2>12. g[m] \in Nat /\ g[m] <= Total(part[m], f)
    BY <2>5
  <2>13. ~(Total(N, g) <= Total(all(N), f))
    OBVIOUS
  <2>14. Total(R, g) \in Nat /\ Total(all(R), f) \in Nat
    BY <1>2, <2>5
  <2> HIDE DEF all, R
  <2> QED
    BY <2>7, <2>8, <2>10, <2>11, <2>12, <2>13, <2>14
<1>4. Total(M, g) <= Total(all(M), f)
  BY <1>3
<1>5. Total(all(M), f) <= Total(L, f)
  <2>1. all(M) \in SUBSET L
    OBVIOUS
  <2>2. \A i \in all(M) : f[i] \in Nat /\ f[i] <= f[i]
    BY <2>1
  <2> HIDE DEF all
  <2> QED
    BY <2>1, <2>2, TotalIsMonotone
<1>6. Total(M, g) \in Nat /\ Total(all(M), f) \in Nat /\ Total(L, f) \in Nat
  BY <1>2, TotalIsNat
<1> HIDE DEF all
<1> QED
  BY <1>4, <1>5, <1>6

(***************************************************************************)
(* The context.  Its dict is in a strict total order, and what a set stores*)
(* adds up to the count from which the eviction starts.                    *)
(***************************************************************************)
CtxData(entries, order) ==
  /\ DOMAIN entries \subseteq CtxKeys
  /\ \A k \in DOMAIN entries : entries[k].tokens \in Nat
  /\ order \subseteq (DOMAIN entries) \X (DOMAIN entries)
  /\ \A k \in DOMAIN entries : <<k, k>> \notin order
  /\ \A j, k, l \in DOMAIN entries : <<j, k>> \in order /\ <<k, l>> \in order => <<j, l>> \in order
  /\ \A j, k \in DOMAIN entries : j = k \/ <<j, k>> \in order \/ <<k, j>> \in order

CtxGood(entries, order) ==
  /\ CtxData(entries, order)
  /\ CtxSum(entries) > CtxMaxTokens => CtxSteps(entries) = {}

CtxInv ==
  /\ CtxGood(ctxEntries, ctxOrder)
  /\ ctxTotal = CtxSum(ctxEntries)
  /\ ctxSaved.kind # "none" => CtxGood(ctxSaved.entries, ctxSaved.order)
  /\ ctxSaved.kind = "snapshot" => ctxSaved.total = CtxSum(ctxSaved.entries)

\* The sums over the entries of a dict.
LEMMA CtxSums ==
  ASSUME NEW entries, NEW order, CtxData(entries, order), NEW S \in SUBSET DOMAIN entries
  PROVE  /\ IsFiniteSet(S)
         /\ \A k \in S : CtxTokensOf(entries)[k] = entries[k].tokens
         /\ \A k \in S : CtxTokensOf(entries)[k] \in Nat
         /\ Total(S, CtxTokensOf(entries)) \in Nat
<1>1. IsFiniteSet(CtxKeys) /\ S \in SUBSET CtxKeys
  BY CtxAssumption DEF CtxData
<1>2. IsFiniteSet(S)
  BY <1>1, FS_Subset
<1>3. \A k \in S : CtxTokensOf(entries)[k] = entries[k].tokens
  BY DEF CtxTokensOf
<1>4. \A k \in S : CtxTokensOf(entries)[k] \in Nat
  BY <1>3 DEF CtxData
<1>5. Total(S, CtxTokensOf(entries)) \in Nat
  BY <1>2, <1>4, TotalIsNat
<1> QED
  BY <1>2, <1>3, <1>4, <1>5

\* Of the entries of a dict, one is the oldest.
LEMMA CtxOldest ==
  ASSUME NEW entries, NEW order, CtxData(entries, order),
         NEW R \in SUBSET DOMAIN entries, R # {}
  PROVE  \E k \in R : \A j \in R \ {k} : <<k, j>> \in order
<1>1. IsFiniteSet(R)
  BY CtxSums
<1>2. /\ \A k \in R : <<k, k>> \notin order
      /\ \A j, k \in R : j = k \/ <<j, k>> \in order \/ <<k, j>> \in order
  BY DEF CtxData
<1>3. \A j, k, l \in R : <<j, k>> \in order /\ <<k, l>> \in order => <<j, l>> \in order
  BY DEF CtxData
<1> QED
  BY <1>1, <1>2, <1>3, OneIsFirst

(***************************************************************************)
(* The eviction.                                                           *)
(***************************************************************************)
\* It takes the older before the younger, and no more than the budget asks for.
LEMMA CtxEvictsOldest ==
  ASSUME NEW entries, NEW order, NEW total, CtxData(entries, order), total = CtxSum(entries),
         NEW gone, gone = CtxEvicted(entries, order, total)
  PROVE  /\ gone \subseteq CtxSteps(entries)
         /\ \A i \in gone, j \in CtxSteps(entries) \ gone : <<i, j>> \in order
         /\ \A i \in gone : (\A j \in gone \ {i} : <<j, i>> \in order) =>
              total - Total(gone, CtxTokensOf(entries)) + entries[i].tokens > CtxMaxTokens
<1> DEFINE tokens == CtxTokensOf(entries)
           steps == CtxSteps(entries)
           older(k) == CtxOlder(entries, order, k)
<1>1. /\ steps \in SUBSET DOMAIN entries
      /\ \A k : older(k) \in SUBSET steps
  BY DEF CtxSteps, CtxOlder
<1>2. /\ \A k : IsFiniteSet(older(k)) /\ Total(older(k), tokens) \in Nat
      /\ \A k : \A j \in older(k) : tokens[j] \in Nat
  BY <1>1, CtxSums
<1>3. total \in Nat /\ CtxMaxTokens \in Nat
  BY CtxSums, CtxAssumption DEF CtxSum
<1>4. gone \subseteq steps /\ \A k \in steps : k \in gone <=> total > CtxMaxTokens + Total(older(k), tokens)
  BY DEF CtxEvicted, CtxOlderSum
<1>5. ASSUME NEW i \in gone, NEW j \in steps, <<j, i>> \in order PROVE j \in gone
  <2>1. older(j) \in SUBSET older(i)
    BY <1>1, <1>4, <1>5 DEF CtxData, CtxOlder
  <2>2. Total(older(j), tokens) <= Total(older(i), tokens)
    BY <1>2, <2>1, TotalIsMonotone
  <2>3. total > CtxMaxTokens + Total(older(i), tokens)
    BY <1>4
  <2> HIDE DEF tokens, older, steps
  <2>4. total > CtxMaxTokens + Total(older(j), tokens)
    BY <1>2, <1>3, <2>2, <2>3
  <2> QED
    BY <1>4, <2>4
<1>6. ASSUME NEW i \in gone, NEW j \in steps \ gone PROVE <<i, j>> \in order
  BY <1>1, <1>4, <1>5, <1>6 DEF CtxData
<1>7. ASSUME NEW i \in gone, \A j \in gone \ {i} : <<j, i>> \in order
      PROVE  total - Total(gone, tokens) + entries[i].tokens > CtxMaxTokens
  <2>1. gone \ {i} = older(i)
    <3>1. gone \ {i} \subseteq older(i)
      BY <1>4, <1>7 DEF CtxOlder
    <3>2. older(i) \subseteq gone
      BY <1>1, <1>5 DEF CtxOlder
    <3>3. i \notin older(i)
      BY <1>1, <1>4 DEF CtxOlder, CtxData
    <3> QED
      BY <3>1, <3>2, <3>3
  <2>2. gone \in SUBSET DOMAIN entries
    BY <1>1, <1>4
  <2>3. /\ IsFiniteSet(gone) /\ \A k \in gone : tokens[k] \in Nat
        /\ tokens[i] = entries[i].tokens
    BY <2>2, CtxSums
  <2>4. Total(gone, tokens) = tokens[i] + Total(gone \ {i}, tokens)
    BY <2>3, TotalSplits
  <2>5. total > CtxMaxTokens + Total(older(i), tokens)
    BY <1>4
  <2>6. tokens[i] \in Nat /\ Total(older(i), tokens) \in Nat
    BY <1>2, <2>3
  <2> HIDE DEF tokens, older
  <2> QED
    BY <1>3, <2>1, <2>3, <2>4, <2>5, <2>6
<1> QED
  BY <1>4, <1>6, <1>7

\* What is left has the count that is left, and is over the budget only when
\* no STEP entry is left.
LEMMA CtxEvictionLeaves ==
  ASSUME NEW entries, NEW order, NEW total, CtxData(entries, order), total = CtxSum(entries),
         NEW gone, gone = CtxEvicted(entries, order, total),
         NEW kept, kept = DOMAIN entries \ gone,
         NEW left, left = [k \in kept |-> entries[k]]
  PROVE  /\ CtxGood(left, order \cap (kept \X kept))
         /\ total - Total(gone, CtxTokensOf(entries)) = CtxSum(left)
<1> DEFINE tokens == CtxTokensOf(entries)
           all == DOMAIN entries
<1>1. gone \in SUBSET CtxSteps(entries) /\ CtxSteps(entries) \in SUBSET all /\ kept \in SUBSET all
  BY CtxEvictsOldest DEF CtxSteps
<1>2. DOMAIN left = kept /\ \A k \in kept : left[k] = entries[k]
  OBVIOUS
<1>3. CtxData(left, order \cap (kept \X kept))
  BY <1>1, <1>2 DEF CtxData
<1>4. /\ IsFiniteSet(all) /\ IsFiniteSet(gone) /\ IsFiniteSet(kept)
      /\ \A k \in all : tokens[k] \in Nat /\ tokens[k] = entries[k].tokens
      /\ Total(gone, tokens) \in Nat /\ Total(kept, tokens) \in Nat
  BY <1>1, CtxSums
<1>5. Total(all, tokens) = Total(gone, tokens) + Total(kept, tokens)
  <2>1. all = gone \cup kept /\ gone \cap kept = {}
    BY <1>1
  <2>2. \A k \in gone \cup kept : tokens[k] \in Nat
    BY <1>4, <2>1
  <2> HIDE DEF all, tokens
  <2>3. IsFiniteSet(gone) /\ IsFiniteSet(kept) /\ gone \cap kept = {}
    BY <1>4, <2>1
  <2>4. Total(gone \cup kept, tokens) = Total(gone, tokens) + Total(kept, tokens)
    BY <2>2, <2>3, TotalOfParts
  <2> QED
    BY <2>1, <2>4
<1>6. CtxSum(left) = Total(kept, tokens)
  <2>1. \A k \in kept : CtxTokensOf(left)[k] = tokens[k]
    BY <1>1, <1>2, <1>4 DEF CtxTokensOf
  <2> QED
    BY <1>2, <2>1, SameTotal DEF CtxSum
<1>7. total = Total(all, tokens)
  BY DEF CtxSum
<1>8. total - Total(gone, tokens) = CtxSum(left)
  <2> HIDE DEF all, tokens
  <2> QED
    BY <1>4, <1>5, <1>6, <1>7
<1>9. ASSUME CtxSum(left) > CtxMaxTokens PROVE CtxSteps(left) = {}
  <2> SUFFICES ASSUME CtxSteps(left) # {} PROVE FALSE
    OBVIOUS
  <2>1. CtxSteps(left) = CtxSteps(entries) \ gone
    BY <1>1, <1>2 DEF CtxSteps
  <2>2. PICK k \in CtxSteps(left) : \A j \in CtxSteps(left) \ {k} : <<k, j>> \in order
    BY <1>1, <2>1, CtxOldest
  <2>3. CtxOlder(entries, order, k) \in SUBSET gone
    <3> SUFFICES ASSUME NEW j \in CtxSteps(entries), <<j, k>> \in order, j \notin gone
                 PROVE  FALSE
      BY DEF CtxOlder
    <3>1. j # k /\ <<k, j>> \in order
      BY <1>1, <2>1, <2>2 DEF CtxData
    <3> QED
      BY <1>1, <2>1, <3>1 DEF CtxData
  <2>4. CtxOlderSum(entries, order, k) <= Total(gone, tokens)
    BY <1>1, <1>4, <2>3, TotalIsMonotone DEF CtxOlderSum
  <2>5. CtxOlderSum(entries, order, k) \in Nat
    <3>1. CtxOlder(entries, order, k) \in SUBSET all
      BY <1>1, <2>3
    <3> QED
      BY <3>1, CtxSums DEF CtxOlderSum
  <2>6. ~(total > CtxMaxTokens + CtxOlderSum(entries, order, k))
    BY <2>1 DEF CtxEvicted
  <2>7. total \in Nat /\ CtxMaxTokens \in Nat
    BY <1>4, <1>5, <1>7, CtxAssumption
  <2> HIDE DEF all, tokens
  <2> QED
    BY <1>4, <1>8, <1>9, <2>4, <2>5, <2>6, <2>7
<1> QED
  BY <1>3, <1>8, <1>9 DEF CtxGood

(***************************************************************************)
(* The steps.                                                              *)
(***************************************************************************)
\* What a set stores is a dict again, and the count that of its entries.
LEMMA CtxStoring ==
  ASSUME CtxInv, NEW key \in CtxKeys, NEW scope, NEW n \in CtxTokens
  PROVE  /\ CtxData(CtxStored(key, scope, n), CtxPlaced(key))
         /\ CtxCounted(key, n) = CtxSum(CtxStored(key, scope, n))
<1> DEFINE stored == CtxStored(key, scope, n)
           old == CtxTokensOf(ctxEntries)
           new == CtxTokensOf(stored)
           D == DOMAIN ctxEntries
<1>1. /\ DOMAIN stored = D \cup {key}
      /\ stored[key].tokens = n
      /\ \A k \in D \ {key} : stored[k] = ctxEntries[k]
  BY DEF CtxStored, CtxEntry
<1>2. CtxData(ctxEntries, ctxOrder) /\ ctxTotal = CtxSum(ctxEntries) /\ n \in Nat
  BY CtxAssumption DEF CtxInv, CtxGood
<1>3. CtxData(stored, CtxPlaced(key))
  <2>1. CASE key \in D
    <3>1. DOMAIN stored = D /\ CtxPlaced(key) = ctxOrder
      BY <1>1, <2>1 DEF CtxPlaced
    <3>2. \A k \in D : stored[k].tokens \in Nat
      BY <1>1, <1>2 DEF CtxData
    <3> HIDE DEF stored
    <3> QED
      BY <1>2, <3>1, <3>2 DEF CtxData
  <2>2. CASE key \notin D
    <3>1. DOMAIN stored = D \cup {key} /\ CtxPlaced(key) = ctxOrder \cup (D \X {key})
      BY <1>1, <2>2 DEF CtxPlaced
    <3>2. \A k \in D \cup {key} : stored[k].tokens \in Nat
      BY <1>1, <1>2, <2>2 DEF CtxData
    <3>3. \A j, k : <<j, k>> \in CtxPlaced(key) <=> <<j, k>> \in ctxOrder \/ (j \in D /\ k = key)
      BY <3>1
    <3>4. \A j, k : <<j, k>> \in ctxOrder => j \in D /\ k \in D
      BY <1>2 DEF CtxData
    <3>5. CtxPlaced(key) \subseteq (D \cup {key}) \X (D \cup {key})
      BY <1>2, <3>1 DEF CtxData
    <3> HIDE DEF stored, D
    <3>6. D \subseteq CtxKeys
      BY <1>2 DEF CtxData, D
    <3>7. /\ \A k \in D : <<k, k>> \notin ctxOrder
          /\ \A j, k, l \in D : <<j, k>> \in ctxOrder /\ <<k, l>> \in ctxOrder => <<j, l>> \in ctxOrder
          /\ \A j, k \in D : j = k \/ <<j, k>> \in ctxOrder \/ <<k, j>> \in ctxOrder
      BY <1>2 DEF CtxData, D
    <3>8. \A k \in D \cup {key} : <<k, k>> \notin CtxPlaced(key)
      BY <2>2, <3>3, <3>4, <3>7
    <3>9. \A j, k, l \in D \cup {key} :
            <<j, k>> \in CtxPlaced(key) /\ <<k, l>> \in CtxPlaced(key) => <<j, l>> \in CtxPlaced(key)
      BY <2>2, <3>3, <3>4, <3>7
    <3>10. \A j, k \in D \cup {key} :
             j = k \/ <<j, k>> \in CtxPlaced(key) \/ <<k, j>> \in CtxPlaced(key)
      BY <2>2, <3>3, <3>7
    <3> QED
      BY <3>1, <3>2, <3>5, <3>6, <3>8, <3>9, <3>10 DEF CtxData
  <2> QED
    BY <2>1, <2>2
<1>5. n \in Nat
  BY CtxAssumption
<1>4. CtxCounted(key, n) = CtxSum(stored)
  <2>1. /\ IsFiniteSet(D) /\ \A k \in D : old[k] \in Nat /\ old[k] = ctxEntries[k].tokens
        /\ Total(D, old) \in Nat
    BY <1>2, CtxSums
  <2>2. /\ IsFiniteSet(D \cup {key})
        /\ \A k \in D \cup {key} : new[k] \in Nat /\ new[k] = stored[k].tokens
    BY <1>1, <1>3, CtxSums
  <2>3. CtxSum(stored) = Total(D \cup {key}, new) /\ ctxTotal = Total(D, old)
    BY <1>1, <1>2 DEF CtxSum
  <2>4. new[key] = n
    BY <1>1, <2>2
  <2>5. Total(D \cup {key}, new) = n + Total((D \cup {key}) \ {key}, new)
    <3> HIDE DEF D, new
    <3> QED
      BY <2>2, <2>4, TotalSplits
  <2>6. Total(D \ {key}, new) = Total(D \ {key}, old)
    <3>1. \A k \in D \ {key} : new[k] = old[k]
      BY <1>1, <2>1, <2>2
    <3> HIDE DEF D, new, old
    <3> QED
      BY <3>1, SameTotal
  <2>7. (D \cup {key}) \ {key} = D \ {key}
    OBVIOUS
  <2>8. CASE key \in D
    <3>1. Total(D, old) = old[key] + Total(D \ {key}, old) /\ Total(D \ {key}, old) \in Nat
      <4> HIDE DEF D, old
      <4> QED
        BY <2>1, <2>8, TotalSplits
    <3>2. CtxCounted(key, n) = ctxTotal - old[key] + n
      BY <2>1, <2>8 DEF CtxCounted
    <3>3. old[key] \in Nat
      BY <2>1, <2>8
    <3>4. CtxSum(stored) = n + Total(D \ {key}, old)
      BY <2>3, <2>5, <2>6, <2>7
    <3>5. ctxTotal = old[key] + Total(D \ {key}, old)
      BY <2>3, <3>1
    <3> HIDE DEF D, old, new, stored
    <3> QED
      BY <3>1, <3>2, <3>3, <3>4, <3>5, <1>5
  <2>9. CASE key \notin D
    <3>1. D \ {key} = D
      BY <2>9
    <3>2. CtxCounted(key, n) = ctxTotal + n
      BY <2>9 DEF CtxCounted
    <3>3. CtxSum(stored) = n + Total(D, old)
      BY <2>3, <2>5, <2>6, <2>7, <3>1
    <3> HIDE DEF D, old, new, stored
    <3> QED
      BY <2>1, <2>3, <3>2, <3>3, <1>5
  <2> QED
    BY <2>8, <2>9
<1> QED
  BY <1>3, <1>4

\* A set keeps the count exact and the budget, and evicts no more than it must.
LEMMA CtxSetStep ==
  ASSUME CtxInv, NEW key \in CtxKeys, NEW scope \in {"step", "plan"}, NEW n \in CtxTokens,
         CtxSet(key, scope, n)
  PROVE  CtxInv' /\ CtxLeast(key)
<1> DEFINE stored == CtxStored(key, scope, n)
           order == CtxPlaced(key)
           total == CtxCounted(key, n)
           gone == CtxEvicted(stored, order, total)
           kept == DOMAIN stored \ gone
           left == [k \in kept |-> stored[k]]
<1>1. CtxData(stored, order) /\ total = CtxSum(stored)
  BY CtxStoring
<1>2. /\ ctxEntries' = left /\ ctxOrder' = order \cap (kept \X kept)
      /\ ctxTotal' = total - Total(gone, CtxTokensOf(stored))
      /\ UNCHANGED ctxSaved
  BY DEF CtxSet
<1>3. /\ DOMAIN stored = DOMAIN ctxEntries \cup {key}
      /\ \A k \in DOMAIN ctxEntries \ {key} : stored[k] = ctxEntries[k]
  BY DEF CtxStored
<1>4. \A j, k : k # key /\ <<j, k>> \in order => <<j, k>> \in ctxOrder
  BY DEF CtxPlaced
<1>5. /\ CtxGood(left, order \cap (kept \X kept))
      /\ total - Total(gone, CtxTokensOf(stored)) = CtxSum(left)
  <2> HIDE DEF stored, order, total
  <2> QED
    BY <1>1, CtxEvictionLeaves
<1>6. /\ gone \subseteq CtxSteps(stored)
      /\ \A i \in gone, j \in CtxSteps(stored) \ gone : <<i, j>> \in order
      /\ \A i \in gone : (\A j \in gone \ {i} : <<j, i>> \in order) =>
           total - Total(gone, CtxTokensOf(stored)) + stored[i].tokens > CtxMaxTokens
  <2> HIDE DEF stored, order, total
  <2> QED
    BY <1>1, CtxEvictsOldest
<1> HIDE DEF stored, order, total, gone
<1>7. CtxInv'
  BY <1>2, <1>5 DEF CtxInv
<1>8. CtxLeast(key)
  <2> DEFINE others == DOMAIN ctxEntries \ {key}
             lost == others \ DOMAIN ctxEntries'
  <2>1. DOMAIN ctxEntries' = kept /\ \A k \in kept : ctxEntries'[k] = stored[k]
    BY <1>2
  <2>2. lost = gone \ {key}
    BY <1>3, <1>6, <2>1 DEF CtxSteps
  <2>3. lost \subseteq CtxSteps(ctxEntries)
    BY <1>3, <1>6, <2>2 DEF CtxSteps
  <2>4. ASSUME NEW i \in lost, NEW j \in CtxSteps(ctxEntries) \cap (others \ lost)
        PROVE  <<i, j>> \in ctxOrder
    <3>1. j \in CtxSteps(stored) \ gone /\ j # key
      BY <1>3, <2>2 DEF CtxSteps
    <3> QED
      BY <1>4, <1>6, <2>2, <3>1
  <2>5. \A i \in others \ lost : ctxEntries'[i] = ctxEntries[i]
    BY <1>3, <2>1, <2>2
  <2>6. ASSUME key \in DOMAIN ctxEntries', NEW i \in lost,
               \A j \in lost \ {i} : <<j, i>> \in ctxOrder
        PROVE  ctxTotal' + ctxEntries[i].tokens > CtxMaxTokens
    <3>1. lost = gone
      BY <2>1, <2>2, <2>6
    <3>2. \A j \in gone \ {i} : <<j, i>> \in order
      BY <2>6, <3>1 DEF order, CtxPlaced
    <3>3. stored[i] = ctxEntries[i]
      BY <1>3
    <3> QED
      BY <1>2, <1>6, <3>1, <3>2, <3>3
  <2> HIDE DEF gone
  <2> QED
    BY <2>3, <2>4, <2>5, <2>6 DEF CtxLeast
<1> QED
  BY <1>7, <1>8

\* A dict without token estimates, in the order of its keys.
LEMMA CtxPlainIsGood ==
  ASSUME NEW keys \in SUBSET CtxKeys, NEW entries,
         entries = [k \in keys |-> CtxEntry("plan", 0, 1)]
  PROVE  CtxGood(entries, CtxByKey(keys)) /\ CtxSum(entries) = 0
<1>1. DOMAIN entries = keys /\ \A k \in keys : entries[k] = CtxEntry("plan", 0, 1)
  OBVIOUS
<1>2. CtxData(entries, CtxByKey(keys))
  BY <1>1, CtxAssumption DEF CtxData, CtxByKey, CtxEntry
<1>3. CtxSum(entries) = 0
  <2>1. \A k \in keys : CtxTokensOf(entries)[k] = 0
    BY <1>1 DEF CtxTokensOf, CtxEntry
  <2> QED
    BY <1>1, <2>1, TotalOfZeros DEF CtxSum
<1>4. CtxSteps(entries) = {}
  BY <1>1 DEF CtxSteps, CtxEntry
<1> QED
  BY <1>2, <1>3, <1>4 DEF CtxGood

LEMMA CtxStart == CtxInit => CtxInv
<1> SUFFICES ASSUME CtxInit PROVE CtxInv
  OBVIOUS
<1>1. CtxByKey({}) = {}
  BY DEF CtxByKey
<1>2. CtxGood(CtxEmpty, {}) /\ CtxSum(CtxEmpty) = 0
  BY <1>1, CtxPlainIsGood DEF CtxEmpty
<1> QED
  BY <1>2 DEF CtxInit, CtxInv, CtxNothing

LEMMA CtxStep == CtxInv /\ [CtxNext]_ctxVars => CtxInv'
<1> SUFFICES ASSUME CtxInv, [CtxNext]_ctxVars PROVE CtxInv'
  OBVIOUS
<1>0. CASE UNCHANGED ctxVars
  BY <1>0 DEF CtxInv, ctxVars
<1>1. ASSUME NEW key \in CtxKeys, NEW scope \in {"step", "plan"}, NEW n \in CtxTokens,
             CtxSet(key, scope, n)
      PROVE  CtxInv'
  BY <1>1, CtxSetStep
<1>2. CASE CtxSnapshot \/ CtxToLegacy
  BY <1>2 DEF CtxSnapshot, CtxToLegacy, CtxInv
<1>3. CASE CtxRestore
  BY <1>3 DEF CtxRestore, CtxInv
<1>4. CASE CtxFromLegacy
  <2> DEFINE saved == ctxSaved.entries
  <2>1. /\ CtxGood(saved, ctxSaved.order)
        /\ ctxEntries' = saved /\ ctxTotal' = CtxSum(saved)
        /\ ctxOrder' = ctxSaved.order \/ ctxOrder' = CtxByKey(DOMAIN saved)
        /\ UNCHANGED ctxSaved
    BY <1>4 DEF CtxFromLegacy, CtxInv
  <2>2. CtxGood(saved, CtxByKey(DOMAIN saved))
    <3>1. \A k \in DOMAIN saved : k \in Nat
      BY <2>1, CtxAssumption DEF CtxGood, CtxData
    <3>2. \A j, k : <<j, k>> \in CtxByKey(DOMAIN saved) <=>
                      j \in DOMAIN saved /\ k \in DOMAIN saved /\ j < k
      BY DEF CtxByKey
    <3>3. CtxByKey(DOMAIN saved) \subseteq (DOMAIN saved) \X (DOMAIN saved)
      BY DEF CtxByKey
    <3>4. /\ DOMAIN saved \subseteq CtxKeys /\ \A k \in DOMAIN saved : saved[k].tokens \in Nat
          /\ CtxSum(saved) > CtxMaxTokens => CtxSteps(saved) = {}
      BY <2>1 DEF CtxGood, CtxData
    <3> HIDE DEF saved
    <3>5. CtxData(saved, CtxByKey(DOMAIN saved))
      BY <3>1, <3>2, <3>3, <3>4 DEF CtxData
    <3> QED
      BY <3>4, <3>5 DEF CtxGood
  <2>3. CtxGood(ctxEntries', ctxOrder')
    BY <2>1, <2>2
  <2> QED
    BY <2>1, <2>3 DEF CtxInv
<1>5. ASSUME NEW keys \in SUBSET CtxKeys, CtxFromPlain(keys) PROVE CtxInv'
  <2>1. ctxEntries' = [k \in keys |-> CtxEntry("plan", 0, 1)] /\ ctxOrder' = CtxByKey(keys)
        /\ UNCHANGED <<ctxTotal, ctxSaved>> /\ ctxEntries = CtxEmpty
    BY <1>5 DEF CtxFromPlain
  <2>2. CtxGood(ctxEntries', ctxOrder') /\ CtxSum(ctxEntries') = 0
    BY <2>1, CtxPlainIsGood
  <2>3. ctxTotal = 0
    BY <2>1, CtxPlainIsGood DEF CtxInv, CtxEmpty
  <2>4. CtxSum(ctxEntries)' = CtxSum(ctxEntries')
    BY DEF CtxSum, CtxTokensOf
  <2> QED
    BY <2>1, <2>2, <2>3, <2>4 DEF CtxInv
<1> QED
  BY <1>0, <1>1, <1>2, <1>3, <1>4, <1>5 DEF CtxNext

\* The count is exact, only what may not be evicted passes the budget, and no
\* entry is given up without need (mantis/context/manager.py), for any keys,
\* estimates and budget, and any number of sets, snapshots and restores.
THEOREM ContextIsKept == CtxSpec => CtxBudgetKept
<1>1. CtxInv => CtxTotalExact /\ CtxOverOnlyPinned
  BY DEF CtxInv, CtxGood, CtxTotalExact, CtxOverOnlyPinned
<1>2. CtxInv /\ [CtxNext]_ctxVars =>
        [CtxSetLeast]_ctxVars
  BY CtxSetStep DEF CtxSetLeast
<1>3. CtxSpec => []CtxInv
  BY CtxStart, CtxStep, PTL DEF CtxSpec
<1>4. CtxSpec => CtxEvictsLeast
  BY <1>2, <1>3, PTL DEF CtxSpec, CtxEvictsLeast
<1>5. CtxSpec => [](CtxTotalExact /\ CtxOverOnlyPinned)
  BY <1>1, <1>3, PTL
<1> QED
  BY <1>4, <1>5, PTL DEF CtxBudgetKept

(***************************************************************************)
(* The memories.                                                           *)
(***************************************************************************)
MemRow(m) ==
  /\ m.id \in Nat /\ m.importance \in Nat
  /\ m.scope \in MemScopes /\ m.content \in MemContents

MemTyped ==
  /\ IsFiniteSet(memRows)
  /\ memNext \in Nat
  /\ \A m \in memRows : MemRow(m) /\ m.id <= memNext
  /\ \A m, n \in memRows : m.id = n.id => m = n
  /\ memGiven \in [MemScopes \X MemContents -> Nat]

MemInv == MemTyped /\ MemKeepsBest

LEMMA MemStart == MemInit => MemInv
<1> SUFFICES ASSUME MemInit PROVE MemInv
  OBVIOUS
<1>1. IsFiniteSet(memRows)
  BY FS_EmptySet DEF MemInit
<1>2. MemTyped
  BY <1>1 DEF MemInit, MemTyped
<1>3. MemKeepsBest
  BY DEF MemInit, MemKeepsBest
<1> QED
  BY <1>2, <1>3 DEF MemInv

\* One row or none for what was given in a scope.
LEMMA MemOneRow ==
  ASSUME MemInv, NEW scope \in MemScopes, NEW content \in MemContents
  PROVE  LET there == {m \in memRows : m.scope = scope /\ m.content = content}
         IN /\ there = {} <=> memGiven[<<scope, content>>] = 0
            /\ there # {} => \E m \in memRows : there = {m} /\ m.importance = memGiven[<<scope, content>>]
<1> DEFINE there == {m \in memRows : m.scope = scope /\ m.content = content}
           rows == {m \in memRows : <<m.scope, m.content>> = <<scope, content>>}
<1>1. rows = there
  OBVIOUS
<1>2. <<scope, content>> \in DOMAIN memGiven
  BY DEF MemInv, MemTyped
<1>3. IF memGiven[<<scope, content>>] = 0 THEN rows = {}
      ELSE \E m \in rows : rows = {m} /\ m.importance = memGiven[<<scope, content>>]
  BY <1>2 DEF MemInv, MemKeepsBest
<1> QED
  BY <1>1, <1>3

LEMMA MemRemembers ==
  ASSUME MemInv, NEW scope \in MemScopes, NEW text \in DOMAIN MemCut,
         NEW importance \in MemImportances, MemRemember(scope, text, importance)
  PROVE  MemInv'
<1> DEFINE content == MemCut[text]
           there == {m \in memRows : m.scope = scope /\ m.content = content}
           key == <<scope, content>>
           best == IF memGiven[key] >= importance THEN memGiven[key] ELSE importance
<1>1. content \in MemContents /\ importance \in Nat /\ importance # 0
  BY MemAssumption DEF MemContents
<1>2. /\ IsFiniteSet(memRows) /\ memNext \in Nat
      /\ \A m \in memRows : MemRow(m) /\ m.id <= memNext
      /\ \A m, n \in memRows : m.id = n.id => m = n
      /\ memGiven \in [MemScopes \X MemContents -> Nat]
  BY DEF MemInv, MemTyped
<1>3. /\ memGiven' = [memGiven EXCEPT ![key] = best]
      /\ key \in MemScopes \X MemContents
      /\ memGiven[key] \in Nat /\ best \in Nat /\ best # 0
  BY <1>1, <1>2 DEF MemRemember
<1>4. memGiven' \in [MemScopes \X MemContents -> Nat]
      /\ memGiven'[key] = best
      /\ \A k \in MemScopes \X MemContents : k # key => memGiven'[k] = memGiven[k]
  BY <1>2, <1>3
<1>5. \E new : /\ memRows' = (memRows \ there) \cup {new}
               /\ MemRow(new) /\ new.id <= memNext' /\ memNext' \in Nat /\ memNext <= memNext'
               /\ new.scope = scope /\ new.content = content /\ new.importance = best
               /\ \A m \in memRows \ there : m.id # new.id
  <2>1. CASE there # {}
    <3>1. PICK m \in memRows : there = {m} /\ m.importance = memGiven[key]
      BY <1>1, <2>1, MemOneRow
    <3>2. memRows' = (memRows \ there) \cup {MemBumped(m, importance)} /\ memNext' = memNext
      BY <2>1, <3>1 DEF MemRemember
    <3> DEFINE new == MemBumped(m, importance)
    <3>3. m.scope = scope /\ m.content = content /\ MemRow(m) /\ m.id <= memNext
      BY <1>2, <3>1
    <3>4. /\ new.id = m.id /\ new.scope = m.scope /\ new.content = m.content
          /\ new.importance = best
      BY <3>1 DEF MemBumped
    <3>5. \A n \in memRows \ there : n.id # new.id
      BY <1>2, <3>1, <3>4
    <3>6. MemRow(new)
      BY <1>3, <3>3, <3>4 DEF MemRow
    <3> HIDE DEF new, best
    <3> QED
      BY <1>2, <3>2, <3>3, <3>4, <3>5, <3>6 DEF new
  <2>2. CASE there = {}
    <3> DEFINE new == [id |-> memNext + 1, scope |-> scope, content |-> content,
                       importance |-> importance]
    <3>1. memRows' = memRows \cup {new} /\ memNext' = memNext + 1
      BY <2>2 DEF MemRemember
    <3>2. memGiven[key] = 0
      BY <1>1, <2>2, MemOneRow
    <3>3. best = importance
      BY <1>1, <3>2
    <3>4. \A n \in memRows : n.id # new.id
      BY <1>2 DEF MemRow
    <3>5. MemRow(new)
      BY <1>1, <1>2 DEF MemRow
    <3> QED
      BY <1>2, <2>2, <3>1, <3>3, <3>4, <3>5
  <2> QED
    BY <2>1, <2>2
<1>6. PICK new : /\ memRows' = (memRows \ there) \cup {new}
                 /\ MemRow(new) /\ new.id <= memNext' /\ memNext' \in Nat /\ memNext <= memNext'
                 /\ new.scope = scope /\ new.content = content /\ new.importance = best
                 /\ \A m \in memRows \ there : m.id # new.id
  BY <1>5
<1> HIDE DEF content, best
<1>7. MemTyped'
  <2>1. IsFiniteSet(memRows')
    <3>1. memRows \ there \in SUBSET memRows
      OBVIOUS
    <3> HIDE DEF there
    <3> QED
      BY <1>2, <1>6, <3>1, FS_Subset, FS_AddElement
  <2>2. \A m \in memRows' : MemRow(m) /\ m.id <= memNext'
    <3> SUFFICES ASSUME NEW m \in memRows' PROVE MemRow(m) /\ m.id <= memNext'
      OBVIOUS
    <3>1. CASE m = new
      BY <1>6, <3>1
    <3>2. CASE m \in memRows
      BY <1>2, <1>6, <3>2 DEF MemRow
    <3> QED
      BY <1>6, <3>1, <3>2
  <2>3. \A m, n \in memRows' : m.id = n.id => m = n
    BY <1>2, <1>6
  <2> QED
    BY <1>4, <1>6, <2>1, <2>2, <2>3 DEF MemTyped, MemRow
<1>8. MemKeepsBest'
  <2> SUFFICES ASSUME NEW k \in MemScopes \X MemContents
               PROVE  LET rows == {m \in memRows' : <<m.scope, m.content>> = k}
                      IN IF memGiven'[k] = 0 THEN rows = {}
                         ELSE \E m \in rows : rows = {m} /\ m.importance = memGiven'[k]
    BY <1>4 DEF MemKeepsBest
  <2> DEFINE rows == {m \in memRows' : <<m.scope, m.content>> = k}
             was == {m \in memRows : <<m.scope, m.content>> = k}
  <2>1. CASE k = key
    <3>1. rows = {new}
      BY <1>6, <2>1
    <3> QED
      BY <1>3, <1>4, <1>6, <2>1, <3>1
  <2>2. CASE k # key
    <3>1. rows = was
      BY <1>6, <2>2
    <3>2. memGiven'[k] = memGiven[k]
      BY <1>4, <2>2
    <3>3. IF memGiven[k] = 0 THEN was = {}
          ELSE \E m \in was : was = {m} /\ m.importance = memGiven[k]
      BY <1>2 DEF MemInv, MemKeepsBest
    <3> QED
      BY <3>1, <3>2, <3>3
  <2> QED
    BY <2>1, <2>2
<1> QED
  BY <1>7, <1>8 DEF MemInv

LEMMA MemForgets ==
  ASSUME MemInv, NEW id, MemForget(id)
  PROVE  MemInv'
<1> DEFINE gone == {m \in memRows : m.id = id}
           forgotten(k) == \E m \in gone : <<m.scope, m.content>> = k
<1>1. /\ IsFiniteSet(memRows) /\ memNext \in Nat
      /\ \A m \in memRows : MemRow(m) /\ m.id <= memNext
      /\ \A m, n \in memRows : m.id = n.id => m = n
      /\ memGiven \in [MemScopes \X MemContents -> Nat]
  BY DEF MemInv, MemTyped
<1>2. /\ memRows' = memRows \ gone /\ memNext' = memNext
      /\ memGiven' = [k \in DOMAIN memGiven |-> IF forgotten(k) THEN 0 ELSE memGiven[k]]
  BY DEF MemForget
<1>3. MemTyped'
  <2>1. IsFiniteSet(memRows')
    BY <1>1, <1>2, FS_Subset
  <2>2. memGiven' \in [MemScopes \X MemContents -> Nat]
    BY <1>1, <1>2
  <2> QED
    BY <1>1, <1>2, <2>1, <2>2 DEF MemTyped, MemRow
<1>4. MemKeepsBest'
  <2> SUFFICES ASSUME NEW k \in MemScopes \X MemContents
               PROVE  LET rows == {m \in memRows' : <<m.scope, m.content>> = k}
                      IN IF memGiven'[k] = 0 THEN rows = {}
                         ELSE \E m \in rows : rows = {m} /\ m.importance = memGiven'[k]
    BY <1>1, <1>2 DEF MemKeepsBest
  <2> DEFINE rows == {m \in memRows' : <<m.scope, m.content>> = k}
             was == {m \in memRows : <<m.scope, m.content>> = k}
  <2>1. IF memGiven[k] = 0 THEN was = {}
        ELSE \E m \in was : was = {m} /\ m.importance = memGiven[k]
    BY <1>1 DEF MemInv, MemKeepsBest
  <2>2. CASE forgotten(k)
    <3>1. PICK m \in gone : m \in was
      BY <2>2
    <3>2. was = {m}
      BY <2>1, <3>1
    <3>3. rows = {}
      BY <1>2, <3>2
    <3>4. memGiven'[k] = 0
      BY <1>1, <1>2, <2>2
    <3> QED
      BY <3>3, <3>4
  <2>3. CASE ~forgotten(k)
    <3>1. rows = was
      BY <1>2, <2>3
    <3>2. memGiven'[k] = memGiven[k]
      BY <1>1, <1>2, <2>3
    <3> QED
      BY <2>1, <3>1, <3>2
  <2> QED
    BY <2>2, <2>3
<1> QED
  BY <1>3, <1>4 DEF MemInv

LEMMA MemStep == MemInv /\ [MemNext]_memVars => MemInv'
<1> SUFFICES ASSUME MemInv, [MemNext]_memVars PROVE MemInv'
  OBVIOUS
<1>1. CASE UNCHANGED memVars
  BY <1>1 DEF memVars, MemInv, MemTyped, MemKeepsBest
<1>2. ASSUME NEW project, MemRecall(project) PROVE MemInv'
  BY <1>2 DEF MemRecall, MemInv, MemTyped, MemKeepsBest
<1> QED
  BY <1>1, <1>2, MemRemembers, MemForgets DEF MemNext

\* The weights of recalled rows.
LEMMA MemWeights ==
  ASSUME MemTyped, NEW S \in SUBSET memRows
  PROVE  /\ IsFiniteSet(S) /\ MemWeight(S) \in Nat
         /\ \A T \in SUBSET S : MemWeight(T) <= MemWeight(S)
<1> DEFINE w(R) == [m \in R |-> MemTokens[m.content]]
<1>1. IsFiniteSet(S)
  BY FS_Subset DEF MemTyped
<1>2. \A R \in SUBSET memRows : \A m \in R : w(R)[m] = MemTokens[m.content] /\ w(R)[m] \in Nat
  BY MemAssumption DEF MemTyped, MemRow, MemContents
<1>3. MemWeight(S) \in Nat
  BY <1>1, <1>2, TotalIsNat DEF MemWeight
<1>4. ASSUME NEW T \in SUBSET S PROVE MemWeight(T) <= MemWeight(S)
  <2>1. \A m \in T : w(T)[m] \in Nat /\ w(S)[m] \in Nat /\ w(T)[m] <= w(S)[m]
    BY <1>2
  <2>2. \A m \in S : w(S)[m] \in Nat
    BY <1>2
  <2>3. Total(T, w(T)) <= Total(S, w(S))
    <3> HIDE DEF w
    <3> QED
      BY <1>1, <2>1, <2>2, TotalIsMonotone
  <2> QED
    BY <2>3 DEF MemWeight
<1> QED
  BY <1>1, <1>3, <1>4

\* MemBetter is a strict total order of the rows.
LEMMA MemOrdered ==
  ASSUME MemTyped
  PROVE  /\ \A m \in memRows : ~MemBetter(m, m)
         /\ \A l, m, n \in memRows : MemBetter(l, m) /\ MemBetter(m, n) => MemBetter(l, n)
         /\ \A m, n \in memRows : m = n \/ MemBetter(m, n) \/ MemBetter(n, m)
<1>1. \A m, n \in memRows : m.id \in Nat /\ m.importance \in Nat /\ (m.id = n.id => m = n)
  BY DEF MemTyped, MemRow
<1> QED
  BY <1>1 DEF MemBetter

\* A recall takes the top rows and fits its budget.
LEMMA MemRecallIsTop ==
  ASSUME MemInv, NEW project \in MemProjects, MemRecall(project)
  PROVE  MemTopOnly(project)
<1> DEFINE seen == MemSeen(project)
           top == MemTop(project)
           in == MemFitting(top)
<1>1. memLast'.rows = in
  BY DEF MemRecall
<1>2. seen \subseteq memRows /\ top \subseteq seen /\ in \subseteq top /\ MemTyped
      /\ MemLimit \in Nat /\ MemMaxTokens \in Nat
  BY MemAssumption DEF MemSeen, MemTop, MemFitting, MemInv
<1>3. \A R \in SUBSET memRows : \A m \in R : MemAbove(R, m) \subseteq R /\ {m} \cup MemAbove(R, m) \in SUBSET memRows
  BY DEF MemAbove
<1>4. ASSUME NEW m \in in, NEW n \in seen, MemBetter(n, m) PROVE n \in in
  <2>1. m \in top /\ m \in seen /\ m \in memRows /\ n \in memRows
    BY <1>2
  <2>2. MemAbove(seen, n) \subseteq MemAbove(seen, m)
    BY <1>2, <1>4, <2>1, MemOrdered DEF MemAbove
  <2>3. Cardinality(MemAbove(seen, n)) <= Cardinality(MemAbove(seen, m))
        /\ Cardinality(MemAbove(seen, n)) \in Nat /\ Cardinality(MemAbove(seen, m)) \in Nat
    <3>1. IsFiniteSet(MemAbove(seen, m)) /\ IsFiniteSet(MemAbove(seen, n))
      BY <1>2, <2>1, <1>3, MemWeights
    <3> HIDE DEF seen
    <3> QED
      BY <2>2, <3>1, FS_Subset, FS_CardinalityType
  <2>4. Cardinality(MemAbove(seen, m)) < MemLimit
    BY <2>1 DEF MemTop
  <2>5. n \in top
    BY <1>2, <2>3, <2>4 DEF MemTop
  <2>6. {n} \cup MemAbove(top, n) \in SUBSET ({m} \cup MemAbove(top, m))
    BY <1>2, <1>4, <2>1, <2>5, MemOrdered DEF MemAbove
  <2>7. MemWeight({m} \cup MemAbove(top, m)) <= MemMaxTokens
    BY DEF MemFitting
  <2>8. {m} \cup MemAbove(top, m) \in SUBSET memRows
    BY <1>2, <1>3, <2>1
  <2>9. /\ MemWeight({n} \cup MemAbove(top, n)) <= MemWeight({m} \cup MemAbove(top, m))
        /\ MemWeight({n} \cup MemAbove(top, n)) \in Nat
        /\ MemWeight({m} \cup MemAbove(top, m)) \in Nat
    <3> DEFINE A == {n} \cup MemAbove(top, n)
               B == {m} \cup MemAbove(top, m)
    <3>1. A \in SUBSET B /\ B \in SUBSET memRows /\ A \in SUBSET memRows
      BY <2>6, <2>8
    <3> HIDE DEF A, B
    <3>2. MemWeight(A) <= MemWeight(B) /\ MemWeight(A) \in Nat /\ MemWeight(B) \in Nat
      BY <1>2, <3>1, MemWeights
    <3> QED
      BY <3>2 DEF A, B
  <2>10. MemWeight({n} \cup MemAbove(top, n)) <= MemMaxTokens
    <3> HIDE DEF top
    <3> QED
      BY <1>2, <2>7, <2>9
  <2> QED
    BY <2>5, <2>10 DEF MemFitting
<1>5. \A m \in in, n \in seen \ in : m.importance >= n.importance
  <2> SUFFICES ASSUME NEW m \in in, NEW n \in seen \ in PROVE m.importance >= n.importance
    OBVIOUS
  <2>1. ~MemBetter(n, m)
    BY <1>4
  <2>2. m.importance \in Nat /\ n.importance \in Nat
    BY <1>2 DEF MemTyped, MemRow
  <2> QED
    BY <2>1, <2>2 DEF MemBetter
<1>6. MemWeight(in) <= MemMaxTokens
  <2>1. CASE in = {}
    <3>1. MemWeight({}) = 0
      BY TotalOfZeros DEF MemWeight
    <3> HIDE DEF in
    <3> QED
      BY <1>2, <2>1, <3>1
  <2>2. CASE in # {}
    <3> DEFINE worse == {p \in in \X in : MemBetter(p[2], p[1])}
    <3>1. \A m, n : <<m, n>> \in worse <=> m \in in /\ n \in in /\ MemBetter(n, m)
      OBVIOUS
    <3>2. IsFiniteSet(in) /\ in \subseteq memRows
      BY <1>2, MemWeights
    <3>3. /\ \A k \in in : <<k, k>> \notin worse
          /\ \A j, k, l \in in : <<j, k>> \in worse /\ <<k, l>> \in worse => <<j, l>> \in worse
          /\ \A j, k \in in : j = k \/ <<j, k>> \in worse \/ <<k, j>> \in worse
      <4> HIDE DEF worse, in
      <4> QED
        BY <1>2, <3>1, <3>2, MemOrdered
    <3>4. \E m \in in : \A n \in in \ {m} : <<m, n>> \in worse
      <4> HIDE DEF worse, in
      <4> QED
        BY <2>2, <3>2, <3>3, OneIsFirst
    <3>5. PICK m \in in : \A n \in in \ {m} : MemBetter(n, m)
      BY <3>1, <3>4
    <3> DEFINE B == {m} \cup MemAbove(top, m)
    <3>6. in \in SUBSET B /\ B \in SUBSET memRows
      BY <1>2, <1>3, <3>5 DEF MemAbove
    <3>7. MemWeight(B) <= MemMaxTokens
      BY DEF MemFitting
    <3> HIDE DEF B, in
    <3>8. MemWeight(in) <= MemWeight(B) /\ MemWeight(in) \in Nat /\ MemWeight(B) \in Nat
      BY <1>2, <3>2, <3>6, MemWeights
    <3> QED
      BY <1>2, <3>7, <3>8
  <2> QED
    BY <2>1, <2>2
<1> HIDE DEF in, top
<1> QED
  BY <1>1, <1>2, <1>5, <1>6 DEF MemTopOnly

\* What is remembered is there once with its best importance, and a recall is of
\* the top rows within its budget (db/repositories/memories.py, agent/memory.py),
\* for any projects, texts, token estimates and limits.
THEOREM MemoriesAreSound == MemSpec => MemSound
<1>1. MemInv => MemKeepsBest
  BY DEF MemInv
<1>2. MemInv /\ [MemNext]_memVars => [MemRecalled]_memVars
  BY MemRecallIsTop DEF MemRecalled
<1>3. MemSpec => []MemInv
  BY MemStart, MemStep, PTL DEF MemSpec
<1> QED
  BY <1>1, <1>2, <1>3, PTL DEF MemSpec, MemSound, MemRecallsTop

(***************************************************************************)
(* The books.                                                              *)
(***************************************************************************)
BookLog == [project: BookProjects, day: 1..BookDays, model: DOMAIN BookModels, cost: BookCosts]
BookPages == [step: {"none", "daily", "shown"}, failed: BOOLEAN, daily: Nat, monthly: Nat,
              since: Nat, blocked: BOOLEAN]

BookTyped ==
  /\ bookRows \subseteq BookProjects
  /\ bookLogs \in Seq(BookLog)
  /\ bookToday \in 1..BookDays
  /\ DOMAIN bookDaily = BookProjects \X (1..BookDays)
  /\ DOMAIN bookModel = BookProjects \X (1..BookDays) \X DOMAIN BookModels
  /\ bookJob \in Nat
  /\ bookPage \in BookPages /\ bookPage.since <= bookToday

BookRowTrue(row, p, d) ==
  /\ row.cost \in Nat /\ row.cost <= BookCost(BookOf(p, d))
  /\ row # BookNoRow => row.cost = row.tiers["free"] + row.tiers["standard"]
                                   + row.tiers["premium"]
BookRowsTrue == \A p \in BookProjects, d \in 1..BookDays : BookRowTrue(bookDaily[<<p, d>>], p, d)

BookModelTrue(row, p, d, m) == row.cost \in Nat /\ row.cost <= BookCost(BookModelOf(p, d, m))
BookModelsTrue ==
  \A p \in BookProjects, d \in 1..BookDays, m \in DOMAIN BookModels :
    BookModelTrue(bookModel[<<p, d, m>>], p, d, m)

BookPageTrue ==
  bookPage.step = "daily" /\ bookPage.since = bookToday =>
    /\ bookPage.daily <= BookSpentToday("default")
    /\ bookPage.blocked => bookPage.daily >= BookDailyMax
                           \/ BookSpentMonth("default") >= BookMonthlyMax

BookInv == BookTyped /\ BookRowsTrue /\ BookModelsTrue /\ BookPageTrue

\* Sums over cost_logs, and what they become as it grows.
BookGrows ==
  /\ DOMAIN bookLogs \subseteq DOMAIN bookLogs'
  /\ \A i \in DOMAIN bookLogs : bookLogs'[i] = bookLogs[i]

LEMMA BookSums ==
  ASSUME BookTyped
  PROVE  /\ IsFiniteSet(DOMAIN bookLogs)
         /\ \A i \in DOMAIN bookLogs : /\ bookLogs[i].cost \in Nat
                                       /\ bookLogs[i].model \in DOMAIN BookModels
         /\ \A S \in SUBSET DOMAIN bookLogs : IsFiniteSet(S) /\ BookCost(S) \in Nat
<1> DEFINE cost == [i \in DOMAIN bookLogs |-> bookLogs[i].cost]
<1>1. IsFiniteSet(DOMAIN bookLogs)
  <2>1. DOMAIN bookLogs = 1..Len(bookLogs) /\ Len(bookLogs) \in Nat
    BY DEF BookTyped
  <2> QED
    BY <2>1, FS_Interval
<1>2. \A i \in DOMAIN bookLogs : bookLogs[i].cost \in Nat /\ bookLogs[i].model \in DOMAIN BookModels
  <2>1. \A i \in DOMAIN bookLogs : bookLogs[i] \in BookLog
    BY DEF BookTyped
  <2>2. \A i \in DOMAIN bookLogs : bookLogs[i].cost \in BookCosts /\ bookLogs[i].model \in DOMAIN BookModels
    BY <2>1 DEF BookLog
  <2> QED
    BY <2>2, BookAssumption
<1>3. ASSUME NEW S \in SUBSET DOMAIN bookLogs PROVE IsFiniteSet(S) /\ BookCost(S) \in Nat
  <2>1. IsFiniteSet(S)
    BY <1>1, FS_Subset
  <2>2. \A i \in S : cost[i] \in Nat
    BY <1>2
  <2>3. Total(S, cost) \in Nat
    <3> HIDE DEF cost
    <3> QED
      BY <2>1, <2>2, TotalIsNat
  <2> QED
    BY <2>1, <2>3 DEF BookCost
<1> QED
  BY <1>1, <1>2, <1>3

LEMMA BookSumsGrow ==
  ASSUME BookTyped, BookTyped', BookGrows,
         NEW S \in SUBSET DOMAIN bookLogs, NEW T \in SUBSET DOMAIN bookLogs', S \subseteq T
  PROVE  BookCost(S) <= BookCost(T)' /\ BookCost(S) \in Nat /\ BookCost(T)' \in Nat
<1> DEFINE old == [i \in DOMAIN bookLogs |-> bookLogs[i].cost]
           new == [i \in DOMAIN bookLogs' |-> bookLogs'[i].cost]
<1>1. BookCost(S) \in Nat /\ IsFiniteSet(S) /\ \A i \in DOMAIN bookLogs : bookLogs[i].cost \in Nat
  BY BookSums
<1>2. /\ BookCost(T)' \in Nat /\ IsFiniteSet(T)
      /\ \A i \in DOMAIN bookLogs' : bookLogs'[i].cost \in Nat
  <2>1. IsFiniteSet(DOMAIN bookLogs')
    <3>1. DOMAIN bookLogs' = 1..Len(bookLogs') /\ Len(bookLogs') \in Nat
      BY DEF BookTyped
    <3> QED
      BY <3>1, FS_Interval
  <2>2. \A i \in DOMAIN bookLogs' : bookLogs'[i].cost \in Nat
    <3>1. \A i \in DOMAIN bookLogs' : bookLogs'[i] \in BookLog
      BY DEF BookTyped
    <3>2. \A i \in DOMAIN bookLogs' : bookLogs'[i].cost \in BookCosts
      BY <3>1 DEF BookLog
    <3> QED
      BY <3>2, BookAssumption
  <2>3. IsFiniteSet(T)
    BY <2>1, FS_Subset
  <2>4. \A i \in T : new[i] \in Nat
    BY <2>2
  <2>5. Total(T, new) \in Nat
    <3> HIDE DEF new
    <3> QED
      BY <2>3, <2>4, TotalIsNat
  <2> QED
    BY <2>2, <2>3, <2>5 DEF BookCost
<1>3. \A i \in S : old[i] \in Nat /\ old[i] <= new[i]
  BY <1>1 DEF BookGrows
<1>4. \A i \in T : new[i] \in Nat
  BY <1>2
<1>5. Total(S, old) <= Total(T, new)
  <2> HIDE DEF old, new
  <2> QED
    BY <1>2, <1>3, <1>4, TotalIsMonotone
<1> QED
  BY <1>1, <1>2, <1>5 DEF BookCost

\* What the calls say of a row stays true of it as they go on.
LEMMA BookRowsStay ==
  ASSUME BookTyped, BookTyped', BookGrows, NEW row, NEW p, NEW d, NEW m
  PROVE  /\ BookRowTrue(row, p, d) => BookRowTrue(row, p, d)'
         /\ BookModelTrue(row, p, d, m) => BookModelTrue(row, p, d, m)'
<1>1. BookOf(p, d) \in SUBSET DOMAIN bookLogs /\ BookOf(p, d)' \in SUBSET DOMAIN bookLogs'
      /\ BookOf(p, d) \subseteq BookOf(p, d)'
  BY DEF BookOf, BookGrows
<1>2. BookModelOf(p, d, m) \in SUBSET DOMAIN bookLogs
      /\ BookModelOf(p, d, m)' \in SUBSET DOMAIN bookLogs'
      /\ BookModelOf(p, d, m) \subseteq BookModelOf(p, d, m)'
  BY DEF BookOf, BookModelOf, BookGrows
<1>3. BookCost(BookOf(p, d)) <= BookCost(BookOf(p, d))'
      /\ BookCost(BookOf(p, d)) \in Nat /\ BookCost(BookOf(p, d))' \in Nat
  BY <1>1, BookSumsGrow DEF BookCost
<1>4. BookCost(BookModelOf(p, d, m)) <= BookCost(BookModelOf(p, d, m))'
      /\ BookCost(BookModelOf(p, d, m)) \in Nat /\ BookCost(BookModelOf(p, d, m))' \in Nat
  BY <1>2, BookSumsGrow DEF BookCost
<1>5. BookRowTrue(row, p, d) => BookRowTrue(row, p, d)'
  BY <1>3 DEF BookRowTrue
<1>6. BookModelTrue(row, p, d, m) => BookModelTrue(row, p, d, m)'
  BY <1>4 DEF BookModelTrue
<1> QED
  BY <1>5, <1>6

\* The totals of a day are true of it.
LEMMA BookTotalsTrue ==
  ASSUME BookTyped, NEW p, NEW d
  PROVE  BookRowTrue(BookTotals(BookOf(p, d)), p, d)
<1> DEFINE L == BookOf(p, d)
           part(t) == BookTierOf(L, t)
           f == [i \in DOMAIN bookLogs |-> bookLogs[i].cost]
<1>1. L \in SUBSET DOMAIN bookLogs
  BY DEF BookOf
<1>2. \A i \in L : f[i] \in Nat /\ BookModels[bookLogs[i].model] \in BookTiers
  BY <1>1, BookSums, BookAssumption
<1>3. \A t : part(t) \in SUBSET L
  BY DEF BookTierOf
<1>4. L = (part("free") \cup part("standard")) \cup part("premium")
  BY <1>2 DEF BookTierOf, BookTiers
<1>5. part("free") \cap part("standard") = {}
      /\ (part("free") \cup part("standard")) \cap part("premium") = {}
  BY DEF BookTierOf
<1>6. Total(L, f) = Total(part("free"), f) + Total(part("standard"), f) + Total(part("premium"), f)
  <2> DEFINE A == part("free")
             B == part("standard")
             C == part("premium")
  <2>1. /\ IsFiniteSet(A) /\ IsFiniteSet(B) /\ IsFiniteSet(C) /\ IsFiniteSet(A \cup B)
        /\ A \cup B \in SUBSET L /\ A \in SUBSET L /\ B \in SUBSET L /\ C \in SUBSET L
    <3>1. A \cup B \in SUBSET DOMAIN bookLogs /\ A \in SUBSET DOMAIN bookLogs
          /\ B \in SUBSET DOMAIN bookLogs /\ C \in SUBSET DOMAIN bookLogs
      BY <1>1, <1>3
    <3>2. A \cup B \in SUBSET L /\ A \in SUBSET L /\ B \in SUBSET L /\ C \in SUBSET L
      BY <1>3
    <3> HIDE DEF A, B, C, L
    <3> QED
      BY <3>1, <3>2, BookSums
  <2>2. A \cap B = {} /\ (A \cup B) \cap C = {} /\ L = (A \cup B) \cup C
    BY <1>4, <1>5
  <2> HIDE DEF A, B, C, f, L
  <2>3. Total(A \cup B, f) = Total(A, f) + Total(B, f)
    BY <1>2, <2>1, <2>2, TotalOfParts
  <2>4. Total((A \cup B) \cup C, f) = Total(A \cup B, f) + Total(C, f)
    <3>1. \A i \in (A \cup B) \cup C : f[i] \in Nat
      BY <1>2, <2>1
    <3> QED
      BY <3>1, <2>1, <2>2, TotalOfParts
  <2>5. Total(L, f) = Total(A, f) + Total(B, f) + Total(C, f)
    BY <2>2, <2>3, <2>4
  <2> QED
    BY <2>5 DEF A, B, C
<1>7. BookCost(L) \in Nat
  BY <1>1, BookSums
<1>8. /\ BookTotals(L).cost = BookCost(L)
      /\ BookTotals(L).tiers["free"] = BookCost(part("free"))
      /\ BookTotals(L).tiers["standard"] = BookCost(part("standard"))
      /\ BookTotals(L).tiers["premium"] = BookCost(part("premium"))
  BY DEF BookTotals, BookTiers
<1>9. BookCost(L) = BookCost(part("free")) + BookCost(part("standard")) + BookCost(part("premium"))
  BY <1>6 DEF BookCost
<1> HIDE DEF part
<1> QED
  BY <1>7, <1>8, <1>9 DEF BookRowTrue

(***************************************************************************)
(* The steps of the books.                                                 *)
(***************************************************************************)
LEMMA BookStart == BookInit => BookInv
<1> SUFFICES ASSUME BookInit PROVE BookInv
  OBVIOUS
<1>1. BookTyped
  BY BookAssumption DEF BookInit, BookTyped, BookNoPage, BookPages
<1>2. \A S \in SUBSET DOMAIN bookLogs : BookCost(S) \in Nat
  BY <1>1, BookSums
<1>3. BookNoRow.cost = 0
  BY DEF BookNoRow
<1>4. BookRowsTrue
  <2> SUFFICES ASSUME NEW p \in BookProjects, NEW d \in 1..BookDays
               PROVE  BookRowTrue(bookDaily[<<p, d>>], p, d)
    BY DEF BookRowsTrue
  <2>1. bookDaily[<<p, d>>] = BookNoRow
    BY DEF BookInit
  <2>2. BookCost(BookOf(p, d)) \in Nat
    BY <1>2 DEF BookOf
  <2> QED
    BY <1>3, <2>1, <2>2 DEF BookRowTrue
<1>5. BookModelsTrue
  <2> SUFFICES ASSUME NEW p \in BookProjects, NEW d \in 1..BookDays, NEW m \in DOMAIN BookModels
               PROVE  BookModelTrue(bookModel[<<p, d, m>>], p, d, m)
    BY DEF BookModelsTrue
  <2>1. bookModel[<<p, d, m>>] = BookNoRow
    BY DEF BookInit
  <2>2. BookCost(BookModelOf(p, d, m)) \in Nat
    BY <1>2 DEF BookModelOf, BookOf
  <2> QED
    BY <1>3, <2>1, <2>2 DEF BookModelTrue
<1>6. BookPageTrue
  BY DEF BookInit, BookNoPage, BookPageTrue
<1> QED
  BY <1>1, <1>4, <1>5, <1>6 DEF BookInv

\* Types are kept, and the logs only grow.
LEMMA BookTypesStay == BookTyped /\ [BookNext]_bookVars => BookTyped' /\ BookGrows
<1> SUFFICES ASSUME BookTyped, [BookNext]_bookVars PROVE BookTyped' /\ BookGrows
  OBVIOUS
<1>1. BookDays \in Nat /\ BookDays # 0
  BY BookAssumption
<1>2. CASE UNCHANGED bookVars
  BY <1>2 DEF bookVars, BookTyped, BookGrows
<1>3. ASSUME NEW p \in BookProjects, BookCreate(p) \/ BookDelete(p) PROVE BookTyped' /\ BookGrows
  BY <1>3 DEF BookCreate, BookDelete, BookTyped, BookGrows
<1>4. ASSUME NEW p \in BookProjects, NEW m \in DOMAIN BookModels, NEW c \in BookCosts, BookSpend(p, m, c)
      PROVE  BookTyped' /\ BookGrows
  <2> DEFINE log == [project |-> p, day |-> bookToday, model |-> m, cost |-> c]
  <2>1. log \in BookLog /\ bookLogs \in Seq(BookLog) /\ bookLogs' = Append(bookLogs, log)
    BY <1>4 DEF BookSpend, BookTyped, BookLog
  <2> HIDE DEF log
  <2>2. bookLogs' \in Seq(BookLog) /\ BookGrows
    BY <2>1 DEF BookGrows
  <2> QED
    BY <1>4, <2>2 DEF BookSpend, BookTyped
<1>5. CASE BookMidnight
  <2>1. bookPage.since \in Nat /\ bookToday \in Nat /\ bookPage.since <= bookToday
    BY DEF BookTyped, BookPages
  <2> QED
    BY <1>1, <1>5, <2>1 DEF BookMidnight, BookTyped, BookGrows
<1>6. CASE BookRollup
  BY <1>1, <1>6 DEF BookRollup, BookUpsertDaily, BookTyped, BookGrows
<1>7. CASE BookRollupModels
  BY <1>7 DEF BookRollupModels, BookUpsertModel, BookTyped, BookGrows
<1>8. CASE BookRollupFails
  BY <1>8 DEF BookRollupFails, BookTyped, BookGrows
<1>9. CASE \E from, to \in 1..bookToday : BookBackfill(from, to)
  BY <1>9 DEF BookBackfill, BookTyped, BookGrows
<1>10. CASE BookBackfillDay
  BY <1>10 DEF BookBackfillDay, BookUpsertDaily, BookTyped, BookGrows
<1>11. CASE BookPageDaily
  <2>1. BookSpentToday("default") \in Nat
    BY BookSums DEF BookSpentToday, BookOf
  <2>2. bookPage' \in BookPages /\ bookPage'.since = bookToday /\ bookToday \in Nat
    <3> DEFINE on == BookSpentToday("default") >= BookDailyMax
                       \/ BookSpentMonth("default") >= BookMonthlyMax
    <3>1. bookPage' = [step |-> "daily", failed |-> FALSE, daily |-> BookSpentToday("default"),
                       monthly |-> 0, since |-> bookToday, blocked |-> on]
      BY <1>11 DEF BookPageDaily, BookNoPage
    <3>2. on \in BOOLEAN
      OBVIOUS
    <3>3. bookToday \in Nat
      BY DEF BookTyped
    <3> HIDE DEF on
    <3> QED
      BY <2>1, <3>1, <3>2, <3>3 DEF BookPages
  <2> QED
    BY <1>11, <2>2 DEF BookPageDaily, BookTyped, BookGrows
<1>12. ASSUME NEW fails \in BOOLEAN, BookPageMonthly(fails) PROVE BookTyped' /\ BookGrows
  <2>1. BookSpentMonth("default") \in Nat
    BY BookSums DEF BookSpentMonth
  <2>2. bookPage' \in BookPages /\ bookPage'.since = bookPage.since
    BY <1>12, <2>1 DEF BookPageMonthly, BookPages, BookTyped
  <2> QED
    BY <1>12, <2>2 DEF BookPageMonthly, BookTyped, BookGrows
<1> QED
  BY <1>2, <1>3, <1>4, <1>5, <1>6, <1>7, <1>8, <1>9, <1>10, <1>11, <1>12 DEF BookNext

\* A row is kept or brought up to its day.
LEMMA BookRowsStayTrue ==
  ASSUME BookTyped, BookRowsTrue, BookModelsTrue, [BookNext]_bookVars
  PROVE  BookRowsTrue' /\ BookModelsTrue'
<1>1. BookTyped' /\ BookGrows
  BY BookTypesStay
<1>2. \/ bookDaily' = bookDaily
      \/ bookLogs' = bookLogs /\ \E day : bookDaily' = BookUpsertDaily(day)
  BY DEF BookNext, bookVars, BookCreate, BookDelete, BookSpend, BookMidnight, BookRollup,
         BookRollupModels, BookRollupFails, BookBackfill, BookBackfillDay, BookPageDaily,
         BookPageMonthly
<1>3. \/ bookModel' = bookModel
      \/ bookLogs' = bookLogs /\ \E day : bookModel' = BookUpsertModel(day)
  BY DEF BookNext, bookVars, BookCreate, BookDelete, BookSpend, BookMidnight, BookRollup,
         BookRollupModels, BookRollupFails, BookBackfill, BookBackfillDay, BookPageDaily,
         BookPageMonthly
<1>4. BookRowsTrue'
  <2> SUFFICES ASSUME NEW p \in BookProjects, NEW d \in 1..BookDays
               PROVE  BookRowTrue(bookDaily[<<p, d>>], p, d)'
    BY DEF BookRowsTrue
  <2> DEFINE row == bookDaily'[<<p, d>>]
  <2>1. BookRowTrue(row, p, d)
    <3>1. <<p, d>> \in DOMAIN bookDaily /\ BookRowTrue(bookDaily[<<p, d>>], p, d)
      BY DEF BookTyped, BookRowsTrue
    <3>2. ASSUME NEW day, bookDaily' = BookUpsertDaily(day), row # bookDaily[<<p, d>>]
          PROVE  row = BookTotals(BookOf(p, d))
      <4>1. row = IF d # day \/ BookOf(p, day) = {} THEN bookDaily[<<p, d>>]
                  ELSE BookTotals(BookOf(p, day))
        BY <3>1, <3>2 DEF BookUpsertDaily
      <4> QED
        BY <3>2, <4>1
    <3>3. row = bookDaily[<<p, d>>] \/ row = BookTotals(BookOf(p, d))
      BY <1>2, <3>2
    <3> HIDE DEF row
    <3> QED
      BY <3>1, <3>3, BookTotalsTrue
  <2>2. PICK r : r = bookDaily'[<<p, d>>]
    OBVIOUS
  <2>3. BookRowTrue(r, p, d)'
    BY <1>1, <2>1, <2>2, BookRowsStay
  <2> QED
    BY <2>2, <2>3 DEF BookRowTrue
<1>5. BookModelsTrue'
  <2> SUFFICES ASSUME NEW p \in BookProjects, NEW d \in 1..BookDays, NEW m \in DOMAIN BookModels
               PROVE  BookModelTrue(bookModel[<<p, d, m>>], p, d, m)'
    BY DEF BookModelsTrue
  <2> DEFINE k == <<p, d, m>>
             row == bookModel'[k]
             logs == BookModelOf(p, d, m)
  <2>1. BookModelTrue(row, p, d, m)
    <3>1. k \in DOMAIN bookModel /\ BookModelTrue(bookModel[k], p, d, m)
      BY DEF BookTyped, BookModelsTrue
    <3>2. ASSUME NEW day, bookModel' = BookUpsertModel(day), row # bookModel[k]
          PROVE  row.cost = BookCost(logs)
      <4>1. row = IF d # day \/ BookModelOf(p, day, m) = {} THEN bookModel[k]
                  ELSE [cost |-> BookCost(BookModelOf(p, day, m)),
                        requests |-> Cardinality(BookModelOf(p, day, m)), tiers |-> <<>>]
        BY <3>1, <3>2 DEF BookUpsertModel
      <4> QED
        BY <3>2, <4>1
    <3>3. row = bookModel[k] \/ row.cost = BookCost(logs)
      BY <1>3, <3>2
    <3>4. BookCost(logs) \in Nat
      BY BookSums DEF BookModelOf, BookOf
    <3> HIDE DEF row
    <3> QED
      BY <3>1, <3>3, <3>4 DEF BookModelTrue
  <2>2. PICK r : r = bookModel'[k]
    OBVIOUS
  <2>3. BookModelTrue(r, p, d, m)'
    BY <1>1, <2>1, <2>2, BookRowsStay
  <2> QED
    BY <2>2, <2>3 DEF BookModelTrue
<1> QED
  BY <1>4, <1>5

\* The page's first figure lags behind the day, and a block it began with is on.
LEMMA BookPageStays ==
  ASSUME BookTyped, BookPageTrue, [BookNext]_bookVars
  PROVE  BookPageTrue'
<1> DEFINE today == BookOf("default", bookToday)
           month == {i \in DOMAIN bookLogs : bookLogs[i].project = "default"
                       /\ BookMonthOf(bookLogs[i].day) = BookMonthOf(bookToday)}
<1>1. BookTyped' /\ BookGrows
  BY BookTypesStay
<1>2. BookSpentToday("default") = BookCost(today) /\ BookSpentMonth("default") = BookCost(month)
      /\ today \in SUBSET DOMAIN bookLogs /\ month \in SUBSET DOMAIN bookLogs
  BY DEF BookSpentToday, BookSpentMonth, BookOf
<1>3. BookCost(today) \in Nat /\ BookCost(month) \in Nat
  BY <1>2, BookSums
<1>4. BookDailyMax \in Nat /\ BookMonthlyMax \in Nat
  BY BookAssumption
<1>5. CASE BookPageDaily
  <2>1. /\ bookPage'.daily = BookCost(today)
        /\ bookPage'.blocked <=> BookCost(today) >= BookDailyMax \/ BookCost(month) >= BookMonthlyMax
        /\ UNCHANGED <<bookLogs, bookToday>>
    BY <1>2, <1>5 DEF BookPageDaily, BookNoPage
  <2>2. BookSpentToday("default")' = BookCost(today) /\ BookSpentMonth("default")' = BookCost(month)
    BY <1>2, <2>1 DEF BookSpentToday, BookSpentMonth, BookCost, BookOf, BookMonthOf
  <2> HIDE DEF today, month
  <2> QED
    BY <1>3, <1>4, <2>1, <2>2 DEF BookPageTrue
<1>6. ASSUME NEW fails \in BOOLEAN, BookPageMonthly(fails) PROVE BookPageTrue'
  <2>1. bookPage'.step = "shown"
    BY <1>6 DEF BookPageMonthly, BookTyped, BookPages
  <2> QED
    BY <2>1 DEF BookPageTrue
<1>7. CASE bookPage' = bookPage
  <2> SUFFICES ASSUME bookPage.step = "daily", bookPage.since = bookToday'
               PROVE  /\ bookPage.daily <= BookSpentToday("default")'
                      /\ bookPage.blocked => bookPage.daily >= BookDailyMax
                                             \/ BookSpentMonth("default")' >= BookMonthlyMax
    BY <1>7 DEF BookPageTrue
  <2>1. bookToday' = bookToday
    <3>1. bookToday' = bookToday \/ bookToday' = bookToday + 1
      BY DEF BookNext, bookVars, BookCreate, BookDelete, BookSpend, BookMidnight, BookRollup,
             BookRollupModels, BookRollupFails, BookBackfill, BookBackfillDay, BookPageDaily,
             BookPageMonthly
    <3>2. bookPage.since \in Nat /\ bookToday \in Nat /\ bookPage.since <= bookToday
      BY DEF BookTyped, BookPages
    <3> QED
      BY <3>1, <3>2
  <2>2. /\ bookPage.daily <= BookCost(today)
        /\ bookPage.blocked => bookPage.daily >= BookDailyMax \/ BookCost(month) >= BookMonthlyMax
        /\ bookPage.daily \in Nat
    BY <1>2, <2>1 DEF BookPageTrue, BookTyped, BookPages
  <2>3. today' \in SUBSET DOMAIN bookLogs' /\ month' \in SUBSET DOMAIN bookLogs'
        /\ today \subseteq today' /\ month \subseteq month'
    BY <1>1, <2>1 DEF BookOf, BookGrows, BookMonthOf
  <2>4. BookSpentToday("default")' = BookCost(today)' /\ BookSpentMonth("default")' = BookCost(month)'
    BY DEF BookSpentToday, BookSpentMonth, BookOf
  <2>5. BookCost(today) <= BookCost(today)' /\ BookCost(today)' \in Nat
    BY <1>1, <1>2, <2>3, BookSumsGrow DEF BookCost
  <2>6. BookCost(month) <= BookCost(month)' /\ BookCost(month)' \in Nat
    BY <1>1, <1>2, <2>3, BookSumsGrow DEF BookCost
  <2> HIDE DEF today, month
  <2> QED
    BY <1>3, <1>4, <2>2, <2>4, <2>5, <2>6
<1>8. bookPage' = bookPage \/ BookPageDaily \/ \E fails \in BOOLEAN : BookPageMonthly(fails)
  BY DEF BookNext, bookVars, BookCreate, BookDelete, BookSpend, BookMidnight, BookRollup,
         BookRollupModels, BookRollupFails, BookBackfill, BookBackfillDay
<1> QED
  BY <1>5, <1>6, <1>7, <1>8

LEMMA BookStep == BookInv /\ [BookNext]_bookVars => BookInv'
<1> SUFFICES ASSUME BookInv, [BookNext]_bookVars PROVE BookInv'
  OBVIOUS
<1>1. BookTyped'
  BY BookTypesStay DEF BookInv
<1>2. BookRowsTrue' /\ BookModelsTrue'
  BY BookRowsStayTrue DEF BookInv
<1>3. BookPageTrue'
  BY BookPageStays DEF BookInv
<1> QED
  BY <1>1, <1>2, <1>3 DEF BookInv

\* The models' rows of a day together are within what was spent on it.
LEMMA BookModelsWithin ==
  ASSUME BookInv, NEW p \in BookProjects, NEW d \in 1..BookDays
  PROVE  Total(DOMAIN BookModels, BookModelCosts(p, d)) <= BookCost(BookOf(p, d))
<1> DEFINE M == DOMAIN BookModels
           L == BookOf(p, d)
           part == [m \in M |-> BookModelOf(p, d, m)]
           f == [i \in DOMAIN bookLogs |-> bookLogs[i].cost]
           g == BookModelCosts(p, d)
<1>1. IsFiniteSet(M)
  BY BookAssumption
<1>2. IsFiniteSet(L) /\ L \in SUBSET DOMAIN bookLogs
  BY BookSums DEF BookOf, BookInv
<1>3. \A m \in M : part[m] \in SUBSET L
  BY DEF BookModelOf
<1>4. \A m, n \in M : m # n => part[m] \cap part[n] = {}
  BY DEF BookModelOf
<1>5. \A i \in L : f[i] \in Nat
  BY <1>2, BookSums DEF BookInv
<1>6. \A m \in M : g[m] \in Nat /\ g[m] <= Total(part[m], f)
  BY DEF BookInv, BookModelsTrue, BookModelTrue, BookModelCosts, BookCost
<1> HIDE DEF M, L, part, f, g
<1>7. Total(M, g) <= Total(L, f)
  BY <1>1, <1>2, <1>3, <1>4, <1>5, <1>6, TotalOfFamily
<1> QED
  BY <1>7 DEF M, L, f, g, BookCost

\* A rollup that succeeds leaves the day's totals in its row.
LEMMA BookRolledUp == BookInv /\ [BookNext]_bookVars => BookBroughtUp
<1> SUFFICES ASSUME BookInv, [BookNext]_bookVars, bookJob' # 0, bookJob = 0,
                    NEW p \in bookRows, BookOf(p, bookToday - 1) # {}
             PROVE  bookDaily'[<<p, bookToday - 1>>] = BookTotals(BookOf(p, bookToday - 1))
  BY DEF BookBroughtUp
<1>1. BookRollup
  BY DEF BookNext, bookVars, BookCreate, BookDelete, BookSpend, BookMidnight, BookRollupModels,
         BookRollupFails, BookBackfill, BookBackfillDay, BookPageDaily, BookPageMonthly
<1>2. bookToday - 1 \in 1..BookDays /\ p \in BookProjects
  BY <1>1, BookAssumption DEF BookRollup, BookInv, BookTyped
<1>3. <<p, bookToday - 1>> \in DOMAIN bookDaily
  BY <1>2 DEF BookInv, BookTyped
<1> QED
  BY <1>1, <1>3 DEF BookRollup, BookUpsertDaily

\* A page shows a block that is on, and one that was on when it began.
LEMMA BookShown == BookInv /\ [BookNext]_bookVars => BookShownHonestly
<1> DEFINE now == BookSpentToday("default")
           month == BookSpentMonth("default")
<1> SUFFICES ASSUME BookInv, [BookNext]_bookVars, bookPage.step = "daily",
                    bookPage'.step = "shown", bookPage.since = bookToday
             PROVE  /\ BookBlocks(bookPage'.daily, bookPage'.monthly) =>
                         now >= BookDailyMax \/ month >= BookMonthlyMax
                    /\ bookPage.blocked /\ ~bookPage'.failed =>
                         BookBlocks(bookPage'.daily, bookPage'.monthly)
  BY DEF BookShownHonestly
<1>1. bookPage' # bookPage
  OBVIOUS
<1>2. ~BookPageDaily
  BY DEF BookPageDaily
<1>3. PICK fails \in BOOLEAN : BookPageMonthly(fails)
  BY <1>1, <1>2 DEF BookNext, bookVars, BookCreate, BookDelete, BookSpend, BookMidnight, BookRollup,
         BookRollupModels, BookRollupFails, BookBackfill, BookBackfillDay
<1>4. /\ bookPage'.daily = bookPage.daily /\ bookPage'.failed = fails
      /\ bookPage'.monthly = IF fails THEN 0 ELSE month
  BY <1>3 DEF BookPageMonthly, BookInv, BookTyped, BookPages
<1>5. /\ bookPage.daily \in Nat /\ bookPage.daily <= now
      /\ bookPage.blocked => bookPage.daily >= BookDailyMax \/ month >= BookMonthlyMax
  BY DEF BookInv, BookTyped, BookPages, BookPageTrue
<1>6. now \in Nat /\ month \in Nat
  BY BookSums DEF BookSpentToday, BookSpentMonth, BookOf, BookInv
<1>7. BookDailyMax \in Nat /\ BookMonthlyMax \in Nat
  BY BookAssumption
<1> HIDE DEF now, month
<1> QED
  BY <1>4, <1>5, <1>6, <1>7 DEF BookBlocks

\* The books are never ahead of the calls, a rollup of a day that is over is final,
\* and the page shows the gate's blocks (db/repositories/budget_snapshots.py and
\* model_cost_snapshots.py, api/routes/budget.py), for any projects, models, costs
\* and caps, and any number of calls.
THEOREM BooksAreSound == BookSpec => BooksSound
<1>1. BookInv => BookNeverAhead
  BY BookModelsWithin DEF BookInv, BookRowsTrue, BookRowTrue, BookNeverAhead
<1>2. BookInv /\ [BookNext]_bookVars => [BookBroughtUp]_bookVars /\ [BookShownHonestly]_bookVars
  BY BookRolledUp, BookShown
<1>3. BookSpec => []BookInv
  BY BookStart, BookStep, PTL DEF BookSpec
<1> QED
  BY <1>1, <1>2, <1>3, PTL DEF BookSpec, BooksSound, BookRollupFinal, BookPageHonest

(***************************************************************************)
(* The decomposers: the parts of a text.                                   *)
(***************************************************************************)
\* The non-empty cells are numbered in their order: every place is in one part,
\* and a place of a later cell is in no earlier part.
LEMMA PartsKeepPlaces ==
  ASSUME NEW cell, IsFiniteSet(DOMAIN cell), \A i \in DOMAIN cell : cell[i] \in Nat,
         NEW parts, parts = DecParts(cell)
  PROVE  /\ \E k \in Nat : DOMAIN parts = 1..k /\ Len(parts) = k
         /\ \A i \in DOMAIN cell : \E r \in DOMAIN parts :
              /\ r \in Nat
              /\ {n \in DOMAIN parts : i \in parts[n]} = {r}
         /\ \A n \in DOMAIN parts : parts[n] \subseteq DOMAIN cell
         /\ \A i, j \in DOMAIN cell : cell[i] <= cell[j] =>
              \A m, n \in DOMAIN parts : i \in parts[m] /\ j \in parts[n] => m <= n
<1> DEFINE filled == {cell[i] : i \in DOMAIN cell}
           upto(i) == {c \in filled : c <= cell[i]}
           rank(i) == Cardinality(upto(i))
           k == Cardinality(filled)
<1>1. IsFiniteSet(filled)
  <2>1. [i \in DOMAIN cell |-> cell[i]] \in Surjection(DOMAIN cell, filled)
    BY DEF Surjection
  <2> QED
    BY <2>1, FS_Surjection
<1>2. \A i \in DOMAIN cell : IsFiniteSet(upto(i)) /\ upto(i) \subseteq filled
  BY <1>1, FS_Subset
<1>3. k \in Nat
  BY <1>1, FS_CardinalityType
<1>4. \A i \in DOMAIN cell : rank(i) \in 1..k
  <2>1. TAKE i \in DOMAIN cell
  <2>2. IsFiniteSet(upto(i)) /\ upto(i) \subseteq filled
    BY <1>2
  <2>3. cell[i] \in upto(i)
    OBVIOUS
  <2> HIDE DEF upto, filled
  <2>4. rank(i) \in Nat /\ rank(i) <= k
    BY <1>1, <2>2, FS_Subset, FS_CardinalityType
  <2>5. rank(i) # 0
    BY <2>2, <2>3, FS_EmptySet
  <2> QED
    BY <1>3, <2>4, <2>5
<1>5. parts = [n \in 1..k |-> {i \in DOMAIN cell : rank(i) = n}]
  BY DEF DecParts
<1>6. \A i, j \in DOMAIN cell : cell[i] <= cell[j] => rank(i) <= rank(j)
  <2>1. SUFFICES ASSUME NEW i \in DOMAIN cell, NEW j \in DOMAIN cell, cell[i] <= cell[j]
                 PROVE  rank(i) <= rank(j)
    OBVIOUS
  <2>2. \A c \in filled : c \in Nat
    OBVIOUS
  <2>3. upto(i) \subseteq upto(j)
    BY <2>1, <2>2
  <2>4. IsFiniteSet(upto(j))
    BY <1>2
  <2> HIDE DEF upto, filled
  <2> QED
    BY <2>3, <2>4, FS_Subset
<1> HIDE DEF rank, k
<1>7. DOMAIN parts = 1..k /\ Len(parts) = k
  BY <1>3, <1>5
<1>8. \A i \in DOMAIN cell : {n \in DOMAIN parts : i \in parts[n]} = {rank(i)}
  BY <1>4, <1>5, <1>7
<1>9. \A i \in DOMAIN cell : rank(i) \in Nat /\ rank(i) \in DOMAIN parts
  BY <1>3, <1>4, <1>7
<1>10. \A i, j \in DOMAIN cell, m, n \in DOMAIN parts :
         i \in parts[m] /\ j \in parts[n] => m = rank(i) /\ n = rank(j)
  BY <1>5, <1>7
<1>11. \A n \in DOMAIN parts : parts[n] \subseteq DOMAIN cell
  BY <1>5, <1>7
<1>12. \E n \in Nat : DOMAIN parts = 1..n /\ Len(parts) = n
  BY <1>3, <1>7
<1> QED
  BY <1>6, <1>8, <1>9, <1>10, <1>11, <1>12

\* A text, its places, and what lies before a place.
LEMMA TextShape ==
  ASSUME NEW text \in DecTexts
  PROVE  /\ \E n \in Nat : DOMAIN text = 1..n /\ n > 0
         /\ IsFiniteSet(DOMAIN text)
         /\ DOMAIN text \subseteq Nat
         /\ \A S \in SUBSET DOMAIN text : \A i \in DOMAIN text :
              Cardinality({c \in S : c < i}) \in Nat
         /\ \A S \in SUBSET DOMAIN text : \A i, j \in DOMAIN text :
              i <= j => Cardinality({c \in S : c < i}) <= Cardinality({c \in S : c < j})
<1>1. PICK n \in 1..DecLength : text \in [1..n -> DecTokens]
  BY DEF DecTexts
<1>2. n \in Nat /\ n > 0 /\ DOMAIN text = 1..n
  BY <1>1, DecAssumption
<1>3. IsFiniteSet(DOMAIN text)
  <2>1. n \in Int /\ 1 \in Int
    BY <1>2
  <2> QED
    BY <1>2, <2>1, FS_Interval
<1>4. \A S \in SUBSET DOMAIN text : \A i \in DOMAIN text :
        IsFiniteSet({c \in S : c < i}) /\ Cardinality({c \in S : c < i}) \in Nat
  <2>1. SUFFICES ASSUME NEW S \in SUBSET DOMAIN text, NEW i \in DOMAIN text
                 PROVE  IsFiniteSet({c \in S : c < i})
    BY FS_CardinalityType
  <2>2. {c \in S : c < i} \subseteq DOMAIN text
    OBVIOUS
  <2> QED
    BY <1>3, <2>2, FS_Subset
<1>5. \A S \in SUBSET DOMAIN text : \A i, j \in DOMAIN text :
        i <= j => Cardinality({c \in S : c < i}) <= Cardinality({c \in S : c < j})
  <2>1. SUFFICES ASSUME NEW S \in SUBSET DOMAIN text, NEW i \in DOMAIN text,
                        NEW j \in DOMAIN text, i <= j
                 PROVE  Cardinality({c \in S : c < i}) <= Cardinality({c \in S : c < j})
    OBVIOUS
  <2>2. \A c \in S : c < i => c < j
    BY <1>2, <2>1
  <2>3. {c \in S : c < i} \subseteq {c \in S : c < j}
    BY <2>2
  <2> QED
    BY <1>4, <2>3, FS_Subset
<1>6. DOMAIN text \subseteq Nat
  BY <1>2
<1>7. \E k \in Nat : DOMAIN text = 1..k /\ k > 0
  BY <1>2
<1> QED
  BY <1>3, <1>4, <1>5, <1>6, <1>7

\* A word is not cut away at any marker.
LEMMA MarkersAreNoWords == \A m \in 1..5 : DecWord \notin DecMarkers[m]
<1>1. /\ DecMarkers[1] = {"and then"} /\ DecMarkers[2] = DecThen
      /\ DecMarkers[3] = {"; then"} /\ DecMarkers[4] = {";", "; then"}
      /\ DecMarkers[5] = {"and then", "and"}
  BY DEF DecMarkers
<1>2. \A m \in 1..5 : m = 1 \/ m = 2 \/ m = 3 \/ m = 4 \/ m = 5
  OBVIOUS
<1>3. /\ "word" \notin DecMarkers[1] /\ "word" \notin DecMarkers[2]
      /\ "word" \notin DecMarkers[3] /\ "word" \notin DecMarkers[4]
      /\ "word" \notin DecMarkers[5]
  BY <1>1 DEF DecThen
<1> QED
  BY <1>2, <1>3 DEF DecWord

\* A cut keeps every word, in a cell no later than the next's.
LEMMA CutKeepsWords ==
  ASSUME NEW text \in DecTexts, NEW marker \in 1..5, NEW cell, cell = DecCells(text, marker)
  PROVE  /\ IsFiniteSet(DOMAIN cell) /\ \A i \in DOMAIN cell : cell[i] \in Nat
         /\ \A i \in DOMAIN text : text[i] = DecWord => i \in DOMAIN cell
         /\ \A i, j \in DOMAIN text :
              text[i] = DecWord /\ text[j] = DecWord /\ i < j => cell[i] <= cell[j]
<1> DEFINE cuts == {i \in DOMAIN text : text[i] \in DecMarkers[marker]}
           before(i) == Cardinality({c \in cuts : c < i})
           left == {i \in DOMAIN text : i \in cuts => DecLeftover(text[i], marker) # "none"}
<1>1. cell = [i \in left |-> IF i \in cuts /\ DecLeftover(text[i], marker) = "after"
                            THEN before(i) + 1 ELSE before(i)]
  BY DEF DecCells
<1>2. cuts \in SUBSET DOMAIN text /\ DOMAIN text \subseteq Nat
  BY TextShape
<1>3. \A i \in DOMAIN text : before(i) \in Nat
  BY <1>2, TextShape
<1>4. \A i, j \in DOMAIN text : i <= j => before(i) <= before(j)
  BY <1>2, TextShape
<1>5. IsFiniteSet(left)
  BY TextShape, FS_Subset
<1>6. DecWord \notin DecMarkers[marker]
  BY MarkersAreNoWords
<1>7. \A i \in DOMAIN text : text[i] = DecWord => i \in left /\ i \notin cuts
  BY <1>6
<1> HIDE DEF before, cuts
<1>8. \A i \in left : cell[i] \in Nat
  BY <1>1, <1>3
<1>9. \A i \in DOMAIN text : text[i] = DecWord => cell[i] = before(i)
  BY <1>1, <1>7
<1> QED
  BY <1>1, <1>2, <1>4, <1>5, <1>7, <1>8, <1>9

\* A numbered list keeps every word from its first number on.
LEMMA ItemsKeepWords ==
  ASSUME NEW text \in DecTexts, NEW cell, cell = DecItemCells(text)
  PROVE  /\ IsFiniteSet(DOMAIN cell) /\ \A i \in DOMAIN cell : cell[i] \in Nat
         /\ \A i \in DOMAIN text :
              /\ text[i] = DecWord
              /\ \E n \in DOMAIN text : text[n] = DecNumber /\ ~(i < n)
              => i \in DOMAIN cell
         /\ \A i, j \in DOMAIN cell : i < j => cell[i] <= cell[j]
<1> DEFINE numbers == {i \in DOMAIN text : text[i] = DecNumber}
           before(i) == Cardinality({c \in numbers : c < i})
           items == {j \in DOMAIN text \ numbers : before(j) > 0}
<1>1. cell = [i \in items |-> before(i)]
  BY DEF DecItemCells
<1>2. numbers \in SUBSET DOMAIN text /\ DOMAIN text \subseteq Nat
  BY TextShape
<1>3. \A i \in DOMAIN text : before(i) \in Nat
  BY <1>2, TextShape
<1>4. \A i, j \in DOMAIN text : i <= j => before(i) <= before(j)
  BY <1>2, TextShape
<1>5. IsFiniteSet(items)
  BY TextShape, FS_Subset
<1>6. ASSUME NEW i \in DOMAIN text, text[i] = DecWord,
             NEW n \in DOMAIN text, text[n] = DecNumber, ~(i < n)
      PROVE  i \in items
  <2>1. DecWord # DecNumber
    BY DEF DecWord, DecNumber
  <2>2. n \in {c \in numbers : c < i} /\ i \notin numbers
    BY <1>2, <1>6, <2>1
  <2>3. IsFiniteSet({c \in numbers : c < i})
    BY TextShape, FS_Subset
  <2> HIDE DEF numbers
  <2>4. before(i) # 0
    BY <2>2, <2>3, FS_EmptySet
  <2> QED
    BY <1>3, <2>2, <2>4
<1> HIDE DEF before
<1>7. \A i \in DOMAIN cell : cell[i] \in Nat
  BY <1>1, <1>3
<1>8. \A i, j \in DOMAIN cell : i < j => cell[i] <= cell[j]
  BY <1>1, <1>2, <1>4
<1> QED
  BY <1>1, <1>5, <1>6, <1>7, <1>8

\* Some marker is the first that fits, if one does.
LEMMA FirstFit ==
  ASSUME NEW text, DecFits(text) # {}
  PROVE  DecFirstFit(text) \in 1..5
<1>1. DecFits(text) \subseteq 1..5
  BY DEF DecFits, DecMarkers
<1>2. \E m \in DecFits(text) : \A k \in DecFits(text) : m <= k
  <2>1. CASE 1 \in DecFits(text)
    BY <1>1, <2>1
  <2>2. CASE 1 \notin DecFits(text) /\ 2 \in DecFits(text)
    BY <1>1, <2>2
  <2>3. CASE 1 \notin DecFits(text) /\ 2 \notin DecFits(text) /\ 3 \in DecFits(text)
    BY <1>1, <2>3
  <2>4. CASE /\ 1 \notin DecFits(text) /\ 2 \notin DecFits(text)
             /\ 3 \notin DecFits(text) /\ 4 \in DecFits(text)
    BY <1>1, <2>4
  <2>5. CASE /\ 1 \notin DecFits(text) /\ 2 \notin DecFits(text)
             /\ 3 \notin DecFits(text) /\ 4 \notin DecFits(text)
    BY <1>1, <2>5
  <2> QED
    BY <2>1, <2>2, <2>3, <2>4, <2>5
<1> QED
  BY <1>1, <1>2 DEF DecFirstFit

\* What a split of a text may leave out: what is written before a list.
DecBeforeList(text) ==
  IF Len(DecItems(text)) < 2 THEN {}
  ELSE {i \in DOMAIN text : \A n \in DOMAIN text : text[n] = DecNumber => i < n}

\* parts hold every word of text but those of a preamble, once and in order.
DecHolds(parts, text, preamble) ==
  /\ \E k \in Nat : DOMAIN parts = 1..k
  /\ \A i \in DOMAIN text : text[i] = DecWord /\ i \notin preamble =>
       \E r \in DOMAIN parts : r \in Nat /\ {n \in DOMAIN parts : i \in parts[n]} = {r}
  /\ \A i, j \in DOMAIN text : text[i] = DecWord /\ text[j] = DecWord /\ i < j =>
       \A m, n \in DOMAIN parts : i \in parts[m] /\ j \in parts[n] => m <= n

\* A text that is not split is in its one part.
LEMMA OnePartHolds ==
  ASSUME NEW text
  PROVE  DecHolds(<<DOMAIN text>>, text, {})
<1> DEFINE parts == <<DOMAIN text>>
<1>1. DOMAIN parts = 1..1 /\ parts[1] = DOMAIN text
  OBVIOUS
<1>2. \A n \in DOMAIN parts : n = 1
  BY <1>1
<1>3. 1 \in DOMAIN parts /\ 1 \in Nat /\ 1 <= 1
  BY <1>1
<1>4. \A i \in DOMAIN text : {n \in DOMAIN parts : i \in parts[n]} = {1}
  BY <1>1, <1>2, <1>3
<1> HIDE DEF parts
<1>5. \E k \in Nat : DOMAIN parts = 1..k
  BY <1>1
<1>6. DecHolds(parts, text, {})
  BY <1>2, <1>3, <1>4, <1>5 DEF DecHolds
<1> QED
  BY <1>6 DEF parts

\* However it is split, a text is held by its parts.
LEMMA SplitHolds ==
  ASSUME NEW text \in DecTexts
  PROVE  DecHolds(DecSplit(text), text, DecBeforeList(text))
<1> DEFINE items == DecItems(text)
           listed == DecItemCells(text)
<1>1. \E k \in Nat : DOMAIN items = 1..k /\ Len(items) = k
  <2>1. IsFiniteSet(DOMAIN listed) /\ \A i \in DOMAIN listed : listed[i] \in Nat
    BY ItemsKeepWords
  <2>2. items = DecParts(listed)
    BY DEF DecItems
  <2> HIDE DEF items, listed
  <2> QED
    BY <2>1, <2>2, PartsKeepPlaces
<1>2. CASE Len(items) >= 2
  <2>1. DecSplit(text) = items
    BY <1>2 DEF DecSplit
  <2>2. DecBeforeList(text) =
          {i \in DOMAIN text : \A n \in DOMAIN text : text[n] = DecNumber => i < n}
    BY <1>1, <1>2 DEF DecBeforeList
  <2>3. /\ IsFiniteSet(DOMAIN listed) /\ \A i \in DOMAIN listed : listed[i] \in Nat
        /\ \A i \in DOMAIN text :
              /\ text[i] = DecWord
              /\ \E n \in DOMAIN text : text[n] = DecNumber /\ ~(i < n)
              => i \in DOMAIN listed
        /\ \A i, j \in DOMAIN listed : i < j => listed[i] <= listed[j]
    BY ItemsKeepWords
  <2>4. items = DecParts(listed)
    BY DEF DecItems
  <2> HIDE DEF items, listed
  <2>5. /\ \A i \in DOMAIN listed : \E r \in DOMAIN items :
              r \in Nat /\ {n \in DOMAIN items : i \in items[n]} = {r}
        /\ \A n \in DOMAIN items : items[n] \subseteq DOMAIN listed
        /\ \A i, j \in DOMAIN listed : listed[i] <= listed[j] =>
             \A m, n \in DOMAIN items : i \in items[m] /\ j \in items[n] => m <= n
    BY <2>3, <2>4, PartsKeepPlaces
  <2>6. \A i, j \in DOMAIN text : i < j =>
          \A m, n \in DOMAIN items : i \in items[m] /\ j \in items[n] => m <= n
    BY <2>3, <2>5
  <2>7. \A i \in DOMAIN text : text[i] = DecWord /\ i \notin DecBeforeList(text) =>
          i \in DOMAIN listed
    BY <2>2, <2>3
  <2>8. DecHolds(items, text, DecBeforeList(text))
    BY <1>1, <2>5, <2>6, <2>7 DEF DecHolds
  <2> QED
    BY <2>1, <2>8
<1>3. CASE ~(Len(items) >= 2) /\ DecFits(text) # {}
  <2> DEFINE marker == DecFirstFit(text)
             cell == DecCells(text, marker)
             parts == DecCut(text, marker)
  <2>1. DecSplit(text) = parts /\ parts = DecParts(cell)
    BY <1>3 DEF DecSplit, DecCut
  <2>2. DecBeforeList(text) = {}
    BY <1>1, <1>3 DEF DecBeforeList
  <2>3. marker \in 1..5
    BY <1>3, FirstFit
  <2> HIDE DEF marker, parts
  <2>4. /\ IsFiniteSet(DOMAIN cell) /\ \A i \in DOMAIN cell : cell[i] \in Nat
        /\ \A i \in DOMAIN text : text[i] = DecWord => i \in DOMAIN cell
        /\ \A i, j \in DOMAIN text :
              text[i] = DecWord /\ text[j] = DecWord /\ i < j => cell[i] <= cell[j]
    BY <2>3, CutKeepsWords
  <2> HIDE DEF cell
  <2>5. /\ \E k \in Nat : DOMAIN parts = 1..k
        /\ \A i \in DOMAIN cell : \E r \in DOMAIN parts :
              r \in Nat /\ {n \in DOMAIN parts : i \in parts[n]} = {r}
        /\ \A i, j \in DOMAIN cell : cell[i] <= cell[j] =>
             \A m, n \in DOMAIN parts : i \in parts[m] /\ j \in parts[n] => m <= n
    BY <2>1, <2>4, PartsKeepPlaces
  <2>6. DecHolds(parts, text, {})
    BY <2>4, <2>5 DEF DecHolds
  <2> QED
    BY <2>1, <2>2, <2>6
<1>4. CASE ~(Len(items) >= 2) /\ DecFits(text) = {}
  <2>1. DecSplit(text) = <<DOMAIN text>>
    BY <1>4 DEF DecSplit
  <2>2. DecBeforeList(text) = {}
    BY <1>1, <1>4 DEF DecBeforeList
  <2> QED
    BY <2>1, <2>2, OnePartHolds
<1> QED
  BY <1>2, <1>3, <1>4

\* What a keyword or a single plan keeps of its text.
LEMMA PlanIsSound ==
  ASSUME decText \in DecTexts,
         decPlan \in {DecNoPlan, DecKeyword(decText),
                      [parts |-> <<DOMAIN decText>>, deps |-> <<{}>>]}
  PROVE  DecKeepsWords /\ DecThenOrders
<1> DEFINE parts == decPlan.parts
<1>1. CASE decPlan = DecNoPlan
  <2>1. DOMAIN parts = {}
    BY <1>1 DEF DecNoPlan
  <2> QED
    BY <1>1, <2>1 DEF DecKeepsWords, DecThenOrders, DecPartOf
<1>2. ASSUME NEW preamble, DecHolds(parts, decText, preamble), preamble \subseteq DecPreamble
      PROVE  DecKeepsWords
  <2>1. \A i \in DecPlaces({DecWord}) : i \in DOMAIN decText /\ decText[i] = DecWord
    BY DEF DecPlaces
  <2>2. \A i \in DecPlaces({DecWord}) \ DecPreamble : Cardinality(DecPartOf(i)) = 1
    <3>1. TAKE i \in DecPlaces({DecWord}) \ DecPreamble
    <3>2. PICK r \in DOMAIN parts : {n \in DOMAIN parts : i \in parts[n]} = {r}
      BY <1>2, <2>1 DEF DecHolds
    <3>3. DecPartOf(i) = {r}
      BY <3>2 DEF DecPartOf
    <3> QED
      BY <3>3, FS_Singleton
  <2>3. \A i, j \in DecPlaces({DecWord}) :
          i < j => \A m \in DecPartOf(i), n \in DecPartOf(j) : m <= n
    BY <1>2, <2>1 DEF DecHolds, DecPartOf
  <2> QED
    BY <2>2, <2>3 DEF DecKeepsWords
<1>3. CASE decPlan = DecKeyword(decText)
  <2>1. parts = DecSplit(decText)
    BY <1>3 DEF DecKeyword
  <2>2. DecBeforeList(decText) \subseteq DecPreamble
    BY DEF DecBeforeList, DecPreamble, DecPlaces
  <2>3. DecHolds(parts, decText, DecBeforeList(decText))
    BY <2>1, SplitHolds
  <2>4. DecKeepsWords
    BY <1>2, <2>2, <2>3
  <2>5. ASSUME NEW t \in DecPlaces(DecThen),
               NEW m \in DOMAIN parts, NEW n \in DOMAIN parts, m < n, NEW k \in m..(n - 1)
        PROVE  k \in decPlan.deps[k + 1]
    <3>1. PICK size \in Nat : DOMAIN parts = 1..size
      BY <2>3 DEF DecHolds
    <3>2. k + 1 \in DOMAIN parts /\ k + 1 > 1 /\ (k + 1) - 1 = k
      BY <2>5, <3>1
    <3>3. \E i \in DOMAIN decText : decText[i] \in DecThen
      BY <2>5 DEF DecPlaces
    <3>4. decPlan.deps =
            [l \in DOMAIN parts |-> IF l > 1 THEN {l - 1} ELSE {}]
      BY <1>3, <2>1, <3>3 DEF DecKeyword
    <3>5. decPlan.deps[k + 1] = {(k + 1) - 1}
      BY <3>2, <3>4
    <3> QED
      BY <3>2, <3>5
  <2>6. DecThenOrders
    BY <2>5 DEF DecThenOrders, DecPartOf
  <2> QED
    BY <2>4, <2>6
<1>4. CASE decPlan = [parts |-> <<DOMAIN decText>>, deps |-> <<{}>>]
  <2>1. parts = <<DOMAIN decText>>
    BY <1>4
  <2>2. DecHolds(parts, decText, {})
    BY <2>1, OnePartHolds
  <2>3. DecKeepsWords
    BY <1>2, <2>2
  <2>4. \A m, n \in DOMAIN parts : ~(m < n)
    BY <2>1
  <2> QED
    BY <2>3, <2>4 DEF DecThenOrders, DecPartOf
<1> QED
  BY <1>1, <1>3, <1>4

(***************************************************************************)
(* The decomposers: the cache of the model's plans.                        *)
(***************************************************************************)
\* order puts the tasks of a set in a line.
DecInLine(order, tasks) ==
  /\ order \subseteq tasks \X tasks
  /\ \A s \in tasks : <<s, s>> \notin order
  /\ \A s, t, u \in tasks : <<s, t>> \in order /\ <<t, u>> \in order => <<s, u>> \in order
  /\ \A s, t \in tasks : s = t \/ <<s, t>> \in order \/ <<t, s>> \in order

\* Who goes to the end is last, and the others stay as they were.
LEMMA ToEndPairs ==
  ASSUME NEW order, NEW tasks, NEW task, order \subseteq tasks \X tasks
  PROVE  \A s, t : <<s, t>> \in DecToEnd(order, tasks, task) <=>
           \/ s # task /\ t # task /\ <<s, t>> \in order
           \/ s # task /\ t = task /\ s \in tasks
BY DEF DecToEnd

\* The line stays a line.
LEMMA ToEndInLine ==
  ASSUME NEW order, NEW tasks, NEW task, DecInLine(order, tasks)
  PROVE  DecInLine(DecToEnd(order, tasks, task), tasks \cup {task})
<1> DEFINE after == DecToEnd(order, tasks, task)
           all == tasks \cup {task}
<1>1. order \subseteq tasks \X tasks
  BY DEF DecInLine
<1>2. \A s, t : <<s, t>> \in after <=>
           \/ s # task /\ t # task /\ <<s, t>> \in order
           \/ s # task /\ t = task /\ s \in tasks
  BY <1>1, ToEndPairs
<1>3. after \subseteq all \X all
  BY <1>1 DEF DecToEnd
<1> HIDE DEF after
<1>4. \A s \in all : <<s, s>> \notin after
  BY <1>2 DEF DecInLine
<1>5. \A s, t, u \in all : <<s, t>> \in after /\ <<t, u>> \in after => <<s, u>> \in after
  BY <1>1, <1>2 DEF DecInLine
<1>6. \A s, t \in all : s = t \/ <<s, t>> \in after \/ <<t, s>> \in after
  BY <1>2 DEF DecInLine
<1> QED
  BY <1>3, <1>4, <1>5, <1>6 DEF DecInLine, after

\* The cache's inductive invariant: uses are in a line, and the cache has its end.
DecCacheInv ==
  /\ IsFiniteSet(decUsed)
  /\ DecInLine(decLast, decUsed)
  /\ DecRecent
  /\ DecBackward

\* A hit: the plan stays, as the last one used.
LEMMA ServeKept ==
  ASSUME DecCacheInv, NEW task \in DOMAIN decCache, DecServe(task)
  PROVE  DecCacheInv'
<1> DEFINE held == DOMAIN decCache
<1>1. /\ decUsed' = decUsed \cup {task}
      /\ decLast' = DecToEnd(decLast, decUsed, task)
      /\ decOrder' = DecToEnd(decOrder, held, task)
      /\ decCache' = decCache
  BY DEF DecServe, DecTouch
<1>2. /\ held \subseteq decUsed
      /\ Cardinality(held) = IF Cardinality(decUsed) < DecCacheSize
                             THEN Cardinality(decUsed) ELSE DecCacheSize
      /\ \A s \in decUsed \ held, t \in held : <<s, t>> \in decLast
      /\ decOrder = decLast \cap (held \X held)
  BY DEF DecCacheInv, DecRecent
<1>3. decUsed' = decUsed
  BY <1>1, <1>2
<1>4. DecInLine(decLast', decUsed')
  BY <1>1, ToEndInLine DEF DecCacheInv
<1>5. decLast \subseteq decUsed \X decUsed
  BY DEF DecCacheInv, DecInLine
<1>6. \A s, t : <<s, t>> \in decLast' <=>
           \/ s # task /\ t # task /\ <<s, t>> \in decLast
           \/ s # task /\ t = task /\ s \in decUsed
  BY <1>1, <1>5, ToEndPairs
<1>7. \A s \in decUsed \ held, t \in held : <<s, t>> \in decLast'
  BY <1>2, <1>6
<1>8. decOrder' = decLast' \cap (held \X held)
  BY <1>1, <1>2 DEF DecToEnd
<1>9. DecRecent'
  BY <1>1, <1>2, <1>3, <1>7, <1>8 DEF DecRecent
<1> QED
  BY <1>1, <1>3, <1>4, <1>9 DEF DecCacheInv, DecBackward

\* A new plan: it is the last one used, and if there is no room for it the one
\* used longest ago goes.
LEMMA PutKept ==
  ASSUME DecCacheInv, NEW task, task \notin DOMAIN decCache, NEW reply,
         DecPut(task, DecParse(reply))
  PROVE  DecCacheInv'
<1> DEFINE held == DOMAIN decCache
           put == held \cup {task}
           order == DecToEnd(decOrder, held, task)
           oldest == {s \in put : \A t \in put \ {s} : <<s, t>> \in order}
           kept == IF Cardinality(put) > DecCacheSize THEN put \ oldest ELSE put
           used == Cardinality(decUsed)
<1>1. /\ decUsed' = decUsed \cup {task}
      /\ decLast' = DecToEnd(decLast, decUsed, task)
      /\ decOrder' = order \cap (kept \X kept)
      /\ decCache' = [t \in kept |-> IF t = task THEN DecParse(reply) ELSE decCache[t]]
  BY DEF DecPut, DecTouch
<1>2. /\ held \subseteq decUsed
      /\ Cardinality(held) = IF used < DecCacheSize THEN used ELSE DecCacheSize
      /\ \A s \in decUsed \ held, t \in held : <<s, t>> \in decLast
      /\ decOrder = decLast \cap (held \X held)
      /\ IsFiniteSet(decUsed) /\ DecInLine(decLast, decUsed)
  BY DEF DecCacheInv, DecRecent
<1>3. DecInLine(decLast', decUsed') /\ IsFiniteSet(decUsed')
  <2>1. IsFiniteSet(decUsed')
    BY <1>1, <1>2, FS_AddElement
  <2> QED
    BY <1>1, <1>2, <2>1, ToEndInLine
<1>4. order = decLast' \cap (put \X put)
  BY <1>1, <1>2 DEF DecToEnd
<1>5. put \subseteq decUsed' /\ IsFiniteSet(put)
  BY <1>1, <1>2, <1>3, FS_Subset
<1>6. /\ Cardinality(held) \in Nat /\ used \in Nat /\ DecCacheSize \in Nat
      /\ Cardinality(put) = Cardinality(held) + 1
  <2>1. IsFiniteSet(held)
    BY <1>2, FS_Subset
  <2> QED
    BY <1>2, <2>1, DecAssumption, FS_AddElement, FS_CardinalityType
<1>7. decUsed' \ put = (decUsed \ held) \ {task}
  BY <1>1
<1>8. \A s \in decUsed' \ put, t \in put : <<s, t>> \in decLast'
  <2>1. decLast \subseteq decUsed \X decUsed
    BY <1>2 DEF DecInLine
  <2>2. \A s, t : <<s, t>> \in decLast' <=>
           \/ s # task /\ t # task /\ <<s, t>> \in decLast
           \/ s # task /\ t = task /\ s \in decUsed
    BY <1>1, <2>1, ToEndPairs
  <2> QED
    BY <1>2, <1>7, <2>2
<1>9. used < DecCacheSize => held = decUsed
  <2>1. SUFFICES ASSUME used < DecCacheSize PROVE held = decUsed
    OBVIOUS
  <2>2. Cardinality(held) = used
    BY <1>2, <2>1
  <2> HIDE DEF held, used
  <2> QED
    BY <1>2, <2>2, FS_Subset DEF used
<1>10. Cardinality(decUsed') = IF task \in decUsed THEN used ELSE used + 1
  BY <1>1, <1>2, FS_AddElement
<1>11. /\ kept \subseteq put
       /\ Cardinality(kept) = IF Cardinality(decUsed') < DecCacheSize
                              THEN Cardinality(decUsed') ELSE DecCacheSize
       /\ \A s \in put \ kept, t \in kept : <<s, t>> \in decLast'
  <2>1. CASE ~(Cardinality(put) > DecCacheSize)
    <3>1. kept = put
      BY <2>1
    <3>2. used < DecCacheSize
      BY <1>2, <1>6, <2>1
    <3>3. task \notin decUsed /\ Cardinality(held) = used
      BY <1>2, <1>9, <3>2
    <3> HIDE DEF put, held, used, kept
    <3>4. Cardinality(kept) = Cardinality(decUsed') /\ Cardinality(decUsed') <= DecCacheSize
      BY <1>6, <1>10, <2>1, <3>1, <3>3
    <3>5. Cardinality(decUsed') \in Nat
      BY <1>6, <1>10, <3>3
    <3>6. Cardinality(kept) = IF Cardinality(decUsed') < DecCacheSize
                              THEN Cardinality(decUsed') ELSE DecCacheSize
      BY <1>6, <3>4, <3>5
    <3> QED
      BY <3>1, <3>6
  <2>2. CASE Cardinality(put) > DecCacheSize
    <3>1. kept = put \ oldest
      BY <2>2
    <3>2. Cardinality(held) = DecCacheSize /\ used >= DecCacheSize
      BY <1>2, <1>6, <2>2
    <3>3. /\ \A s \in put : <<s, s>> \notin decLast'
          /\ \A s, t \in put : s = t \/ <<s, t>> \in decLast' \/ <<t, s>> \in decLast'
      BY <1>3, <1>5 DEF DecInLine
    <3>4. \A s, t, u \in put : <<s, t>> \in decLast' /\ <<t, u>> \in decLast' => <<s, u>> \in decLast'
      BY <1>3, <1>5 DEF DecInLine
    <3>5. PICK first \in put : \A t \in put \ {first} : <<first, t>> \in decLast'
      <4>1. put # {}
        OBVIOUS
      <4> HIDE DEF put
      <4> QED
        BY <1>5, <3>3, <3>4, <4>1, OneIsFirst
    <3> HIDE DEF order
    <3>6. oldest = {first}
      <4>1. first \in oldest
        BY <1>4, <3>5
      <4>2. ASSUME NEW s \in oldest, s # first PROVE FALSE
        <5>1. <<s, first>> \in decLast' /\ <<first, s>> \in decLast'
          BY <1>4, <3>5, <4>2
        <5> QED
          BY <3>3, <3>4, <3>5, <4>2, <5>1
      <4> QED
        BY <4>1, <4>2
    <3> HIDE DEF put, held, used, kept, oldest
    <3>7. kept = put \ {first}
      BY <3>1, <3>6
    <3>8. Cardinality(kept) = DecCacheSize
      <4>1. Cardinality(put \ {first}) = Cardinality(put) - 1
        BY <1>5, <3>5, FS_RemoveElement
      <4> QED
        BY <1>6, <3>2, <3>7, <4>1
    <3>9. Cardinality(decUsed') >= DecCacheSize /\ Cardinality(decUsed') \in Nat
      BY <1>6, <1>10, <3>2
    <3>10. Cardinality(kept) = IF Cardinality(decUsed') < DecCacheSize
                              THEN Cardinality(decUsed') ELSE DecCacheSize
      BY <1>6, <3>8, <3>9
    <3>11. \A s \in put \ kept, t \in kept : <<s, t>> \in decLast'
      BY <3>5, <3>7
    <3> QED
      BY <3>7, <3>10, <3>11
  <2> QED
    BY <2>1, <2>2
<1>12. DOMAIN decCache' = kept
  BY <1>1
<1> HIDE DEF kept, put, order, oldest
<1>13. \A s \in decUsed' \ kept, t \in kept : <<s, t>> \in decLast'
  BY <1>8, <1>11
<1>14. decOrder' = decLast' \cap (kept \X kept)
  BY <1>1, <1>4, <1>11
<1>15. kept \subseteq decUsed'
  BY <1>5, <1>11
<1>16. DecRecent'
  BY <1>11, <1>12, <1>13, <1>14, <1>15 DEF DecRecent
<1>17. DecBackward'
  <2>1. \A n \in DOMAIN DecParse(reply) : DecParse(reply)[n] \subseteq 1..n
    BY DEF DecParse
  <2>2. \A t \in kept : t = task \/ t \in held
    BY <1>11 DEF put
  <2>3. \A t \in held : \A n \in DOMAIN decCache[t] : decCache[t][n] \subseteq 1..n
    BY DEF DecCacheInv, DecBackward
  <2>4. ASSUME NEW t \in kept, NEW n \in DOMAIN decCache'[t]
        PROVE  decCache'[t][n] \subseteq 1..n
    <3>1. CASE t = task
      <4>1. decCache'[t] = DecParse(reply)
        BY <1>1, <3>1
      <4> QED
        BY <2>1, <2>4, <4>1
    <3>2. CASE t # task
      <4>1. decCache'[t] = decCache[t] /\ t \in held
        BY <1>1, <2>2, <3>2
      <4> QED
        BY <2>3, <2>4, <4>1
    <3> QED
      BY <3>1, <3>2
  <2> QED
    BY <1>12, <2>4 DEF DecBackward
<1> QED
  BY <1>3, <1>16, <1>17 DEF DecCacheInv

\* The decomposers' promise (decomposer.py, llm_decomposer.py), for texts of any
\* length, any tasks and answers of the model and any size of the cache: no word
\* is lost, doubled or moved by a split, "then" orders what it stands between, a
\* cached plan depends backward only, and the cache drops the least recently
\* used.
THEOREM DecomposersAreSound == DecSpec => []DecSound
<1> DEFINE PlanInv == /\ decText \in DecTexts
                      /\ decPlan \in {DecNoPlan, DecKeyword(decText),
                                      [parts |-> <<DOMAIN decText>>, deps |-> <<{}>>]}
           Inv == PlanInv /\ DecCacheInv
<1>1. DecInit => Inv
  <2> SUFFICES ASSUME DecInit PROVE Inv
    OBVIOUS
  <2>1. decText \in DecTexts /\ decPlan = DecNoPlan
        /\ decCache = <<>> /\ decOrder = {} /\ decUsed = {} /\ decLast = {}
    BY DEF DecInit
  <2>2. DOMAIN decCache = {}
    BY <2>1
  <2>3. IsFiniteSet(decUsed) /\ Cardinality(decUsed) = 0
    BY <2>1, FS_EmptySet
  <2>4. Cardinality(DOMAIN decCache) = 0
    BY <2>2, FS_EmptySet
  <2>5. DecInLine(decLast, decUsed)
    BY <2>1 DEF DecInLine
  <2>6. DecRecent
    BY <2>1, <2>2, <2>3, <2>4, DecAssumption DEF DecRecent
  <2>7. DecBackward
    BY <2>2 DEF DecBackward
  <2> QED
    BY <2>1, <2>3, <2>5, <2>6, <2>7 DEF DecCacheInv
<1>2. Inv /\ [DecNext]_decVars => Inv'
  <2> SUFFICES ASSUME Inv, [DecNext]_decVars PROVE Inv'
    OBVIOUS
  <2>1. ASSUME UNCHANGED decCached PROVE DecCacheInv'
    BY <2>1 DEF DecCacheInv, DecRecent, DecBackward, DecInLine, decCached
  <2>2. ASSUME UNCHANGED <<decText, decPlan>> PROVE PlanInv'
    BY <2>2
  <2>3. CASE DecKeywordPlan
    <3>1. PlanInv'
      BY <2>3 DEF DecKeywordPlan
    <3> QED
      BY <2>1, <2>3, <3>1 DEF DecKeywordPlan
  <2>4. CASE DecSinglePlan
    <3>1. PlanInv'
      BY <2>4 DEF DecSinglePlan
    <3> QED
      BY <2>1, <2>4, <3>1 DEF DecSinglePlan
  <2>5. ASSUME NEW task \in DecTasks, NEW inLoop \in BOOLEAN, NEW reply \in DecReplies,
               DecAsk(task, inLoop, reply)
        PROVE  Inv'
    <3>1. PlanInv'
      BY <2>2, <2>5 DEF DecAsk
    <3>2. DecCacheInv'
      BY <2>1, <2>5, ServeKept, PutKept DEF DecAsk
    <3> QED
      BY <3>1, <3>2
  <2>6. CASE UNCHANGED decVars
    BY <2>1, <2>2, <2>6 DEF decVars, decCached
  <2> QED
    BY <2>3, <2>4, <2>5, <2>6 DEF DecNext
<1>3. Inv => DecSound
  BY PlanIsSound DEF DecCacheInv, DecSound
<1> HIDE DEF Inv
<1> QED
  BY <1>1, <1>2, <1>3, PTL DEF DecSpec
================================================================================
