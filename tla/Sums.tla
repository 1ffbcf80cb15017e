--------------------------------- MODULE Sums ---------------------------------
(***************************************************************************)
(* Lemmas on the sums of Tally: what a sum is, what bounds it, and what    *)
(* becomes of it when its set or its numbers change; and on counting.      *)
(***************************************************************************)
EXTENDS Integers, Tally, FiniteSetTheorems, WellFoundedInduction, TLAPS

\* The units of one element.
LEMMA UnitsOfOne ==
  ASSUME NEW x, NEW m \in Nat
  PROVE  /\ IsFiniteSet({x} \X (1..m))
         /\ Cardinality({x} \X (1..m)) = m
<1>1. IsFiniteSet(1..m) /\ Cardinality(1..m) = m
  BY FS_Interval
<1>2. IsFiniteSet({x}) /\ Cardinality({x}) = 1
  BY FS_Singleton
<1> QED
  BY <1>1, <1>2, FS_Product

\* A sum is a number.
LEMMA TotalIsNat ==
  ASSUME NEW S, IsFiniteSet(S), NEW f, \A x \in S : f[x] \in Nat
  PROVE  IsFiniteSet(Units(S, f)) /\ Total(S, f) \in Nat
<1> DEFINE U == {{x} \X (1..f[x]) : x \in S}
           u == [x \in S |-> {x} \X (1..f[x])]
<1>1. u \in Surjection(S, U)
  BY DEF Surjection
<1>2. IsFiniteSet(U)
  BY <1>1, FS_Surjection
<1>3. \A T \in U : IsFiniteSet(T)
  <2>1. ASSUME NEW x \in S PROVE IsFiniteSet({x} \X (1..f[x]))
    BY UnitsOfOne
  <2> QED
    BY <2>1
<1>4. IsFiniteSet(UNION U)
  BY <1>2, <1>3, FS_UNION
<1> QED
  BY <1>4, FS_CardinalityType DEF Units, Total

\* No sum exceeds its largest number, as often as there are numbers.
LEMMA TotalIsBounded ==
  ASSUME NEW S, IsFiniteSet(S), NEW B \in Nat, NEW f, \A x \in S : f[x] \in 0..B
  PROVE  Total(S, f) <= Cardinality(S) * B
<1>1. IsFiniteSet(1..B) /\ Cardinality(1..B) = B
  BY FS_Interval
<1>2. IsFiniteSet(S \X (1..B)) /\ Cardinality(S \X (1..B)) = Cardinality(S) * B
  BY <1>1, FS_Product
<1>3. Units(S, f) \in SUBSET (S \X (1..B))
  BY DEF Units
<1> QED
  BY <1>2, <1>3, FS_Subset DEF Total

\* Larger numbers, or more of them, have a larger sum.
LEMMA TotalIsMonotone ==
  ASSUME NEW S, IsFiniteSet(S), NEW T \in SUBSET S, NEW f, NEW g,
         \A x \in S : g[x] \in Nat, \A x \in T : f[x] \in Nat /\ f[x] <= g[x]
  PROVE  Total(T, f) <= Total(S, g)
<1>1. Units(T, f) \subseteq Units(S, g)
  BY DEF Units
<1> QED
  BY <1>1, TotalIsNat, FS_Subset DEF Total

\* The sum of zeros.
LEMMA TotalOfZeros ==
  ASSUME NEW S, NEW f, \A x \in S : f[x] = 0
  PROVE  Total(S, f) = 0
<1>1. Units(S, f) = {}
  BY DEF Units
<1> QED
  BY <1>1, FS_EmptySet DEF Total

\* A sum depends on its numbers only.
LEMMA SameTotal ==
  ASSUME NEW S, NEW f, NEW g, \A x \in S : f[x] = g[x]
  PROVE  Total(S, f) = Total(S, g)
<1>1. Units(S, f) = Units(S, g)
  BY DEF Units
<1> QED
  BY <1>1 DEF Total

LEMMA DisjointUnion ==
  ASSUME NEW S, IsFiniteSet(S), NEW T, IsFiniteSet(T), S \cap T = {}
  PROVE  Cardinality(S \cup T) = Cardinality(S) + Cardinality(T)
<1>1. Cardinality({}) = 0 /\ Cardinality(S) \in Nat /\ Cardinality(T) \in Nat
  BY FS_EmptySet, FS_CardinalityType
<1>2. Cardinality(S \cup T) = Cardinality(S) + Cardinality(T) - Cardinality(S \cap T)
  BY FS_Union
<1>3. Cardinality(S \cap T) = 0
  BY <1>1
<1>4. ASSUME NEW a \in Nat, NEW b \in Nat, NEW c, NEW d, d = 0, c = a + b - d PROVE c = a + b
  BY <1>4
<1> QED
  BY ONLY <1>1, <1>2, <1>3, <1>4

\* A sum is one of its numbers and the sum of the others.
LEMMA TotalSplits ==
  ASSUME NEW S, IsFiniteSet(S), NEW f, NEW x \in S, \A y \in S : f[y] \in Nat
  PROVE  Total(S, f) = f[x] + Total(S \ {x}, f) /\ Total(S \ {x}, f) \in Nat
<1> DEFINE One == {x} \X (1..f[x])
           Rest == Units(S \ {x}, f)
<1>1. IsFiniteSet(One) /\ Cardinality(One) = f[x]
  BY UnitsOfOne
<1>2. IsFiniteSet(S \ {x})
  BY FS_RemoveElement
<1>3. IsFiniteSet(Rest) /\ Cardinality(Rest) \in Nat
  BY <1>2, TotalIsNat DEF Total
<1>4. Units(S, f) = One \cup Rest
  BY DEF Units
<1>5. One \cap Rest = {}
  BY DEF Units
<1>6. Cardinality(One \cup Rest) = Cardinality(One) + Cardinality(Rest)
  BY <1>1, <1>3, <1>5, DisjointUnion
<1> QED
  BY <1>1, <1>3, <1>4, <1>6 DEF Total

\* A number that changes changes the sum by as much.
LEMMA TotalMoves ==
  ASSUME NEW S, IsFiniteSet(S), NEW f, NEW g, NEW x \in S,
         \A y \in S : f[y] \in Nat, \A y \in S : g[y] \in Nat,
         \A y \in S \ {x} : f[y] = g[y]
  PROVE  Total(S, f) + g[x] = Total(S, g) + f[x]
<1>1. Total(S \ {x}, f) = Total(S \ {x}, g)
  BY SameTotal
<1>2. Total(S, f) = f[x] + Total(S \ {x}, f) /\ Total(S \ {x}, f) \in Nat
  BY TotalSplits
<1>3. Total(S, g) = g[x] + Total(S \ {x}, g)
  BY TotalSplits
<1> QED
  BY <1>1, <1>2, <1>3
\* The sum over a set is that of its two parts.
LEMMA TotalOfParts ==
  ASSUME NEW S, IsFiniteSet(S), NEW T, IsFiniteSet(T), S \cap T = {},
         NEW f, \A x \in S \cup T : f[x] \in Nat
  PROVE  Total(S \cup T, f) = Total(S, f) + Total(T, f)
<1>1. Units(S \cup T, f) = Units(S, f) \cup Units(T, f)
  BY DEF Units
<1>2. Units(S, f) \cap Units(T, f) = {}
  BY DEF Units
<1>3. IsFiniteSet(Units(S, f)) /\ IsFiniteSet(Units(T, f))
  BY TotalIsNat
<1> QED
  BY <1>1, <1>2, <1>3, DisjointUnion DEF Total

\* A set of numbers that is not empty has a least one.
LEMMA LeastNumber ==
  ASSUME NEW T \in SUBSET Nat, T # {}
  PROVE  \E k \in T : \A m \in T : k <= m
<1>1. PICK k \in T : \A m \in T : ~(<<m, k>> \in OpToRel(<, Nat))
  BY NatLessThanWellFounded, WFMin
<1>2. ASSUME NEW m \in T PROVE k <= m
  <2>1. m \in Nat /\ k \in Nat /\ ~(<<m, k>> \in OpToRel(<, Nat))
    BY <1>1
  <2> QED
    BY <2>1 DEF OpToRel
<1> QED
  BY <1>2

Bit(x, T) == IF x \in T THEN 1 ELSE 0

\* One more candidate for a set counts if it is in the set.
LEMMA CountOneMore ==
  ASSUME NEW S, IsFiniteSet(S), NEW T, NEW x, x \notin S
  PROVE  /\ IsFiniteSet(S \cup {x})
         /\ Cardinality(S \cap T) \in Nat
         /\ Cardinality((S \cup {x}) \cap T) = Cardinality(S \cap T) + Bit(x, T)
<1>0. IsFiniteSet(S \cup {x})
  BY FS_AddElement
<1>1. IsFiniteSet(S \cap T) /\ Cardinality(S \cap T) \in Nat
  BY FS_Subset, FS_CardinalityType
<1>2. CASE x \in T
  <2>1. (S \cup {x}) \cap T = (S \cap T) \cup {x}
    BY <1>2
  <2>2. Cardinality((S \cup {x}) \cap T) = Cardinality(S \cap T) + 1
    <3>1. Cardinality((S \cap T) \cup {x}) = Cardinality(S \cap T) + 1
      BY <1>1, FS_AddElement
    <3> QED
      BY <2>1, <3>1, Zenon
  <2>3. Bit(x, T) = 1
    BY <1>2 DEF Bit
  <2> QED
    BY <1>0, <1>1, <2>2, <2>3
<1>3. CASE x \notin T
  <2>1. (S \cup {x}) \cap T = S \cap T
    BY <1>3
  <2>2. Cardinality((S \cup {x}) \cap T) = Cardinality(S \cap T)
    BY <2>1, Zenon
  <2>3. Bit(x, T) = 0
    BY <1>3 DEF Bit
  <2> QED
    BY <1>0, <1>1, <2>2, <2>3
<1> QED
  BY <1>2, <1>3

LEMMA CountThreeMore ==
  ASSUME NEW S, IsFiniteSet(S), NEW T, NEW x, NEW y, NEW z,
         x \notin S, y \notin S, z \notin S, x # y, x # z, y # z
  PROVE  Cardinality((S \cup {x, y, z}) \cap T)
           = Cardinality(S \cap T) + Bit(x, T) + Bit(y, T) + Bit(z, T)
<1> DEFINE A == S \cup {x}
           B == A \cup {y}
<1>1. /\ IsFiniteSet(A) /\ Cardinality(S \cap T) \in Nat
      /\ Cardinality(A \cap T) = Cardinality(S \cap T) + Bit(x, T)
  BY CountOneMore
<1>2. y \notin A /\ z \notin B /\ S \cup {x, y, z} = B \cup {z}
  OBVIOUS
<1> HIDE DEF A, B
<1>3. IsFiniteSet(A \cup {y}) /\ Cardinality((A \cup {y}) \cap T) = Cardinality(A \cap T) + Bit(y, T)
  BY <1>1, <1>2, CountOneMore
<1>4. IsFiniteSet(B) /\ Cardinality(B \cap T) = Cardinality(A \cap T) + Bit(y, T)
  BY <1>3 DEF B
<1>5. Cardinality((B \cup {z}) \cap T) = Cardinality(B \cap T) + Bit(z, T)
  BY <1>2, <1>4, CountOneMore
<1>6. Bit(x, T) \in Nat /\ Bit(y, T) \in Nat /\ Bit(z, T) \in Nat
  BY DEF Bit
<1> QED
  BY <1>1, <1>2, <1>4, <1>5, <1>6

LEMMA ThreeAreFinite == ASSUME NEW a, NEW b, NEW c PROVE IsFiniteSet({a, b, c})
<1>1. IsFiniteSet({a} \cup {b}) /\ {a, b, c} = ({a} \cup {b}) \cup {c}
  BY FS_Singleton, FS_AddElement
<1>2. IsFiniteSet(({a} \cup {b}) \cup {c})
  BY <1>1, FS_AddElement
<1> QED
  BY <1>1, <1>2

\* The size of a choice among six, seven or eight things.
LEMMA CountSix ==
  ASSUME NEW a, NEW b, NEW c, NEW d, NEW e, NEW f, NEW T,
         a # b, a # c, b # c, d # e, d # f, e # f,
         a \notin {d, e, f}, b \notin {d, e, f}, c \notin {d, e, f}
  PROVE  Cardinality(({a, b, c} \cup {d, e, f}) \cap T)
           = Bit(a, T) + Bit(b, T) + Bit(c, T) + Bit(d, T) + Bit(e, T) + Bit(f, T)
<1> DEFINE N == {}
           S == {a, b, c}
<1>0. Cardinality(N \cap T) = 0
  <2>1. N \cap T = {}
    OBVIOUS
  <2> QED
    BY <2>1, FS_EmptySet
<1>1. IsFiniteSet(N) /\ a \notin N /\ b \notin N /\ c \notin N
  BY FS_EmptySet
<1>2. N \cup {a, b, c} = S /\ d \notin S /\ e \notin S /\ f \notin S /\ IsFiniteSet(S)
  BY ThreeAreFinite
<1> HIDE DEF N, S
<1>3. Cardinality((N \cup {a, b, c}) \cap T)
        = Cardinality(N \cap T) + Bit(a, T) + Bit(b, T) + Bit(c, T)
  BY <1>1, CountThreeMore
<1>4. Cardinality((S \cup {d, e, f}) \cap T)
        = Cardinality(S \cap T) + Bit(d, T) + Bit(e, T) + Bit(f, T)
  BY <1>2, CountThreeMore
<1>5. Cardinality(S \cap T) = 0 + Bit(a, T) + Bit(b, T) + Bit(c, T)
  BY <1>0, <1>2, <1>3, Zenon
<1>6. \A x : Bit(x, T) \in Nat
  BY DEF Bit
<1>7. Cardinality((S \cup {d, e, f}) \cap T)
        = Bit(a, T) + Bit(b, T) + Bit(c, T) + Bit(d, T) + Bit(e, T) + Bit(f, T)
  BY <1>4, <1>5, <1>6
<1> QED
  BY <1>7 DEF S

LEMMA CountSeven ==
  ASSUME NEW a, NEW b, NEW c, NEW d, NEW e, NEW f, NEW g, NEW T,
         a # b, a # c, b # c, d # e, d # f, e # f,
         a \notin {d, e, f}, b \notin {d, e, f}, c \notin {d, e, f},
         g \notin {a, b, c, d, e, f}
  PROVE  Cardinality(({a, b, c} \cup {d, e, f} \cup {g}) \cap T)
           = Bit(a, T) + Bit(b, T) + Bit(c, T) + Bit(d, T) + Bit(e, T) + Bit(f, T) + Bit(g, T)
<1> DEFINE S == {a, b, c} \cup {d, e, f}
<1>1. Cardinality(S \cap T)
        = Bit(a, T) + Bit(b, T) + Bit(c, T) + Bit(d, T) + Bit(e, T) + Bit(f, T)
  BY CountSix
<1>2. IsFiniteSet(S) /\ g \notin S
  BY ThreeAreFinite, FS_Union
<1> HIDE DEF S
<1>3. Cardinality((S \cup {g}) \cap T) = Cardinality(S \cap T) + Bit(g, T)
  BY <1>2, CountOneMore
<1>4. Cardinality((S \cup {g}) \cap T)
        = Bit(a, T) + Bit(b, T) + Bit(c, T) + Bit(d, T) + Bit(e, T) + Bit(f, T) + Bit(g, T)
  BY <1>1, <1>3
<1> QED
  BY <1>4 DEF S

LEMMA CountEight ==
  ASSUME NEW a, NEW b, NEW c, NEW d, NEW e, NEW f, NEW g, NEW h, NEW T,
         a # b, a # c, b # c, d # e, d # f, e # f,
         a \notin {d, e, f}, b \notin {d, e, f}, c \notin {d, e, f},
         g \notin {a, b, c, d, e, f}, h \notin {a, b, c, d, e, f}, g # h
  PROVE  Cardinality(({a, b, c} \cup {d, e, f} \cup {g, h}) \cap T)
           = Bit(a, T) + Bit(b, T) + Bit(c, T) + Bit(d, T) + Bit(e, T) + Bit(f, T)
               + Bit(g, T) + Bit(h, T)
<1> DEFINE S == {a, b, c} \cup {d, e, f} \cup {g}
<1>1. Cardinality(S \cap T)
        = Bit(a, T) + Bit(b, T) + Bit(c, T) + Bit(d, T) + Bit(e, T) + Bit(f, T) + Bit(g, T)
  BY CountSeven
<1>2. IsFiniteSet(S)
  BY ThreeAreFinite, FS_Union, FS_Singleton
<1>3. h \notin S /\ {a, b, c} \cup {d, e, f} \cup {g, h} = S \cup {h}
  OBVIOUS
<1> HIDE DEF S
<1>4. Cardinality((S \cup {h}) \cap T) = Cardinality(S \cap T) + Bit(h, T)
  BY <1>2, <1>3, CountOneMore
<1>5. Cardinality((S \cup {h}) \cap T)
        = Bit(a, T) + Bit(b, T) + Bit(c, T) + Bit(d, T) + Bit(e, T) + Bit(f, T) + Bit(g, T)
            + Bit(h, T)
  BY <1>1, <1>4
<1> QED
  BY <1>3, <1>5, Zenon
===============================================================================
