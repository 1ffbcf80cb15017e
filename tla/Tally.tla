--------------------------------- MODULE Tally ---------------------------------
(***************************************************************************)
(* Sums of natural numbers over a finite set, as the number of their       *)
(* units: x stands for <<x, 1>>, ..., <<x, f[x]>>.  What a step does to a  *)
(* sum is then what it does to the size of a set, which a proof can follow *)
(* where it cannot follow a fold.                                          *)
(***************************************************************************)
EXTENDS Naturals, FiniteSets

Units(S, f) == UNION {{x} \X (1..f[x]) : x \in S}

Total(S, f) == Cardinality(Units(S, f))
================================================================================
