--------------------------------- MODULE Lists ---------------------------------
(***************************************************************************)
(* What filter and sort of a JavaScript array return.  SortSeq of the TLC  *)
(* module is not defined for a list in which two elements are neither      *)
(* before the other; sort keeps those in the order in which they were.     *)
(***************************************************************************)
EXTENDS Naturals, Sequences, FiniteSets

\* The elements of s at the places I, where R says which place comes first.
Arranged(s, I, R) ==
  [k \in 1..Cardinality(I) |->
     s[CHOOSE i \in I : Cardinality({j \in I : <<j, i>> \in R}) = k - 1]]

Pairs(s) == (DOMAIN s) \X (DOMAIN s)

Filter(s, Test(_)) ==
  Arranged(s, {i \in DOMAIN s : Test(s[i])}, {p \in Pairs(s) : p[1] < p[2]})

StableSort(s, Before(_, _)) ==
  Arranged(s, DOMAIN s,
    {p \in Pairs(s) : \/ Before(s[p[1]], s[p[2]])
                      \/ p[1] < p[2] /\ ~Before(s[p[2]], s[p[1]])})

=============================================================================
