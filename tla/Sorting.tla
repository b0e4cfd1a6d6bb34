------------------------------ MODULE Sorting ------------------------------
(***************************************************************************)
(* What sorting does: Python's sorted and list.sort with a key, and ORDER  *)
(* BY of SQL, when no two keys are the same.                               *)
(***************************************************************************)
EXTENDS Integers, Sequences, FiniteSets

\* The elements of S, sorted: above has the pairs <<d, c>> in which d comes first.
Before(c, S, above) == {d \in S : <<d, c>> \in above}
Arranged(S, above) ==
    [i \in 1..Cardinality(S) |-> CHOOSE c \in S : Cardinality(Before(c, S, above)) = i - 1]

Elements(list) == {list[i] : i \in DOMAIN list}
=============================================================================
