---------------------------- MODULE OrderLemmas ----------------------------
(***************************************************************************)
(* Smallest and largest numbers of a set, which the CHOOSE of the modules  *)
(* on sequence numbers rest on, and what sorting a set gives.              *)
(***************************************************************************)
EXTENDS Sorting, TLAPS, FiniteSetTheorems, WellFoundedInduction

\* The order on the naturals as a set of pairs.
Below == {ss \in Nat \X Nat : ss[1] < ss[2]}

\* A set of naturals that is not empty has a smallest member.
LEMMA SmallestNat ==
    ASSUME NEW S, S \subseteq Nat, S # {}
    PROVE  \E m \in S : \A x \in S : m <= x
<1>1. IsWellFoundedOn(Below, Nat)
  BY NatLessThanWellFounded DEF OpToRel, Below
<1>2. PICK m \in S : \A y \in S : ~(<<y, m>> \in Below)
  BY <1>1, WFMin
<1>3. \A y \in S : y \in Nat /\ (y < m => <<y, m>> \in Below)
  BY DEF Below
<1>4. \A y \in S : ~(y < m)
  BY <1>2, <1>3
<1>5. \A y \in S : m <= y
  BY <1>3, <1>4
<1> QED BY <1>5

\* ... and a largest one when it is bounded.
LEMMA LargestBounded ==
    ASSUME NEW S, S \subseteq Nat, S # {}, NEW b \in Nat, \A x \in S : x <= b
    PROVE  \E m \in S : \A x \in S : x <= m
<1> DEFINE D == {b - x : x \in S}
<1>1. D \subseteq Nat /\ D # {}
  <2>1. \A x \in S : x \in Nat /\ b - x \in Nat
    OBVIOUS
  <2> QED BY <2>1
<1>2. PICK d \in D : \A x \in D : d <= x
  <2> HIDE DEF D
  <2> QED BY <1>1, SmallestNat
<1>3. PICK m \in S : d = b - m
  BY <1>2
<1>4. \A x \in S : x \in Nat /\ b - m <= b - x
  BY <1>2, <1>3
<1>5. \A x \in S : x <= m
  BY <1>4
<1> QED BY <1>5

-----------------------------------------------------------------------------
(* Sorting *)

\* above is a strict total order of S.
Orders(above, S) ==
    /\ \A c \in S : <<c, c>> \notin above
    /\ \A c, d, e \in S : <<c, d>> \in above /\ <<d, e>> \in above => <<c, e>> \in above
    /\ \A c, d \in S : c # d => <<c, d>> \in above \/ <<d, c>> \in above

\* Fewer elements come before c than before what comes after c.
LEMMA RanksGrow ==
    ASSUME NEW S, IsFiniteSet(S), NEW above, Orders(above, S),
           NEW c \in S, NEW d \in S, <<c, d>> \in above
    PROVE  Cardinality(Before(c, S, above)) < Cardinality(Before(d, S, above))
<1> DEFINE C == Before(c, S, above)
           D == Before(d, S, above)
<1>1. C \in SUBSET (D \ {c}) /\ c \in D /\ D \in SUBSET S
  BY DEF Orders, Before
<1> HIDE DEF C, D
<1>2. IsFiniteSet(D)
  BY <1>1, FS_Subset
<1>3. IsFiniteSet(D \ {c}) /\ Cardinality(D \ {c}) = Cardinality(D) - 1
  BY <1>1, <1>2, FS_RemoveElement
<1>4. IsFiniteSet(C) /\ Cardinality(C) <= Cardinality(D \ {c})
  BY <1>1, <1>3, FS_Subset
<1>5. Cardinality(C) \in Nat /\ Cardinality(D) \in Nat
  BY <1>2, <1>4, FS_CardinalityType
<1>6. Cardinality(C) < Cardinality(D)
  BY <1>3, <1>4, <1>5
<1> QED BY <1>6 DEF C, D

\* So every rank below the size of the set is the rank of one element.
LEMMA RanksAreAllTaken ==
    ASSUME NEW S, IsFiniteSet(S), NEW above, Orders(above, S)
    PROVE  /\ \A c \in S : Cardinality(Before(c, S, above)) \in 0..(Cardinality(S) - 1)
           /\ \A c, d \in S :
                 Cardinality(Before(c, S, above)) = Cardinality(Before(d, S, above)) => c = d
           /\ \A i \in 1..Cardinality(S) :
                 \E c \in S : Cardinality(Before(c, S, above)) = i - 1
<1> DEFINE Rank(c) == Cardinality(Before(c, S, above))
           n == Cardinality(S)
           f == [c \in S |-> Rank(c) + 1]
<1>1. n \in Nat
  BY FS_CardinalityType
<1>2. ASSUME NEW c \in S PROVE Rank(c) \in 0..(n - 1)
  <2>1. Before(c, S, above) \in SUBSET (S \ {c})
    BY DEF Orders, Before
  <2>2. IsFiniteSet(S \ {c}) /\ Cardinality(S \ {c}) = n - 1
    BY FS_RemoveElement
  <2>3. IsFiniteSet(Before(c, S, above)) /\ Rank(c) <= n - 1
    BY <2>1, <2>2, FS_Subset
  <2>4. Rank(c) \in Nat
    BY <2>3, FS_CardinalityType
  <2> HIDE DEF Rank, n
  <2> QED BY <1>1, <2>3, <2>4
<1>3. ASSUME NEW c \in S, NEW d \in S, c # d PROVE Rank(c) # Rank(d)
  <2>1. Rank(c) \in Int /\ Rank(d) \in Int
    BY <1>1, <1>2
  <2>2. <<c, d>> \in above \/ <<d, c>> \in above
    BY <1>3 DEF Orders
  <2>3. Rank(c) < Rank(d) \/ Rank(d) < Rank(c)
    BY <2>2, RanksGrow
  <2> HIDE DEF Rank
  <2> QED BY <2>1, <2>3
<1>4. f \in Injection(S, 1..n)
  <2> HIDE DEF Rank, n
  <2>1. \A c \in S : f[c] = Rank(c) + 1 /\ Rank(c) \in Int
    BY <1>1, <1>2
  <2>2. f \in [S -> 1..n]
    BY <1>1, <1>2
  <2>3. \A c, d \in S : f[c] = f[d] => c = d
    <3> HIDE DEF f
    <3> QED BY <2>1, <1>3
  <2> HIDE DEF f
  <2> QED BY <2>2, <2>3 DEF Injection, IsInjective
<1>5. IsFiniteSet(1..n) /\ Cardinality(1..n) = n
  <2> HIDE DEF n
  <2>1. IsFiniteSet(1..n) /\ Cardinality(1..n) = IF 1 > n THEN 0 ELSE n - 1 + 1
    BY <1>1, FS_Interval
  <2> QED BY <2>1, <1>1
<1>6. f \in Surjection(S, 1..n)
  <2> HIDE DEF f
  <2>1. Cardinality(S) = Cardinality(1..n)
    BY <1>5
  <2> QED BY <1>4, <1>5, <2>1, FS_Injection
<1>7. ASSUME NEW i \in 1..n PROVE \E c \in S : Rank(c) = i - 1
  <2>1. \E c \in S : f[c] = i
    <3> HIDE DEF f, n
    <3> QED BY <1>6 DEF Surjection
  <2>2. PICK c \in S : f[c] = i
    BY <2>1
  <2> HIDE DEF Rank, n
  <2> QED BY <2>2, <1>1, <1>2
<1> HIDE DEF f
<1> QED BY <1>2, <1>3, <1>7

\* What Arranged is for: the sequence has each element once, and in order.
LEMMA ArrangedEnumerates ==
    ASSUME NEW S, IsFiniteSet(S), NEW above, Orders(above, S)
    PROVE  /\ Arranged(S, above) \in Seq(S)
           /\ Len(Arranged(S, above)) = Cardinality(S)
           /\ Elements(Arranged(S, above)) = S
           /\ \A i, j \in DOMAIN Arranged(S, above) :
                 i < j => <<Arranged(S, above)[i], Arranged(S, above)[j]>> \in above
<1> DEFINE Rank(c) == Cardinality(Before(c, S, above))
           n == Cardinality(S)
           list == Arranged(S, above)
<1>1. n \in Nat
  BY FS_CardinalityType
<1>2. /\ \A c \in S : Rank(c) \in 0..(n - 1)
      /\ \A c, d \in S : Rank(c) = Rank(d) => c = d
      /\ \A i \in 1..n : \E c \in S : Rank(c) = i - 1
  BY RanksAreAllTaken
<1>3. \A c, d \in S : <<c, d>> \in above => Rank(c) < Rank(d)
  BY RanksGrow
<1>4. list = [i \in 1..n |-> CHOOSE c \in S : Rank(c) = i - 1]
  BY DEF Arranged
<1> HIDE DEF Rank, n, list
<1>5. DOMAIN list = 1..n /\ \A i \in 1..n : list[i] \in S /\ Rank(list[i]) = i - 1
  BY <1>2, <1>4
<1>6. list \in [1..n -> S]
  BY <1>4, <1>5
<1>7. list \in Seq(S) /\ Len(list) = n
  BY <1>1, <1>6
<1>8. \A c \in S : \E i \in 1..n : list[i] = c
  <2> TAKE c \in S
  <2>1. Rank(c) \in 0..(n - 1)
    BY <1>2
  <2>2. Rank(c) + 1 \in 1..n /\ Rank(list[Rank(c) + 1]) = Rank(c)
    BY <1>1, <1>5, <2>1
  <2>3. list[Rank(c) + 1] = c
    BY <1>2, <1>5, <2>2
  <2> QED BY <2>2, <2>3
<1>9. Elements(list) = S
  BY <1>5, <1>8 DEF Elements
<1>10. \A i, j \in 1..n : i < j => <<list[i], list[j]>> \in above
  <2> SUFFICES ASSUME NEW i \in 1..n, NEW j \in 1..n, i < j
               PROVE  <<list[i], list[j]>> \in above
    OBVIOUS
  <2>1. list[i] \in S /\ list[j] \in S /\ Rank(list[i]) = i - 1 /\ Rank(list[j]) = j - 1
    BY <1>5
  <2>2. list[i] # list[j]
    BY <1>1, <2>1
  <2>3. ~(<<list[j], list[i]>> \in above)
    BY <1>1, <1>3, <2>1
  <2> QED BY <2>1, <2>2, <2>3 DEF Orders
<1> QED BY <1>5, <1>7, <1>9, <1>10 DEF n, list
=============================================================================
