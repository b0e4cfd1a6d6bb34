-------------------------- MODULE SharedBufferProofs --------------------------
(***************************************************************************)
(* What the steps of the two threads do to the buffer they share, whatever *)
(* is around it: the types, how often a number occurs, and what a listener *)
(* that is alone does.                                                     *)
(***************************************************************************)
EXTENDS SharedBuffer, OrderLemmas, FiniteSetTheorems, FunctionTheorems

-----------------------------------------------------------------------------
(* Counting what a list holds *)

\* The places of s in a list are finitely many.
LEMMA PlacesAreFinite ==
    ASSUME NEW S, NEW list \in Seq(S), NEW s
    PROVE  /\ IsFiniteSet({i \in DOMAIN list : list[i] = s})
           /\ CountIn(list, s) \in Nat
<1> DEFINE D == {i \in DOMAIN list : list[i] = s}
<1>1. DOMAIN list = 1..Len(list) /\ Len(list) \in Nat
  OBVIOUS
<1>2. IsFiniteSet(1..Len(list))
  BY <1>1, FS_Interval
<1>3. D \in SUBSET (1..Len(list))
  BY <1>1
<1>4. IsFiniteSet(D)
  <2> HIDE DEF D
  <2> QED BY <1>2, <1>3, FS_Subset
<1>5. Cardinality(D) \in Nat
  <2> HIDE DEF D
  <2> QED BY <1>4, FS_CardinalityType
<1> QED BY <1>4, <1>5 DEF CountIn

\* A list that grows by e holds one e more.
LEMMA CountAppend ==
    ASSUME NEW S, NEW list \in Seq(S), NEW e \in S, NEW s
    PROVE  CountIn(Append(list, e), s) =
               CountIn(list, s) + (IF e = s THEN 1 ELSE 0)
<1> DEFINE D == {i \in DOMAIN list : list[i] = s}
           n == Len(list) + 1
           longer == Append(list, e)
           E == {i \in DOMAIN longer : longer[i] = s}
<1>1. /\ DOMAIN list = 1..Len(list) /\ DOMAIN longer = 1..n /\ Len(list) \in Nat
      /\ \A i \in 1..Len(list) : longer[i] = list[i]
      /\ longer[n] = e
  OBVIOUS
<1>2. IsFiniteSet(D) /\ Cardinality(D) \in Nat
  BY PlacesAreFinite DEF CountIn
<1>3. n \notin D
  BY <1>1
<1>4. E = IF e = s THEN D \union {n} ELSE D
  BY <1>1
<1>5. Cardinality(E) = Cardinality(D) + (IF e = s THEN 1 ELSE 0)
  <2> HIDE DEF D, E, n
  <2>1. Cardinality(D \union {n}) = Cardinality(D) + 1
    BY <1>2, <1>3, FS_AddElement
  <2> QED BY <1>2, <1>4, <2>1
<1> QED BY <1>5 DEF CountIn

\* A list without its head holds one of it less.
LEMMA CountTail ==
    ASSUME NEW S, NEW list \in Seq(S), list # <<>>, NEW s
    PROVE  CountIn(list, s) =
               CountIn(Tail(list), s) + (IF Head(list) = s THEN 1 ELSE 0)
<1> DEFINE D == {i \in DOMAIN list : list[i] = s}
           rest == Tail(list)
           E == {i \in DOMAIN rest : rest[i] = s}
           f == [i \in E |-> i + 1]
<1>1. /\ DOMAIN list = 1..Len(list) /\ Len(list) \in Nat /\ Len(list) > 0
      /\ DOMAIN rest = 1..(Len(list) - 1)
      /\ rest \in Seq(S)
      /\ \A i \in 1..(Len(list) - 1) : rest[i] = list[i + 1]
      /\ Head(list) = list[1]
  OBVIOUS
<1>2. /\ IsFiniteSet(D) /\ Cardinality(D) \in Nat
      /\ IsFiniteSet(E) /\ Cardinality(E) \in Nat
  BY <1>1, PlacesAreFinite DEF CountIn
<1>3. f \in Bijection(E, D \ {1})
  <2>1. \A i \in E : i \in Nat /\ i + 1 \in D \ {1}
    BY <1>1
  <2>2. \A j \in D \ {1} : j - 1 \in E /\ (j - 1) + 1 = j
    BY <1>1
  <2>3. \A i, j \in E : i + 1 = j + 1 => i = j
    BY <2>1
  <2> HIDE DEF D, E
  <2>4. f \in [E -> D \ {1}]
    BY <2>1
  <2>5. \A j \in D \ {1} : \E i \in E : f[i] = j
    BY <2>2
  <2>6. \A i, j \in E : f[i] = f[j] => i = j
    BY <2>3
  <2> HIDE DEF f
  <2> QED BY <2>4, <2>5, <2>6, Fun_IsBij
<1>4. Cardinality(E) = Cardinality(D \ {1})
  <2> HIDE DEF D, E, f
  <2> QED BY <1>2, <1>3, FS_Bijection DEF ExistsBijection
<1>5. 1 \in D <=> Head(list) = s
  BY <1>1
<1>6. Cardinality(D) = Cardinality(E) + (IF Head(list) = s THEN 1 ELSE 0)
  <2> HIDE DEF D, E
  <2>1. Cardinality(D \ {1}) = IF 1 \in D THEN Cardinality(D) - 1 ELSE Cardinality(D)
    BY <1>2, FS_RemoveElement
  <2> QED BY <1>2, <1>4, <1>5, <2>1
<1> QED BY <1>6 DEF CountIn

\* The empty list holds nothing.
LEMMA CountEmpty == \A s : CountIn(<<>>, s) = 0
<1> TAKE s
<1>1. {i \in DOMAIN <<>> : <<>>[i] = s} = {}
  OBVIOUS
<1> QED BY <1>1, FS_EmptySet DEF CountIn

\* Min finds the smallest number of a set of them.
LEMMA MinOfSeqs ==
    ASSUME NEW S, S \subseteq Seqs, S # {}
    PROVE  Min(S) \in S
<1>1. S \subseteq Nat
  BY DEF Seqs
<1>2. \E m \in S : \A x \in S : m <= x
  BY <1>1, SmallestNat
<1> QED BY <1>2 DEF Min

-----------------------------------------------------------------------------
(* Types *)

Places == {"idle", "insert", "drain", "advance", "refresh", "stamp",
           "put", "timed", "assign", "status", "dead"}

\* While the listener inserts there is something left to insert.
InsertHasWork == pc[L] = "insert" => batch # {}

SharedInv == SharedTypeOK /\ InsertHasWork

\* What the types say, in one place.
LEMMA SharedTypes ==
    ASSUME SharedTypeOK
    PROVE  /\ Threads = {L, H} /\ L # H
           /\ next_seq \in Nat /\ pending \subseteq Seqs /\ batch \subseteq Seqs
           /\ timer \in BOOLEAN /\ stale \in BOOLEAN /\ lowest \in 0..MaxSeq
           /\ pc \in [Threads -> Places]
           /\ ready \in [Threads -> Seq(Seqs)]
           /\ ready[L] \in Seq(Seqs) /\ ready[H] \in Seq(Seqs)
           /\ Seqs \subseteq Nat /\ MaxSeq \in Nat
<1>1. Threads = {L, H} /\ L # H
  BY DEF Threads, L, H
<1>2. timer \in BOOLEAN /\ stale \in BOOLEAN
  BY DEF SharedTypeOK
<1>3. Seqs \subseteq Nat /\ MaxSeq \in Nat
  BY MaxSeqAssumption DEF Seqs
<1> QED BY <1>1, <1>2, <1>3 DEF SharedTypeOK, Places

\* ... and the other way round.
LEMMA TypesShared ==
    ASSUME next_seq \in Nat, pending \subseteq Seqs, batch \subseteq Seqs,
           timer \in BOOLEAN, stale \in BOOLEAN, lowest \in 0..MaxSeq,
           pc \in [Threads -> Places], ready \in [Threads -> Seq(Seqs)],
           pc[L] = "insert" => batch # {}
    PROVE  SharedInv
<1>1. {timer, stale} \subseteq BOOLEAN
  OBVIOUS
<1> QED BY <1>1 DEF SharedInv, SharedTypeOK, InsertHasWork, Places

\* A thread that goes somewhere is there, and the other one stays.
LEMMA GoesTo ==
    ASSUME SharedTypeOK, NEW t \in Threads, NEW to \in Places, Goto(t, to)
    PROVE  /\ pc' \in [Threads -> Places] /\ pc'[t] = to
           /\ \A u \in Threads \ {t} : pc'[u] = pc[u]
BY SharedTypes DEF Goto

\* A new buffer.
LEMMA NewSharedInv ==
    ASSUME NEW start \in Nat, NewSharedBuffer(start)
    PROVE  SharedInv
<1>1. 0 \in 0..MaxSeq
  BY MaxSeqAssumption
<1>2. pc \in [Threads -> Places] /\ ready \in [Threads -> Seq(Seqs)]
  BY DEF NewSharedBuffer, Places
<1>3. pc[L] = "idle"
  BY DEF NewSharedBuffer, Threads
<1> QED BY <1>1, <1>2, <1>3, TypesShared DEF NewSharedBuffer

\* Steps that leave the listener alone, or take it anywhere but to insert.
LEMMA InvOfRest ==
    ASSUME SharedInv, UNCHANGED batch,
           next_seq' \in Nat, pending' \subseteq Seqs, timer' \in BOOLEAN, stale' \in BOOLEAN,
           lowest' \in 0..MaxSeq, ready' \in [Threads -> Seq(Seqs)],
           pc' = pc \/ \E t \in Threads : \E to \in Places \ {"insert"} : Goto(t, to)
    PROVE  SharedInv'
<1>1. SharedTypeOK /\ InsertHasWork
  BY DEF SharedInv
<1>2. pc' \in [Threads -> Places] /\ (pc'[L] = "insert" => pc[L] = "insert")
  <2>1. CASE pc' = pc
    BY <1>1, <2>1, SharedTypes
  <2>2. ASSUME NEW t \in Threads, NEW to \in Places \ {"insert"}, Goto(t, to)
        PROVE  pc' \in [Threads -> Places] /\ (pc'[L] = "insert" => pc[L] = "insert")
    <3>1. /\ pc' \in [Threads -> Places] /\ pc'[t] = to
          /\ \A u \in Threads \ {t} : pc'[u] = pc[u]
      BY <1>1, <2>2, GoesTo
    <3>2. L \in Threads /\ to # "insert"
      BY DEF Threads
    <3> QED BY <3>1, <3>2
  <2> QED BY <2>1, <2>2
<1>3. pc'[L] = "insert" => batch' # {}
  BY <1>1, <1>2 DEF InsertHasWork
<1>4. batch' \subseteq Seqs
  BY <1>1, SharedTypes
<1>5. {timer', stale'} \subseteq BOOLEAN
  OBVIOUS
<1>6. SharedTypeOK'
  BY <1>2, <1>4, <1>5 DEF SharedTypeOK, Places
<1> QED BY <1>3, <1>6 DEF SharedInv, InsertHasWork

\* The listener is called with some numbers.
LEMMA CallPushInv ==
    ASSUME SharedInv, NEW S, S \subseteq Seqs, S # {}, CallPush(S)
    PROVE  SharedInv'
<1>1. SharedTypeOK /\ L \in Threads /\ "insert" \in Places
  BY DEF SharedInv, Threads, Places
<1>2. pc' \in [Threads -> Places]
  BY <1>1, GoesTo DEF CallPush
<1>3. batch' = S /\ UNCHANGED <<next_seq, pending, timer, stale, lowest, ready>>
  BY DEF CallPush, buffer
<1>4. SharedTypeOK'
  BY <1>1, <1>2, <1>3 DEF SharedTypeOK, Places
<1> QED BY <1>3, <1>4 DEF SharedInv, InsertHasWork

\* What a round of push's loop does.
LEMMA InsertDoes ==
    ASSUME SharedInv, Insert
    PROVE  LET s == Min(batch)
           IN  /\ s \in batch /\ s \in Seqs
               /\ pc[L] = "insert"
               /\ pending' = IF IsTaken(s) THEN pending \union {s} ELSE pending
               /\ batch' = batch \ {s}
               /\ pc' = IF batch' = {} THEN [pc EXCEPT ![L] = "drain"] ELSE pc
               /\ UNCHANGED <<next_seq, timer, stale, lowest, ready>>
<1>1. batch # {} /\ batch \subseteq Seqs
  BY SharedTypes DEF SharedInv, InsertHasWork, Insert, At
<1>2. Min(batch) \in batch /\ Min(batch) \in Seqs
  BY <1>1, MinOfSeqs
<1> QED BY <1>2 DEF Insert, At, Goto

LEMMA InsertInv == SharedInv /\ Insert => SharedInv'
<1> SUFFICES ASSUME SharedInv, Insert PROVE SharedInv'
  OBVIOUS
<1> DEFINE s == Min(batch)
<1>1. SharedTypeOK /\ L \in Threads
  BY DEF SharedInv, Threads
<1>2. /\ s \in batch /\ s \in Seqs
      /\ pending' = IF IsTaken(s) THEN pending \union {s} ELSE pending
      /\ batch' = batch \ {s}
      /\ pc' = IF batch' = {} THEN [pc EXCEPT ![L] = "drain"] ELSE pc
      /\ UNCHANGED <<next_seq, timer, stale, lowest, ready>>
  BY InsertDoes
<1> HIDE DEF s
<1>3. pending' \subseteq Seqs /\ batch' \subseteq Seqs
  BY <1>1, <1>2, SharedTypes
<1>4. pc' \in [Threads -> Places] /\ (pc'[L] = "insert" => batch' # {})
  BY <1>1, <1>2, SharedTypes DEF Places
<1>5. SharedTypeOK'
  BY <1>1, <1>2, <1>3, <1>4 DEF SharedTypeOK, Places
<1> QED BY <1>4, <1>5 DEF SharedInv, InsertHasWork

\* The steps of the drain, of either thread.
LEMMA DrainInv ==
    ASSUME SharedInv, NEW t \in Threads, Drain(t)
    PROVE  SharedInv' /\ UNCHANGED <<batch, lowest>>
<1>1. /\ SharedTypeOK
      /\ {"advance", "drain", "refresh", "stamp", "put"} \subseteq Places \ {"insert"}
  BY DEF SharedInv, Places
<1>2. /\ next_seq \in Nat /\ pending \subseteq Seqs /\ timer \in BOOLEAN /\ stale \in BOOLEAN
      /\ lowest \in 0..MaxSeq /\ ready \in [Threads -> Seq(Seqs)]
  BY <1>1, SharedTypes
<1>3. ASSUME DrainPop(t) PROVE SharedInv' /\ UNCHANGED <<batch, lowest>>
  <2>1. ready' = [ready EXCEPT ![t] = Append(@, next_seq)] /\ next_seq \in Seqs
        /\ pending' = pending \ {next_seq}
        /\ UNCHANGED <<next_seq, timer, batch, stale, lowest>> /\ Goto(t, "advance")
    BY <1>2, <1>3 DEF DrainPop
  <2>2. ready' \in [Threads -> Seq(Seqs)]
    BY <1>2, <2>1
  <2>3. pending' \subseteq Seqs
    BY <1>2, <2>1
  <2>4. "advance" \in Places \ {"insert"}
    BY <1>1
  <2> QED BY <1>2, <2>1, <2>2, <2>3, <2>4, InvOfRest
<1>4. ASSUME DrainAdvance(t) PROVE SharedInv' /\ UNCHANGED <<batch, lowest>>
  <2>1. next_seq' = next_seq + 1 /\ Goto(t, "drain")
        /\ UNCHANGED <<pending, timer, batch, stale, lowest, ready>>
    BY <1>4 DEF DrainAdvance
  <2>2. "drain" \in Places \ {"insert"} /\ next_seq' \in Nat
    BY <1>1, <1>2, <2>1
  <2> QED BY <1>2, <2>1, <2>2, InvOfRest
<1>5. ASSUME DrainEnd(t) PROVE SharedInv' /\ UNCHANGED <<batch, lowest>>
  <2>1. Goto(t, "refresh") /\ UNCHANGED <<next_seq, pending, timer, batch, stale, lowest, ready>>
    BY <1>5 DEF DrainEnd, buffer
  <2>2. "refresh" \in Places \ {"insert"}
    BY <1>1
  <2> QED BY <1>2, <2>1, <2>2, InvOfRest
<1>6. ASSUME Refresh(t) PROVE SharedInv' /\ UNCHANGED <<batch, lowest>>
  <2>1. /\ timer' = (timer /\ GapOpen) /\ stale' = (stale /\ GapOpen)
        /\ \/ Goto(t, "stamp")
           \/ Goto(t, "put")
        /\ UNCHANGED <<next_seq, pending, batch, lowest, ready>>
    BY <1>6 DEF Refresh
  <2>2. "stamp" \in Places \ {"insert"} /\ "put" \in Places \ {"insert"}
        /\ timer' \in BOOLEAN /\ stale' \in BOOLEAN
    BY <1>1, <2>1
  <2> QED BY <1>2, <2>1, <2>2, InvOfRest
<1>7. ASSUME Stamp(t) PROVE SharedInv' /\ UNCHANGED <<batch, lowest>>
  <2>1. /\ timer' = TRUE /\ stale' = FALSE /\ Goto(t, "put")
        /\ UNCHANGED <<next_seq, pending, batch, lowest, ready>>
    BY <1>7 DEF Stamp
  <2>2. "put" \in Places \ {"insert"} /\ timer' \in BOOLEAN /\ stale' \in BOOLEAN
    BY <1>1, <2>1
  <2> QED BY <1>2, <2>1, <2>2, InvOfRest
<1> QED BY <1>3, <1>4, <1>5, <1>6, <1>7 DEF Drain

\* The steps of recover_stale_gap that do not skip.
LEMMA RecoverInv ==
    ASSUME SharedInv, Recover
    PROVE  SharedInv' /\ UNCHANGED <<pending, batch, ready>>
<1>1. /\ SharedTypeOK /\ H \in Threads
      /\ {"refresh", "timed", "put", "dead", "assign", "drain"} \subseteq Places \ {"insert"}
  BY DEF SharedInv, Places, Threads
<1>2. /\ next_seq \in Nat /\ pending \subseteq Seqs /\ timer \in BOOLEAN /\ stale \in BOOLEAN
      /\ lowest \in 0..MaxSeq /\ ready \in [Threads -> Seq(Seqs)] /\ MaxSeq \in Nat
  BY <1>1, SharedTypes
<1>3. ASSUME RecoverNoGap PROVE SharedInv' /\ UNCHANGED <<pending, batch, ready>>
  <2>1. Goto(H, "refresh") /\ UNCHANGED <<next_seq, pending, timer, batch, stale, lowest, ready>>
    BY <1>3 DEF RecoverNoGap, buffer
  <2>2. "refresh" \in Places \ {"insert"}
    BY <1>1
  <2> QED BY <1>1, <1>2, <2>1, <2>2, InvOfRest
<1>4. ASSUME RecoverLook PROVE SharedInv' /\ UNCHANGED <<pending, batch, ready>>
  <2>1. stale' \in {FALSE, timer} /\ Goto(H, "timed")
        /\ UNCHANGED <<next_seq, pending, timer, batch, lowest, ready>>
    BY <1>4 DEF RecoverLook, buffer
  <2>2. "timed" \in Places \ {"insert"} /\ stale' \in BOOLEAN
    BY <1>1, <1>2, <2>1
  <2> QED BY <1>1, <1>2, <2>1, <2>2, InvOfRest
<1>5. ASSUME RecoverTooYoung PROVE SharedInv' /\ UNCHANGED <<pending, batch, ready>>
  <2>1. timer' = TRUE /\ Goto(H, "put")
        /\ UNCHANGED <<next_seq, pending, batch, stale, lowest, ready>>
    BY <1>5 DEF RecoverTooYoung
  <2>2. "put" \in Places \ {"insert"} /\ timer' \in BOOLEAN
    BY <1>1, <2>1
  <2> QED BY <1>1, <1>2, <2>1, <2>2, InvOfRest
<1>6. ASSUME RecoverMin PROVE SharedInv' /\ UNCHANGED <<pending, batch, ready>>
  <2>1. /\ stale' = FALSE
        /\ \/ Goto(H, "dead") /\ lowest' = lowest
           \/ pending # {} /\ lowest' = Min(pending) /\ Goto(H, "assign")
        /\ UNCHANGED <<next_seq, pending, timer, batch, ready>>
    BY <1>6 DEF RecoverMin, buffer
  <2>2. lowest' \in 0..MaxSeq
    <3>1. ASSUME pending # {} PROVE Min(pending) \in 0..MaxSeq
      <4>1. Min(pending) \in Seqs
        BY <1>2, <3>1, MinOfSeqs
      <4> QED BY <4>1 DEF Seqs
    <3> QED BY <1>2, <2>1, <3>1
  <2>3. "dead" \in Places \ {"insert"} /\ "assign" \in Places \ {"insert"} /\ stale' \in BOOLEAN
    BY <1>1, <2>1
  <2> QED BY <1>1, <1>2, <2>1, <2>2, <2>3, InvOfRest
<1>7. ASSUME RecoverAssign PROVE SharedInv' /\ UNCHANGED <<pending, batch, ready>>
  <2>1. /\ next_seq' = lowest /\ lowest' = 0 /\ Goto(H, "drain")
        /\ UNCHANGED <<pending, timer, batch, stale, ready>>
    BY <1>7 DEF RecoverAssign
  <2>2. next_seq' \in Nat /\ lowest' \in 0..MaxSeq
    BY <1>2, <2>1
  <2>3. "drain" \in Places \ {"insert"}
    BY <1>1
  <2> QED BY <1>1, <1>2, <2>1, <2>2, <2>3, InvOfRest
<1> QED BY <1>3, <1>4, <1>5, <1>6, <1>7 DEF Recover

\* A thread puts the head of its list, or goes on when there is none.
LEMMA PutInv ==
    ASSUME SharedInv, NEW t \in Threads, UNCHANGED <<buffer, batch, stale, lowest>>,
           \/ pc' = pc /\ ready[t] # <<>> /\ ready' = [ready EXCEPT ![t] = Tail(@)]
           \/ ready' = ready /\ \E to \in Places \ {"insert"} : Goto(t, to)
    PROVE  SharedInv'
<1>1. SharedTypeOK
  BY DEF SharedInv
<1>2. /\ next_seq \in Nat /\ pending \subseteq Seqs /\ timer \in BOOLEAN /\ stale \in BOOLEAN
      /\ lowest \in 0..MaxSeq /\ ready \in [Threads -> Seq(Seqs)]
  BY <1>1, SharedTypes
<1>3. ready' \in [Threads -> Seq(Seqs)]
  <2>1. ASSUME ready[t] # <<>> PROVE Tail(ready[t]) \in Seq(Seqs)
    BY <1>2, <2>1
  <2> QED BY <1>2, <2>1
<1>4. UNCHANGED <<next_seq, pending, timer, batch, stale, lowest>>
  BY DEF buffer
<1> QED BY <1>2, <1>3, <1>4, InvOfRest

-----------------------------------------------------------------------------
(* How often a number is in the buffer and in the two lists *)

InBuffer(s) ==
    CountIn(ready[L], s) + CountIn(ready[H], s) + (IF s \in pending THEN 1 ELSE 0)

\* The counts are numbers.
LEMMA CountsAreNat ==
    ASSUME SharedTypeOK, NEW s
    PROVE  CountIn(ready[L], s) \in Nat /\ CountIn(ready[H], s) \in Nat /\ InBuffer(s) \in Nat
<1>1. CountIn(ready[L], s) \in Nat /\ CountIn(ready[H], s) \in Nat
  BY SharedTypes, PlacesAreFinite
<1> QED BY <1>1 DEF InBuffer

\* What one list holds more or less, the two of them do.
LEMMA OtherListRests ==
    ASSUME SharedTypeOK, NEW t \in Threads, NEW list \in Seq(Seqs), NEW s,
           ready' = [ready EXCEPT ![t] = list]
    PROVE  CountIn(ready'[L], s) + CountIn(ready'[H], s) + CountIn(ready[t], s)
             = CountIn(ready[L], s) + CountIn(ready[H], s) + CountIn(list, s)
<1>1. /\ Threads = {L, H} /\ L # H /\ ready \in [Threads -> Seq(Seqs)]
      /\ ready[L] \in Seq(Seqs) /\ ready[H] \in Seq(Seqs)
  BY SharedTypes
<1>2. CountIn(ready[L], s) \in Nat /\ CountIn(ready[H], s) \in Nat /\ CountIn(list, s) \in Nat
  BY <1>1, PlacesAreFinite
<1>3. CASE t = L
  <2>1. ready'[L] = list /\ ready'[H] = ready[H]
    BY <1>1, <1>3
  <2> QED BY <1>2, <1>3, <2>1
<1>4. CASE t = H
  <2>1. ready'[H] = list /\ ready'[L] = ready[L]
    BY <1>1, <1>4
  <2> QED BY <1>2, <1>4, <2>1
<1> QED BY <1>1, <1>3, <1>4

\* A round of push's loop adds the number it takes.
LEMMA InsertCounts ==
    ASSUME SharedInv, Insert, NEW s
    PROVE  InBuffer(s)' = InBuffer(s)
               + (IF s = Min(batch) /\ IsTaken(Min(batch)) THEN 1 ELSE 0)
<1> DEFINE m == Min(batch)
<1>1. /\ pending' = IF IsTaken(m) THEN pending \union {m} ELSE pending
      /\ ready' = ready
  BY InsertDoes
<1> HIDE DEF m
<1>2. (IF s \in pending' THEN 1 ELSE 0)
        = (IF s \in pending THEN 1 ELSE 0) + (IF s = m /\ IsTaken(m) THEN 1 ELSE 0)
  BY <1>1 DEF IsTaken
<1>3. CountIn(ready[L], s) \in Nat /\ CountIn(ready[H], s) \in Nat
  BY CountsAreNat DEF SharedInv
<1>4. InBuffer(s)' = CountIn(ready[L], s) + CountIn(ready[H], s)
                       + (IF s \in pending' THEN 1 ELSE 0)
  BY <1>1 DEF InBuffer
<1>5. InBuffer(s)' = InBuffer(s) + (IF s = m /\ IsTaken(m) THEN 1 ELSE 0)
  BY <1>2, <1>3, <1>4 DEF InBuffer
<1> QED BY <1>5 DEF m

\* The drain, of either thread, moves the number it pops.
LEMMA DrainCounts ==
    ASSUME SharedInv, NEW t \in Threads, Drain(t), NEW s
    PROVE  InBuffer(s)' = InBuffer(s)
<1>1. SharedTypeOK
  BY DEF SharedInv
<1>2. ready \in [Threads -> Seq(Seqs)] /\ pending \subseteq Seqs
  BY <1>1, SharedTypes
<1>3. ASSUME DrainPop(t) PROVE InBuffer(s)' = InBuffer(s)
  <2> DEFINE e == next_seq
             longer == Append(ready[t], e)
  <2>1. /\ e \in pending /\ e \in Seqs /\ pending' = pending \ {e}
        /\ ready' = [ready EXCEPT ![t] = longer]
        /\ longer \in Seq(Seqs) /\ ready[t] \in Seq(Seqs)
    BY <1>2, <1>3 DEF DrainPop
  <2>2. CountIn(longer, s) = CountIn(ready[t], s) + (IF e = s THEN 1 ELSE 0)
    <3> HIDE DEF e
    <3> QED BY <2>1, CountAppend
  <2>3. CountIn(ready[t], s) \in Nat
    BY <2>1, PlacesAreFinite
  <2> HIDE DEF e, longer
  <2>4. CountIn(ready'[L], s) + CountIn(ready'[H], s) + CountIn(ready[t], s)
          = CountIn(ready[L], s) + CountIn(ready[H], s) + CountIn(longer, s)
    BY <1>1, <2>1, OtherListRests
  <2>5. /\ CountIn(ready[L], s) \in Nat /\ CountIn(ready[H], s) \in Nat
        /\ CountIn(ready'[L], s) \in Nat /\ CountIn(ready'[H], s) \in Nat
    <3>1. SharedTypeOK'
      BY DrainInv DEF SharedInv
    <3>2. ready'[L] \in Seq(Seqs) /\ ready'[H] \in Seq(Seqs)
      BY <3>1 DEF SharedTypeOK, Threads
    <3> QED BY <1>1, <3>2, CountsAreNat, PlacesAreFinite
  <2>6. (IF s \in pending THEN 1 ELSE 0)
          = (IF s \in pending' THEN 1 ELSE 0) + (IF e = s THEN 1 ELSE 0)
    BY <2>1
  <2>7. InBuffer(s)' = CountIn(ready'[L], s) + CountIn(ready'[H], s)
                         + (IF s \in pending' THEN 1 ELSE 0)
    BY DEF InBuffer
  <2>8. InBuffer(s) = CountIn(ready[L], s) + CountIn(ready[H], s)
                        + (IF s \in pending THEN 1 ELSE 0)
    BY DEF InBuffer
  <2> QED BY <2>2, <2>3, <2>4, <2>5, <2>6, <2>7, <2>8
<1>4. ASSUME DrainAdvance(t) \/ DrainEnd(t) \/ Refresh(t) \/ Stamp(t)
      PROVE  InBuffer(s)' = InBuffer(s)
  <2>1. UNCHANGED <<pending, ready>>
    BY <1>4 DEF DrainAdvance, DrainEnd, Refresh, Stamp, buffer
  <2> QED BY <2>1 DEF InBuffer
<1> QED BY <1>3, <1>4 DEF Drain

\* A put moves the head of the thread's list to the end of another one.
LEMMA PutCounts ==
    ASSUME SharedTypeOK, NEW t \in Threads, ready[t] # <<>>, NEW q \in Seq(Seqs), NEW s,
           ready' = [ready EXCEPT ![t] = Tail(@)], pending' = pending
    PROVE  /\ Head(ready[t]) \in Seqs
           /\ CountIn(Append(q, Head(ready[t])), s) + InBuffer(s)' = CountIn(q, s) + InBuffer(s)
<1> DEFINE r == ready[t]
           h == Head(r)
           left == Tail(r)
<1>1. /\ r \in Seq(Seqs) /\ h \in Seqs /\ left \in Seq(Seqs)
      /\ ready' = [ready EXCEPT ![t] = left]
  <2>1. r \in Seq(Seqs) /\ r # <<>>
    BY SharedTypes
  <2>2. ready' = [ready EXCEPT ![t] = left]
    BY SharedTypes
  <2> HIDE DEF r
  <2>3. h \in Seqs /\ left \in Seq(Seqs)
    BY <2>1
  <2> QED BY <2>1, <2>2, <2>3
<1>2. CountIn(r, s) = CountIn(left, s) + (IF h = s THEN 1 ELSE 0)
  BY <1>1, CountTail
<1> HIDE DEF left, h
<1>3. CountIn(Append(q, h), s) = CountIn(q, s) + (IF h = s THEN 1 ELSE 0)
  BY <1>1, CountAppend
<1>4. CountIn(ready'[L], s) + CountIn(ready'[H], s) + CountIn(r, s)
        = CountIn(ready[L], s) + CountIn(ready[H], s) + CountIn(left, s)
  BY <1>1, OtherListRests
<1>5. /\ CountIn(ready[L], s) \in Nat /\ CountIn(ready[H], s) \in Nat
      /\ CountIn(ready'[L], s) \in Nat /\ CountIn(ready'[H], s) \in Nat
      /\ CountIn(r, s) \in Nat /\ CountIn(left, s) \in Nat /\ CountIn(q, s) \in Nat
  <2>1. ready'[L] \in Seq(Seqs) /\ ready'[H] \in Seq(Seqs)
    <3>1. ready' \in [Threads -> Seq(Seqs)]
      BY <1>1, SharedTypes
    <3> QED BY <3>1 DEF Threads
  <2> QED BY <1>1, <2>1, CountsAreNat, PlacesAreFinite
<1>6. InBuffer(s)' = CountIn(ready'[L], s) + CountIn(ready'[H], s)
                       + (IF s \in pending THEN 1 ELSE 0)
  BY DEF InBuffer
<1>7. InBuffer(s) = CountIn(ready[L], s) + CountIn(ready[H], s)
                      + (IF s \in pending THEN 1 ELSE 0)
  BY DEF InBuffer
<1> DEFINE a == CountIn(ready[L], s)
           b == CountIn(ready[H], s)
           c == CountIn(ready'[L], s)
           d == CountIn(ready'[H], s)
           l == CountIn(r, s)
           m == CountIn(left, s)
           k == CountIn(q, s)
           e == IF h = s THEN 1 ELSE 0
           p == IF s \in pending THEN 1 ELSE 0
<1>8. /\ a \in Nat /\ b \in Nat /\ c \in Nat /\ d \in Nat /\ l \in Nat
      /\ m \in Nat /\ k \in Nat /\ e \in Nat /\ p \in Nat
      /\ l = m + e /\ c + d + l = a + b + m
  BY <1>2, <1>4, <1>5
<1>9. InBuffer(s)' = c + d + p /\ InBuffer(s) = a + b + p /\ CountIn(Append(q, h), s) = k + e
  BY <1>3, <1>6, <1>7
<1>10. (k + e) + (c + d + p) = k + (a + b + p)
  <2> HIDE DEF a, b, c, d, l, m, k, e, p
  <2> QED BY <1>8
<1>11. CountIn(Append(q, h), s) + InBuffer(s)' = CountIn(q, s) + InBuffer(s)
  BY <1>9, <1>10
<1> HIDE DEF r
<1> QED BY <1>1, <1>11 DEF h, r

-----------------------------------------------------------------------------
(* A listener that is alone with the buffer *)

\* The number that is put next.
ToPut == Upcoming - Len(ready[L])

\* The listener holds nothing that it has passed, an event in hand only while
\* it inserts, and the numbers it has popped follow each other up to the one
\* it tests next.  When it is done the number it waits for is missing, and the
\* timer tells of the gap.
LoneShape ==
    /\ pc[H] \in {"idle", "status", "dead"} /\ ready[H] = <<>>
    /\ Upcoming \in 1..(MaxSeq + 1)
    /\ \A s \in pending : s >= Upcoming
    /\ pc[L] # "insert" => batch = {}
    /\ pc[L] \in {"idle", "insert", "status", "dead"} => ready[L] = <<>>
    /\ \A i \in 1..Len(ready[L]) : ready[L][i] = ToPut + i - 1
    /\ pc[L] \notin {"insert", "drain", "advance"} => next_seq \notin pending
    /\ pc[L] = "stamp" => pending # {}
    /\ pc[L] \notin {"insert", "drain", "advance", "refresh", "stamp"} =>
           (timer <=> pending # {})

\* A new buffer that starts at a number.
LEMMA NewLone ==
    ASSUME NEW start \in 1..(MaxSeq + 1), NewSharedBuffer(start)
    PROVE  LoneShape /\ Upcoming = start /\ ToPut = start
<1>1. /\ next_seq = start /\ pending = {} /\ ~timer /\ pc[L] = "idle" /\ pc[H] = "idle"
      /\ batch = {} /\ ready[L] = <<>> /\ ready[H] = <<>>
  BY DEF NewSharedBuffer, Threads
<1>2. Upcoming = start
  BY <1>1 DEF Upcoming, At
<1>3. Len(ready[L]) = 0 /\ start \in Nat
  BY <1>1, MaxSeqAssumption
<1>4. ToPut = start
  BY <1>2, <1>3 DEF ToPut
<1> QED BY <1>1, <1>2, <1>3, <1>4 DEF LoneShape

\* Steps that the buffer does not notice: the puts are over, or the heartbeat
\* goes about its own.
LEMMA LoneMoves ==
    ASSUME LoneShape, UNCHANGED <<next_seq, pending, timer, batch, ready>>,
           pc'[H] \in {"idle", "status", "dead"},
           \/ pc'[L] = pc[L]
           \/ /\ pc[L] \in {"put", "status"} /\ ready[L] = <<>>
              /\ pc'[L] \in {"idle", "status", "dead"}
    PROVE  LoneShape' /\ Upcoming' = Upcoming /\ ToPut' = ToPut
<1>1. Upcoming' = Upcoming
  BY DEF Upcoming, At
<1>2. ToPut' = ToPut
  BY <1>1 DEF ToPut
<1> QED BY <1>1, <1>2 DEF LoneShape

\* The listener is called.
LEMMA LoneCall ==
    ASSUME SharedTypeOK, LoneShape, NEW S, CallPush(S)
    PROVE  /\ LoneShape' /\ Upcoming' = Upcoming /\ ToPut' = ToPut
           /\ batch' = S /\ batch = {} /\ UNCHANGED <<next_seq, pending, timer, ready>>
<1>1. /\ pc[L] = "idle" /\ pc'[L] = "insert" /\ pc'[H] = pc[H] /\ batch' = S
      /\ UNCHANGED <<next_seq, pending, timer, ready>>
  BY SharedTypes DEF CallPush, At, Goto, buffer
<1>2. Upcoming' = Upcoming
  BY <1>1 DEF Upcoming, At
<1>3. ToPut' = ToPut
  BY <1>1, <1>2 DEF ToPut
<1> QED BY <1>1, <1>2, <1>3 DEF LoneShape

\* The listener puts the head of its list, which is the next number.
LEMMA LonePuts ==
    ASSUME SharedTypeOK, LoneShape, pc[L] = "put", ready[L] # <<>>,
           ready' = [ready EXCEPT ![L] = Tail(@)],
           UNCHANGED <<next_seq, pending, timer, pc, batch>>
    PROVE  /\ LoneShape' /\ Upcoming' = Upcoming
           /\ Head(ready[L]) = ToPut /\ ToPut' = ToPut + 1 /\ ready'[L] = Tail(ready[L])
           /\ Len(ready'[L]) = Len(ready[L]) - 1 /\ Len(ready[L]) \in Nat
<1> DEFINE r == ready[L]
           left == Tail(r)
<1>1. /\ ready'[L] = left /\ ready'[H] = ready[H] /\ r \in Seq(Seqs)
  BY SharedTypes
<1>2. /\ Len(r) \in Nat /\ Len(r) > 0 /\ Head(r) = r[1] /\ Len(left) = Len(r) - 1
      /\ \A i \in 1..(Len(r) - 1) : left[i] = r[i + 1]
  <2> HIDE DEF r
  <2>1. r # <<>>
    BY DEF r
  <2> QED BY <1>1, <2>1
<1>3. Upcoming' = Upcoming /\ Upcoming \in Nat
  BY SharedTypes DEF Upcoming, At
<1>4. \A i \in 1..Len(r) : r[i] = ToPut + i - 1
  BY DEF LoneShape
<1>5. ToPut = Upcoming - Len(r)
  BY DEF ToPut
<1> HIDE DEF left
<1>6. ToPut' = Upcoming - Len(left)
  BY <1>1, <1>3 DEF ToPut
<1> HIDE DEF r
<1>7. ToPut' = ToPut + 1
  BY <1>2, <1>3, <1>5, <1>6
<1>8. r[1] = ToPut
  <2>1. 1 \in 1..Len(r) /\ ToPut \in Int
    BY <1>2, <1>3, <1>5
  <2> QED BY <1>4, <2>1
<1>9. \A i \in 1..Len(left) : left[i] = ToPut' + i - 1
  <2> TAKE i \in 1..Len(left)
  <2>1. i \in 1..(Len(r) - 1) /\ i + 1 \in 1..Len(r) /\ ToPut \in Int
    BY <1>2, <1>3, <1>5
  <2>2. left[i] = r[i + 1] /\ r[i + 1] = ToPut + (i + 1) - 1
    BY <1>2, <1>4, <2>1
  <2> QED BY <1>7, <2>1, <2>2
<1>10. LoneShape'
  <2>1. \A i \in 1..Len(ready'[L]) : ready'[L][i] = ToPut' + i - 1
    BY <1>1, <1>9
  <2> QED BY <1>1, <1>3, <2>1 DEF LoneShape
<1> QED BY <1>1, <1>2, <1>3, <1>7, <1>8, <1>10 DEF r, left

\* A round of push's loop and the steps of the drain: the numbers already put
\* stay so, and what was held or in hand is held, in hand, or passed.
LEMMA LoneInserts ==
    ASSUME SharedInv, LoneShape, Insert
    PROVE  /\ LoneShape' /\ Upcoming' = Upcoming /\ ToPut' = ToPut
           /\ \A s \in pending \union batch : s \in pending' \union batch' \/ s < Upcoming'
<1> DEFINE m == Min(batch)
<1>1. /\ m \in batch /\ m \in Seqs /\ pc[L] = "insert"
      /\ pending' = IF IsTaken(m) THEN pending \union {m} ELSE pending
      /\ batch' = batch \ {m}
      /\ pc' = IF batch' = {} THEN [pc EXCEPT ![L] = "drain"] ELSE pc
      /\ UNCHANGED <<next_seq, timer, ready>>
  BY InsertDoes
<1> HIDE DEF m
<1>2. /\ next_seq \in Nat /\ Seqs \subseteq Nat /\ L \in Threads /\ H \in Threads /\ L # H
      /\ pc \in [Threads -> Places]
  BY SharedTypes DEF SharedInv, Threads
<1>3. pc'[H] = pc[H] /\ pc'[L] = IF batch' = {} THEN "drain" ELSE "insert"
  BY <1>1, <1>2
<1>4. Upcoming' = next_seq /\ Upcoming = next_seq
  BY <1>1, <1>3 DEF Upcoming, At
<1>5. ToPut' = ToPut /\ Len(ready'[L]) = Len(ready[L])
  BY <1>1, <1>4 DEF ToPut
<1>6. \A s \in pending' : s >= next_seq
  BY <1>1, <1>4 DEF LoneShape, IsTaken
<1>7. \A s \in pending \union batch : s \in pending' \union batch' \/ s < next_seq
  <2>1. IsTaken(m) \/ m \in pending \/ m < next_seq
    BY <1>1, <1>2 DEF IsTaken
  <2> QED BY <1>1, <2>1
<1>8. LoneShape'
  <2>1. ready'[L] = <<>> /\ ready'[H] = <<>>
    BY <1>1 DEF LoneShape
  <2>2. \A i \in 1..Len(ready'[L]) : ready'[L][i] = ToPut' + i - 1
    BY <1>1, <1>5 DEF LoneShape
  <2> QED BY <1>3, <1>4, <1>6, <2>1, <2>2 DEF LoneShape
<1> QED BY <1>4, <1>5, <1>7, <1>8

LEMMA LoneDrains ==
    ASSUME SharedInv, LoneShape, Drain(L)
    PROVE  /\ LoneShape' /\ Upcoming' \in Upcoming..(MaxSeq + 1) /\ ToPut' = ToPut
           /\ \A s \in pending : s \in pending' \/ s < Upcoming'
<1>1. /\ SharedTypeOK /\ L \in Threads /\ H \in Threads /\ L # H
      /\ next_seq \in Nat /\ pending \subseteq Seqs /\ Seqs \subseteq Nat /\ MaxSeq \in Nat
      /\ pc \in [Threads -> Places] /\ ready \in [Threads -> Seq(Seqs)]
  BY SharedTypes DEF SharedInv, Threads
<1>2. /\ Upcoming \in 1..(MaxSeq + 1) /\ Upcoming \in Upcoming..(MaxSeq + 1)
  BY <1>1 DEF LoneShape
<1>3. ASSUME DrainPop(L)
      PROVE  /\ LoneShape' /\ Upcoming' \in Upcoming..(MaxSeq + 1) /\ ToPut' = ToPut
             /\ \A s \in pending : s \in pending' \/ s < Upcoming'
  <2> DEFINE r == ready[L]
             longer == Append(r, next_seq)
  <2>1. /\ pc[L] = "drain" /\ pc' = [pc EXCEPT ![L] = "advance"]
        /\ next_seq \in pending /\ next_seq \in Seqs /\ pending' = pending \ {next_seq}
        /\ ready' = [ready EXCEPT ![L] = longer]
        /\ UNCHANGED <<next_seq, batch>>
    BY <1>1, <1>3 DEF DrainPop, At, Goto
  <2>2. pc'[L] = "advance" /\ pc'[H] = pc[H] /\ ready'[L] = longer /\ ready'[H] = ready[H]
    BY <1>1, <2>1
  <2>3. Upcoming = next_seq /\ Upcoming' = next_seq + 1
    BY <2>1, <2>2 DEF Upcoming, At
  <2>4. next_seq + 1 \in 1..(MaxSeq + 1) /\ next_seq + 1 \in next_seq..(MaxSeq + 1)
    BY <1>1, <2>1 DEF Seqs
  <2>5. \A x \in pending' : x >= next_seq + 1
    <3>1. \A x \in pending : x \in Int /\ x >= next_seq
      BY <1>1, <2>3 DEF LoneShape
    <3> QED BY <1>1, <2>1, <3>1
  <2>6. \A s \in pending : s \in pending' \/ s < next_seq + 1
    BY <1>1, <2>1
  <2>7. /\ r \in Seq(Seqs) /\ Len(r) \in Nat
        /\ \A i \in 1..Len(r) : r[i] = ToPut + i - 1
        /\ ToPut = next_seq - Len(r)
    BY <1>1, <2>3 DEF LoneShape, ToPut
  <2> HIDE DEF r
  <2>8. /\ Len(longer) = Len(r) + 1 /\ longer[Len(r) + 1] = next_seq
        /\ \A i \in 1..Len(r) : longer[i] = r[i]
    BY <2>1, <2>7
  <2> HIDE DEF longer
  <2>9. ToPut' = (next_seq + 1) - Len(longer)
    BY <2>2, <2>3 DEF ToPut
  <2>10. ToPut' = ToPut
    BY <1>1, <2>7, <2>8, <2>9
  <2>11. \A i \in 1..Len(longer) : longer[i] = ToPut + i - 1
    <3> TAKE i \in 1..Len(longer)
    <3>1. CASE i = Len(r) + 1
      <4>1. next_seq = ToPut + i - 1
        BY <1>1, <2>7, <3>1
      <4> QED BY <2>8, <3>1, <4>1
    <3>2. CASE i # Len(r) + 1
      <4>1. i \in 1..Len(r)
        BY <2>7, <2>8, <3>2
      <4> QED BY <2>7, <2>8, <4>1
    <3> QED BY <3>1, <3>2
  <2>12. LoneShape'
    <3>1. \A i \in 1..Len(ready'[L]) : ready'[L][i] = ToPut' + i - 1
      BY <2>2, <2>10, <2>11
    <3>2. batch' = {}
      BY <2>1 DEF LoneShape
    <3> QED BY <2>2, <2>3, <2>4, <2>5, <3>1, <3>2 DEF LoneShape
  <2> QED BY <2>3, <2>4, <2>6, <2>10, <2>12
\* The other steps pop nothing.
<1>4. ASSUME UNCHANGED <<pending, batch, ready>>, Upcoming' = Upcoming
      PROVE  /\ Upcoming' \in Upcoming..(MaxSeq + 1) /\ ToPut' = ToPut
             /\ \A s \in pending : s \in pending' \/ s < Upcoming'
             /\ \A i \in 1..Len(ready'[L]) : ready'[L][i] = ToPut' + i - 1
             /\ \A s \in pending' : s >= Upcoming'
  <2>1. ToPut' = ToPut
    BY <1>4 DEF ToPut
  <2> QED BY <1>2, <1>4, <2>1 DEF LoneShape
<1>5. ASSUME DrainAdvance(L)
      PROVE  /\ LoneShape' /\ Upcoming' = Upcoming /\ UNCHANGED <<pending, batch, ready>>
  <2>1. /\ pc[L] = "advance" /\ pc' = [pc EXCEPT ![L] = "drain"]
        /\ next_seq' = next_seq + 1 /\ UNCHANGED <<pending, batch, ready>>
    BY <1>5 DEF DrainAdvance, At, Goto
  <2>2. pc'[L] = "drain" /\ pc'[H] = pc[H]
    BY <1>1, <2>1
  <2>3. Upcoming' = Upcoming
    BY <2>1, <2>2 DEF Upcoming, At
  <2> QED BY <1>4, <2>1, <2>2, <2>3 DEF LoneShape
<1>6. ASSUME DrainEnd(L)
      PROVE  /\ LoneShape' /\ Upcoming' = Upcoming /\ UNCHANGED <<pending, batch, ready>>
  <2>1. /\ pc[L] = "drain" /\ pc' = [pc EXCEPT ![L] = "refresh"]
        /\ next_seq \notin pending /\ UNCHANGED <<next_seq, pending, batch, ready>>
    BY <1>6 DEF DrainEnd, At, Goto, buffer
  <2>2. pc'[L] = "refresh" /\ pc'[H] = pc[H]
    BY <1>1, <2>1
  <2>3. Upcoming' = Upcoming
    BY <2>1, <2>2 DEF Upcoming, At
  <2> QED BY <1>4, <2>1, <2>2, <2>3 DEF LoneShape
<1>7. ASSUME Refresh(L)
      PROVE  /\ LoneShape' /\ Upcoming' = Upcoming /\ UNCHANGED <<pending, batch, ready>>
  <2>1. /\ pc[L] = "refresh"
        /\ timer' = (timer /\ GapOpen)
        /\ pc' = [pc EXCEPT ![L] = IF GapOpen /\ ~timer THEN "stamp" ELSE "put"]
        /\ UNCHANGED <<next_seq, pending, batch, ready>>
    BY <1>7 DEF Refresh, At, Goto
  <2>2. pc'[L] = (IF GapOpen /\ ~timer THEN "stamp" ELSE "put") /\ pc'[H] = pc[H]
    BY <1>1, <2>1
  <2>3. Upcoming' = Upcoming
    BY <2>1, <2>2 DEF Upcoming, At
  <2>4. next_seq \notin pending
    BY <2>1 DEF LoneShape
  <2>5. GapOpen <=> pending # {}
    BY <2>4 DEF GapOpen
  <2>6. /\ pc'[L] = "stamp" => pending' # {}
        /\ pc'[L] # "stamp" => (timer' <=> pending' # {})
    <3>1. UNCHANGED pending
      BY <2>1
    <3>2. GapOpen /\ ~timer => pending' # {}
      BY <2>5, <3>1
    <3>3. ~(GapOpen /\ ~timer) => (timer' <=> pending' # {})
      <4>1. timer' <=> timer /\ GapOpen
        BY <2>1
      <4> QED BY <2>5, <3>1, <4>1, Zenon
    <3>4. pc'[L] = "stamp" <=> GapOpen /\ ~timer
      BY <2>2
    <3> QED BY <3>2, <3>3, <3>4, Zenon
  <2> QED BY <1>4, <2>1, <2>2, <2>3, <2>4, <2>6 DEF LoneShape
<1>8. ASSUME Stamp(L)
      PROVE  /\ LoneShape' /\ Upcoming' = Upcoming /\ UNCHANGED <<pending, batch, ready>>
  <2>1. /\ pc[L] = "stamp" /\ timer' = TRUE /\ pc' = [pc EXCEPT ![L] = "put"]
        /\ UNCHANGED <<next_seq, pending, batch, ready>>
    BY <1>8 DEF Stamp, At, Goto
  <2>2. pc'[L] = "put" /\ pc'[H] = pc[H]
    BY <1>1, <2>1
  <2>3. Upcoming' = Upcoming
    BY <2>1, <2>2 DEF Upcoming, At
  <2>4. pending # {} /\ next_seq \notin pending
    BY <2>1 DEF LoneShape
  <2> QED BY <1>4, <2>1, <2>2, <2>3, <2>4 DEF LoneShape
<1> QED BY <1>3, <1>4, <1>5, <1>6, <1>7, <1>8 DEF Drain
=============================================================================
