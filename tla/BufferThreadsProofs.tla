------------------------- MODULE BufferThreadsProofs -------------------------
(***************************************************************************)
(* For every bound, every set of events and wherever the two threads are   *)
(* switched: what was put into the dictionary is there or was handed out,  *)
(* exactly once, and a listener that is alone fills the queue in order and *)
(* implements CommandOrdering, where a call of push is one step.           *)
(***************************************************************************)
EXTENDS BufferThreads, SharedBufferProofs

-----------------------------------------------------------------------------
(* Types *)

\* A number is taken once per event that carried it, at most.
TakenWasDelivered ==
    \A s \in Seqs : taken[s] + (IF s \in batch THEN 1 ELSE 0) <= deliveries[s]

CountsOK ==
    /\ recovery_on \in BOOLEAN
    /\ queue \in Seq(Seqs)
    /\ deliveries \in [Seqs -> 0..MaxDeliveries]
    /\ taken \in [Seqs -> 0..MaxDeliveries]

TypeInv == SharedInv /\ CountsOK /\ TakenWasDelivered

\* The invariant holds of an empty buffer.
LEMMA InitTypes == Init => TypeInv
<1> SUFFICES ASSUME Init PROVE TypeInv
  OBVIOUS
<1>1. SharedInv
  BY NewSharedInv DEF Init
<1>2. CountsOK
  BY MaxDeliveriesAssumption DEF Init, CountsOK
<1>3. TakenWasDelivered
  BY DEF Init, TakenWasDelivered, NewSharedBuffer
<1> QED BY <1>1, <1>2, <1>3 DEF TypeInv

\* Steps that take nothing.
LEMMA CountsRest ==
    ASSUME TypeInv, UNCHANGED <<recovery_on, batch, deliveries, taken>>, queue' \in Seq(Seqs)
    PROVE  CountsOK' /\ TakenWasDelivered'
BY DEF TypeInv, CountsOK, TakenWasDelivered

\* Every step of either thread keeps it.
LEMMA StepTypes == TypeInv /\ [Next]_vars => TypeInv'
<1> SUFFICES ASSUME TypeInv, [Next]_vars PROVE TypeInv'
  OBVIOUS
<1> USE MaxDeliveriesAssumption
<1>1. /\ SharedInv /\ CountsOK /\ L \in Threads /\ H \in Threads
      /\ batch \subseteq Seqs /\ queue \in Seq(Seqs)
      /\ \A s \in Seqs : taken[s] \in Nat /\ deliveries[s] \in 0..MaxDeliveries
      /\ deliveries \in [Seqs -> 0..MaxDeliveries] /\ taken \in [Seqs -> 0..MaxDeliveries]
  BY SharedTypes DEF TypeInv, SharedInv, CountsOK, Threads
<1>2. recovery_on' = recovery_on
  BY DEF Next, vars
<1>3. ASSUME NEW S \in (SUBSET Seqs) \ {{}}, Deliver(S) PROVE TypeInv'
  <2>1. /\ CallPush(S) /\ batch' = S /\ S # {} /\ S \subseteq Seqs
        /\ deliveries' = [s \in Seqs |-> deliveries[s] + (IF s \in S THEN 1 ELSE 0)]
        /\ \A s \in S : deliveries[s] < MaxDeliveries
        /\ UNCHANGED <<queue, taken>>
    BY <1>3 DEF Deliver, CallPush
  <2>2. SharedInv'
    BY <1>1, <2>1, CallPushInv
  <2>3. \A s \in Seqs : deliveries[s] + (IF s \in S THEN 1 ELSE 0) \in 0..MaxDeliveries
    <3> TAKE s \in Seqs
    <3>1. deliveries[s] \in 0..MaxDeliveries /\ (s \in S => deliveries[s] < MaxDeliveries)
      BY <1>1, <2>1
    <3> QED BY <3>1
  <2>4. CountsOK'
    BY <1>1, <1>2, <2>1, <2>3 DEF CountsOK
  <2>5. TakenWasDelivered'
    <3> SUFFICES ASSUME NEW s \in Seqs
                 PROVE  taken'[s] + (IF s \in S THEN 1 ELSE 0) <= deliveries'[s]
      BY <2>1 DEF TakenWasDelivered
    <3>1. taken[s] \in Nat /\ deliveries[s] \in Nat
      BY <1>1
    <3>2. taken[s] + (IF s \in batch THEN 1 ELSE 0) <= deliveries[s]
      BY DEF TypeInv, TakenWasDelivered
    <3>3. taken'[s] = taken[s] /\ deliveries'[s] = deliveries[s] + (IF s \in S THEN 1 ELSE 0)
      BY <2>1
    <3> QED BY <3>1, <3>2, <3>3
  <2> QED BY <2>2, <2>4, <2>5 DEF TypeInv
<1>4. ASSUME Take PROVE TypeInv'
  <2> DEFINE s == Min(batch)
  <2>1. /\ s \in batch /\ s \in Seqs /\ batch' = batch \ {s}
        /\ taken' = [taken EXCEPT ![s] = @ + (IF IsTaken(s) THEN 1 ELSE 0)]
        /\ UNCHANGED <<queue, deliveries>> /\ SharedInv'
    BY <1>1, <1>4, InsertDoes, InsertInv DEF Take
  <2> HIDE DEF s
  <2>2. taken[s] + 1 <= deliveries[s] /\ deliveries[s] <= MaxDeliveries
    BY <1>1, <2>1 DEF TypeInv, TakenWasDelivered
  <2>3. taken' \in [Seqs -> 0..MaxDeliveries]
    BY <1>1, <2>1, <2>2
  <2>4. CountsOK'
    BY <1>1, <1>2, <2>1, <2>3 DEF CountsOK
  <2>5. TakenWasDelivered'
    <3>1. \A x \in Seqs : /\ taken[x] \in Nat /\ deliveries[x] \in Nat
                          /\ taken[x] + (IF x \in batch THEN 1 ELSE 0) <= deliveries[x]
      BY <1>1 DEF TypeInv, TakenWasDelivered
    <3>2. \A x \in Seqs : taken'[x] = taken[x] + (IF x = s /\ IsTaken(s) THEN 1 ELSE 0)
      BY <1>1, <2>1
    <3> QED BY <2>1, <3>1, <3>2 DEF TakenWasDelivered
  <2> QED BY <2>1, <2>4, <2>5 DEF TypeInv
<1>5. ASSUME NEW t \in Threads, Within(Drain(t)) PROVE TypeInv'
  <2>1. SharedInv' /\ UNCHANGED <<batch, queue, deliveries, taken>>
    BY <1>1, <1>5, DrainInv DEF Within
  <2> QED BY <1>1, <1>2, <2>1, CountsRest DEF TypeInv
<1>6. ASSUME Within(Recover) PROVE TypeInv'
  <2>1. SharedInv' /\ UNCHANGED <<batch, queue, deliveries, taken>>
    BY <1>1, <1>6, RecoverInv DEF Within
  <2> QED BY <1>1, <1>2, <2>1, CountsRest DEF TypeInv
<1>7. ASSUME NEW t \in Threads, Put(t) PROVE TypeInv'
  <2>1. UNCHANGED <<buffer, batch, stale, lowest, deliveries, taken>>
    BY <1>7 DEF Put
  <2>2. CASE ready[t] = <<>>
    <3>1. Goto(t, "idle") /\ UNCHANGED <<ready, queue>> /\ "idle" \in Places \ {"insert"}
      BY <1>7, <2>2 DEF Put, Places
    <3>2. SharedInv'
      BY <1>1, <2>1, <3>1, PutInv
    <3> QED BY <1>1, <1>2, <2>1, <3>1, <3>2, CountsRest DEF TypeInv
  <2>3. CASE ready[t] # <<>>
    <3>1. /\ queue' = Append(queue, Head(ready[t])) /\ pc' = pc
          /\ ready' = [ready EXCEPT ![t] = Tail(@)]
      BY <1>7, <2>3 DEF Put
    <3>2. SharedInv'
      BY <1>1, <2>1, <2>3, <3>1, PutInv
    <3>3. queue' \in Seq(Seqs)
      <4>1. ready[t] \in Seq(Seqs)
        BY SharedTypes DEF TypeInv, SharedInv
      <4> QED BY <1>1, <2>3, <3>1, <4>1
    <3> QED BY <1>1, <1>2, <2>1, <3>2, <3>3, CountsRest DEF TypeInv
  <2> QED BY <2>2, <2>3
<1>8. CASE UNCHANGED vars
  BY <1>8 DEF vars, sharedVars, buffer, TypeInv, SharedInv, SharedTypeOK, InsertHasWork,
              CountsOK, TakenWasDelivered
<1>9. Within(Recover \/ Drain(H)) => Within(Recover) \/ Within(Drain(H))
  BY DEF Within
<1> QED BY <1>1, <1>3, <1>4, <1>5, <1>6, <1>7, <1>8, <1>9 DEF Next, Listener, Heartbeat

\* The buffer, the threads and their lists are well formed wherever the
\* threads are switched.
THEOREM TypeCorrect == Spec => []TypeOK
<1>1. TypeInv => TypeOK
  BY DEF TypeInv, SharedInv, CountsOK, TypeOK
<1> QED BY <1>1, InitTypes, StepTypes, PTL DEF Spec

-----------------------------------------------------------------------------
(* Nothing is lost or doubled between the threads *)

\* What is in the buffer and the lists, and what is in the queue.
LEMMA ConservedIs ==
    TypeInv => (TakenIsConserved <=>
                    \A s \in Seqs : taken[s] = CountIn(queue, s) + InBuffer(s))
<1> SUFFICES ASSUME TypeInv
             PROVE  TakenIsConserved <=>
                        \A s \in Seqs : taken[s] = CountIn(queue, s) + InBuffer(s)
  OBVIOUS
<1>1. ASSUME NEW s \in Seqs
      PROVE  HandedOut(s) + (IF s \in pending THEN 1 ELSE 0) = CountIn(queue, s) + InBuffer(s)
  <2>1. CountIn(ready[L], s) \in Nat /\ CountIn(ready[H], s) \in Nat
    BY CountsAreNat DEF TypeInv, SharedInv
  <2>2. CountIn(queue, s) \in Nat
    BY PlacesAreFinite DEF TypeInv, CountsOK
  <2> QED BY <2>1, <2>2 DEF HandedOut, InBuffer
<1> QED BY <1>1 DEF TakenIsConserved

\* Every step conserves what was taken.
LEMMA StepConserved ==
    TypeInv /\ TakenIsConserved /\ [Next]_vars => TakenIsConserved'
<1> SUFFICES ASSUME TypeInv, TakenIsConserved, [Next]_vars PROVE TakenIsConserved'
  OBVIOUS
<1>1. /\ SharedInv /\ SharedTypeOK /\ L \in Threads /\ H \in Threads
      /\ queue \in Seq(Seqs) /\ taken \in [Seqs -> 0..MaxDeliveries]
  BY DEF TypeInv, SharedInv, CountsOK, Threads
<1>2. \A s \in Seqs : taken[s] = CountIn(queue, s) + InBuffer(s)
  BY ConservedIs
<1> SUFFICES ASSUME NEW s \in Seqs
             PROVE  taken'[s] = CountIn(queue', s) + InBuffer(s)'
  <2>1. queue' \in Seq(Seqs) /\ ready'[L] \in Seq(Seqs) /\ ready'[H] \in Seq(Seqs)
    <3>1. TypeInv'
      BY StepTypes
    <3> QED BY <1>1, <3>1 DEF TypeInv, SharedInv, SharedTypeOK, CountsOK
  <2>2. ASSUME NEW s \in Seqs
        PROVE  HandedOut(s)' + (IF s \in pending' THEN 1 ELSE 0)
                 = CountIn(queue', s) + InBuffer(s)'
    <3>1. /\ CountIn(queue', s) \in Nat
          /\ CountIn(ready'[L], s) \in Nat /\ CountIn(ready'[H], s) \in Nat
      BY <2>1, PlacesAreFinite
    <3> QED BY <3>1 DEF HandedOut, InBuffer
  <2> QED BY <2>2 DEF TakenIsConserved
<1>4. InBuffer(s) \in Nat /\ CountIn(queue, s) \in Nat /\ taken[s] = CountIn(queue, s) + InBuffer(s)
  BY <1>1, <1>2, CountsAreNat, PlacesAreFinite
<1>5. CASE Take
  <2> DEFINE m == Min(batch)
             one == IF s = m /\ IsTaken(m) THEN 1 ELSE 0
  <2>1. /\ Insert /\ queue' = queue
        /\ taken' = [taken EXCEPT ![m] = @ + (IF IsTaken(m) THEN 1 ELSE 0)]
    BY <1>5 DEF Take
  <2>2. InBuffer(s)' = InBuffer(s) + one
    BY <1>1, <2>1, InsertCounts
  <2>3. taken'[s] = taken[s] + one
    <3> HIDE DEF m
    <3>1. taken[s] \in Nat
      BY <1>1, MaxDeliveriesAssumption
    <3> QED BY <1>1, <2>1, <3>1
  <2>4. one \in Nat
    OBVIOUS
  <2> HIDE DEF one
  <2> QED BY <1>4, <2>1, <2>2, <2>3, <2>4
<1>6. ASSUME NEW t \in Threads, Within(Drain(t))
      PROVE  taken'[s] = CountIn(queue', s) + InBuffer(s)'
  <2>1. Drain(t) /\ UNCHANGED <<queue, taken>>
    BY <1>6 DEF Within
  <2>2. InBuffer(s)' = InBuffer(s)
    BY <1>1, <2>1, DrainCounts
  <2> QED BY <1>4, <2>1, <2>2
<1>7. ASSUME NEW t \in Threads, Put(t)
      PROVE  taken'[s] = CountIn(queue', s) + InBuffer(s)'
  <2>1. UNCHANGED <<pending, taken>>
    BY <1>7 DEF Put, buffer
  <2>2. CASE ready[t] = <<>>
    <3>1. UNCHANGED <<queue, ready>>
      BY <1>7, <2>2 DEF Put
    <3> QED BY <1>4, <2>1, <3>1 DEF InBuffer
  <2>3. CASE ready[t] # <<>>
    <3>1. queue' = Append(queue, Head(ready[t])) /\ ready' = [ready EXCEPT ![t] = Tail(@)]
      BY <1>7, <2>3 DEF Put
    <3>2. CountIn(queue', s) + InBuffer(s)' = CountIn(queue, s) + InBuffer(s)
      BY <1>1, <2>1, <2>3, <3>1, PutCounts
    <3> QED BY <1>4, <2>1, <3>2
  <2> QED BY <2>2, <2>3
<1>8. ASSUME UNCHANGED <<pending, ready, queue, taken>>
      PROVE  taken'[s] = CountIn(queue', s) + InBuffer(s)'
  BY <1>4, <1>8 DEF InBuffer
<1>9. ASSUME NEW S, Deliver(S) PROVE UNCHANGED <<pending, ready, queue, taken>>
  BY <1>9 DEF Deliver, CallPush, buffer
<1>10. CASE Within(Recover)
  <2>1. UNCHANGED <<pending, ready, queue, taken>>
    BY <1>1, <1>10, RecoverInv DEF Within
  <2> QED BY <1>8, <2>1
<1>11. CASE UNCHANGED vars
  <2>1. UNCHANGED <<pending, ready, queue, taken>>
    BY <1>11 DEF vars, sharedVars, buffer
  <2> QED BY <1>8, <2>1
<1>12. Within(Recover \/ Drain(H)) => Within(Recover) \/ Within(Drain(H))
  BY DEF Within
<1> QED BY <1>1, <1>5, <1>6, <1>7, <1>8, <1>9, <1>10, <1>11, <1>12
        DEF Next, Listener, Heartbeat

\* At first nothing was taken and nothing is held.
LEMMA TakenAtFirst == Init => TakenIsConserved
BY CountEmpty DEF Init, NewSharedBuffer, TakenIsConserved, HandedOut, Threads, L, H

\* Whatever the switches, each insertion into the dictionary is still there or
\* was handed out by one of the two drain loops, exactly once.
THEOREM NothingLostOrDoubled == Spec => []TakenIsConserved
<1>1. TypeInv /\ TakenIsConserved /\ [Next]_vars => (TypeInv /\ TakenIsConserved)'
  BY StepTypes, StepConserved
<1> QED BY <1>1, InitTypes, TakenAtFirst, PTL DEF Spec

-----------------------------------------------------------------------------
(* A listener that is alone *)

\* With recovery off the heartbeat leaves the buffer alone, and what was put
\* are the numbers before the one that is put next, each in its place.
LoneInv ==
    ~recovery_on =>
        /\ LoneShape
        /\ Len(queue) = ToPut - 1
        /\ \A i \in DOMAIN queue : queue[i] = i

\* At first there is nothing to put in order.
LEMMA LoneAtFirst == Init => LoneInv
<1> SUFFICES ASSUME Init PROVE LoneInv
  OBVIOUS
<1>1. 1 \in 1..(MaxSeq + 1)
  BY MaxSeqAssumption
<1>2. LoneShape /\ ToPut = 1
  BY <1>1, NewLone DEF Init
<1>3. queue = <<>>
  BY DEF Init
<1> QED BY <1>2, <1>3 DEF LoneInv

\* Where the listener is in its loop, given that it is alone.
LEMMA StepLone == TypeInv /\ LoneInv /\ [Next]_vars => LoneInv'
<1> SUFFICES ASSUME TypeInv, LoneInv, [Next]_vars PROVE LoneInv'
  OBVIOUS
<1>0. recovery_on' = recovery_on
  BY DEF Next, vars
<1> SUFFICES ASSUME ~recovery_on PROVE LoneInv'
  BY <1>0 DEF LoneInv
<1>1. /\ SharedInv /\ SharedTypeOK /\ DOMAIN pc = Threads /\ L \in Threads /\ H \in Threads
      /\ L # H /\ queue \in Seq(Seqs)
  BY SharedTypes DEF TypeInv, SharedInv, CountsOK
<1>2. LoneShape /\ Len(queue) = ToPut - 1 /\ \A i \in DOMAIN queue : queue[i] = i
  BY DEF LoneInv
<1>3. ASSUME NEW S, Deliver(S) PROVE LoneInv'
  <2>1. LoneShape' /\ ToPut' = ToPut /\ queue' = queue
    BY <1>1, <1>2, <1>3, LoneCall DEF Deliver
  <2> QED BY <1>2, <2>1 DEF LoneInv
<1>4. CASE Take
  <2>1. LoneShape' /\ ToPut' = ToPut /\ queue' = queue
    BY <1>1, <1>2, <1>4, LoneInserts DEF Take
  <2> QED BY <1>2, <2>1 DEF LoneInv
<1>5. CASE Within(Drain(L))
  <2>1. LoneShape' /\ ToPut' = ToPut /\ queue' = queue
    BY <1>1, <1>2, <1>5, LoneDrains DEF Within
  <2> QED BY <1>2, <2>1 DEF LoneInv
<1>6. CASE Put(L)
  <2>1. pc[L] = "put" /\ UNCHANGED <<next_seq, pending, timer, batch>>
    BY <1>6 DEF Put, At, buffer
  <2>2. CASE ready[L] = <<>>
    <3>1. pc' = [pc EXCEPT ![L] = "idle"] /\ UNCHANGED <<ready, queue>>
      BY <1>6, <2>2 DEF Put, Goto
    <3>2. pc'[L] = "idle" /\ pc'[H] = pc[H] /\ pc[H] \in {"idle", "status", "dead"}
      BY <1>1, <1>2, <3>1 DEF LoneShape
    <3>3. LoneShape' /\ ToPut' = ToPut
      BY <1>2, <2>1, <2>2, <3>1, <3>2, LoneMoves
    <3> QED BY <1>2, <3>1, <3>3 DEF LoneInv
  <2>3. CASE ready[L] # <<>>
    <3> DEFINE e == Head(ready[L])
    <3>1. /\ queue' = Append(queue, e) /\ pc' = pc
          /\ ready' = [ready EXCEPT ![L] = Tail(@)]
      BY <1>6, <2>3 DEF Put
    <3>2. LoneShape' /\ ToPut' = ToPut + 1 /\ e = ToPut
      BY <1>1, <1>2, <2>1, <2>3, <3>1, LonePuts
    <3> HIDE DEF e
    <3>3. ToPut = Len(queue) + 1
      <4>1. ToPut \in Int /\ Len(queue) \in Nat
        <5>1. Upcoming \in Nat /\ Len(ready[L]) \in Nat
          BY <1>1, <1>2, SharedTypes DEF LoneShape
        <5> QED BY <1>1, <5>1 DEF ToPut
      <4> QED BY <1>2, <4>1
    <3>4. /\ DOMAIN queue = 1..Len(queue) /\ Len(queue) \in Nat
          /\ DOMAIN queue' = 1..(Len(queue) + 1) /\ Len(queue') = Len(queue) + 1
          /\ queue'[Len(queue) + 1] = e
          /\ \A i \in 1..Len(queue) : queue'[i] = queue[i]
      BY <1>1, <3>1
    <3>5. \A i \in DOMAIN queue' : queue'[i] = i
      <4> TAKE i \in DOMAIN queue'
      <4>1. CASE i = Len(queue) + 1
        BY <3>2, <3>3, <3>4, <4>1
      <4>2. CASE i # Len(queue) + 1
        <5>1. i \in 1..Len(queue)
          BY <3>4, <4>2
        <5> QED BY <1>2, <3>4, <5>1
      <4> QED BY <4>1, <4>2
    <3>6. Len(queue') = ToPut' - 1
      BY <3>2, <3>3, <3>4
    <3> QED BY <3>2, <3>5, <3>6 DEF LoneInv
  <2> QED BY <2>2, <2>3
<1>7. ~Heartbeat
  BY DEF Heartbeat
<1>8. CASE UNCHANGED vars
  <2>1. UNCHANGED <<next_seq, pending, timer, pc, batch, ready, queue>>
    BY <1>8 DEF vars, sharedVars, buffer
  <2>2. pc'[H] \in {"idle", "status", "dead"}
    BY <1>2, <2>1 DEF LoneShape
  <2>3. LoneShape' /\ ToPut' = ToPut
    BY <1>2, <2>1, <2>2, LoneMoves
  <2> QED BY <1>2, <2>1, <2>3 DEF LoneInv
<1> QED BY <1>3, <1>4, <1>5, <1>6, <1>7, <1>8 DEF Next, Listener

\* With recovery off the dispatch queue receives the commands in order,
\* whatever events arrive.
THEOREM LoneListenerKeepsOrder == Spec => []AloneInOrder
<1>1. TypeInv /\ LoneInv /\ [Next]_vars => (TypeInv /\ LoneInv)'
  BY StepTypes, StepLone
<1>2. LoneInv => AloneInOrder
  BY DEF LoneInv, AloneInOrder, QueueInOrder
<1> QED BY <1>1, <1>2, InitTypes, LoneAtFirst, PTL DEF Spec

-----------------------------------------------------------------------------
(* A listener that is alone acts in one step *)

\* Where a drain that starts at n stops: the smallest number from n on that
\* is free, as CommandOrdering chooses it.
Free(n, S) == {m \in n..(MaxSeq + 1) : m \notin S}

LEMMA DrainStops ==
    ASSUME NEW n \in 1..(MaxSeq + 1), NEW S, S \subseteq Seqs
    PROVE  /\ Min(Free(n, S)) \in n..(MaxSeq + 1)
           /\ Min(Free(n, S)) \notin S
           /\ \A s \in n..(Min(Free(n, S)) - 1) : s \in S
           /\ Ordering!FirstMissing(n, S) = Min(Free(n, S))
<1> DEFINE F == Free(n, S)
           f == Min(F)
<1>1. MaxSeq \in Nat /\ F \subseteq Nat /\ MaxSeq + 1 \in F
  BY MaxSeqAssumption DEF Free, Seqs
<1>2. f \in F /\ \A x \in F : f <= x
  <2> HIDE DEF F
  <2>1. \E m \in F : \A x \in F : m <= x
    BY <1>1, SmallestNat
  <2> QED BY <2>1 DEF Min
<1> HIDE DEF f
<1>3. f \in n..(MaxSeq + 1) /\ f \notin S
  BY <1>2 DEF Free
<1>4. \A s \in n..(f - 1) : s \in S
  <2> SUFFICES ASSUME NEW s \in n..(f - 1), s \notin S PROVE FALSE
    OBVIOUS
  <2>1. s \in F /\ s < f /\ s \in Int /\ f \in Int
    BY <1>1, <1>3 DEF Free
  <2> QED BY <1>2, <2>1
<1>5. \A m \in n..(MaxSeq + 1) : m \notin S /\ n..(m - 1) \subseteq S => m = f
  <2> SUFFICES ASSUME NEW m \in n..(MaxSeq + 1), m \notin S, n..(m - 1) \subseteq S, m # f
               PROVE  FALSE
    OBVIOUS
  <2>1. m < f => m \in n..(f - 1)
    BY <1>1, <1>3
  <2>2. f < m => f \in n..(m - 1)
    BY <1>1, <1>3
  <2>3. m < f \/ f < m
    BY <1>1, <1>3
  <2> QED BY <1>3, <1>4, <2>1, <2>2, <2>3
<1>6. Ordering!FirstMissing(n, S) = f
  <2>1. n..(f - 1) \subseteq S
    BY <1>4
  <2> QED BY <1>3, <1>5, <2>1 DEF Ordering!FirstMissing
<1> QED BY <1>3, <1>4, <1>6 DEF f

\* The numbers that a drain from n to m releases.
Released(n, m) == [i \in 1..(m - n) |-> n + i - 1]

\* The numbers released are a list.
LEMMA ReleasedIsList ==
    ASSUME NEW n \in Nat, NEW d \in Nat
    PROVE  /\ Released(n, n + d) \in Seq(Nat)
           /\ Len(Released(n, n + d)) = d
           /\ \A i \in 1..d : Released(n, n + d)[i] = n + i - 1
<1> DEFINE r == Released(n, n + d)
<1>1. n + d - n = d
  OBVIOUS
<1>2. r = [i \in 1..d |-> n + i - 1]
  BY <1>1 DEF Released
<1>3. r \in [1..d -> Nat]
  <2>1. \A i \in 1..d : n + i - 1 \in Nat
    OBVIOUS
  <2> HIDE DEF r
  <2> QED BY <1>2, <2>1
<1> HIDE DEF r
<1>4. \A i \in 1..d : r[i] = n + i - 1
  BY <1>2
<1>5. r \in Seq(Nat) /\ Len(r) = d
  BY <1>3
<1> QED BY <1>4, <1>5 DEF r

\* A head that goes to the end of the list before it stays where it is.
LEMMA HeadMovesOn ==
    ASSUME NEW S, NEW a \in Seq(S), NEW r \in Seq(S), r # <<>>
    PROVE  Append(a, Head(r)) \o Tail(r) = a \o r
<1> DEFINE h == Head(r)
           t == Tail(r)
           b == Append(a, h)
           p == b \o t
           q == a \o r
<1>1. /\ h \in S /\ h = r[1] /\ Len(r) \in Nat /\ Len(r) > 0 /\ Len(a) \in Nat
      /\ t \in Seq(S) /\ Len(t) = Len(r) - 1
      /\ \A i \in 1..(Len(r) - 1) : t[i] = r[i + 1]
  OBVIOUS
<1> HIDE DEF h, t
<1>2. /\ b \in Seq(S) /\ Len(b) = Len(a) + 1 /\ b[Len(a) + 1] = h
      /\ \A i \in 1..Len(a) : b[i] = a[i]
  BY <1>1
<1> HIDE DEF b
<1>3. /\ p \in Seq(S) /\ Len(p) = Len(a) + Len(r)
      /\ \A i \in 1..(Len(a) + 1) : p[i] = b[i]
      /\ \A i \in (Len(a) + 2)..(Len(a) + Len(r)) : p[i] = t[i - (Len(a) + 1)]
  <2>1. /\ p \in Seq(S) /\ Len(p) = Len(b) + Len(t)
        /\ \A i \in 1..Len(b) : p[i] = b[i]
        /\ \A i \in (Len(b) + 1)..(Len(b) + Len(t)) : p[i] = t[i - Len(b)]
    <3>1. b \in Seq(S) /\ t \in Seq(S)
      BY <1>1, <1>2
    <3> QED BY <3>1
  <2>2. Len(b) = Len(a) + 1 /\ Len(b) + Len(t) = Len(a) + Len(r) /\ Len(b) + 1 = Len(a) + 2
    BY <1>1, <1>2
  <2> HIDE DEF p
  <2> QED BY <2>1, <2>2
<1>4. /\ q \in Seq(S) /\ Len(q) = Len(a) + Len(r)
      /\ \A i \in 1..Len(a) : q[i] = a[i]
      /\ \A i \in (Len(a) + 1)..(Len(a) + Len(r)) : q[i] = r[i - Len(a)]
  BY <1>1
<1> HIDE DEF p, q
<1>5. ASSUME NEW i \in 1..(Len(a) + Len(r)) PROVE p[i] = q[i]
  <2>1. CASE i \in 1..Len(a)
    <3>1. i \in 1..(Len(a) + 1)
      BY <1>1, <2>1
    <3> QED BY <1>2, <1>3, <1>4, <2>1, <3>1
  <2>2. CASE i = Len(a) + 1
    <3>1. /\ i \in 1..(Len(a) + 1)
          /\ i \in (Len(a) + 1)..(Len(a) + Len(r))
          /\ i - Len(a) = 1
      BY <1>1, <2>2
    <3>2. p[i] = h
      BY <1>2, <1>3, <2>2, <3>1
    <3> QED BY <1>1, <1>4, <3>1, <3>2
  <2>3. CASE i \in (Len(a) + 2)..(Len(a) + Len(r))
    <3> DEFINE j == i - (Len(a) + 1)
    <3>1. /\ j \in 1..(Len(r) - 1) /\ j + 1 = i - Len(a)
          /\ i \in (Len(a) + 1)..(Len(a) + Len(r))
      BY <1>1, <2>3
    <3>2. p[i] = t[j] /\ q[i] = r[i - Len(a)]
      BY <1>3, <1>4, <2>3, <3>1
    <3> HIDE DEF j
    <3> QED BY <1>1, <3>1, <3>2
  <2> QED BY <1>1, <2>1, <2>2, <2>3
<1>6. p = q
  BY <1>3, <1>4, <1>5
<1> QED BY <1>6 DEF p, q, b, h, t

\* The number that is popped moves from what will be released to the list.
LEMMA PopShows ==
    ASSUME NEW a \in Seq(Nat), NEW n \in Nat, NEW m \in Nat, n < m
    PROVE  Append(a, n) \o Released(n + 1, m) = a \o Released(n, m)
<1> DEFINE d == m - n
           r == Released(n, m)
           s == Released(n + 1, m)
<1>1. d \in Nat /\ d > 0 /\ d - 1 \in Nat /\ m = n + d /\ m = (n + 1) + (d - 1)
  OBVIOUS
<1>2. r \in Seq(Nat) /\ Len(r) = d /\ \A i \in 1..d : r[i] = n + i - 1
  <2> HIDE DEF d
  <2>1. r = Released(n, n + d)
    BY <1>1
  <2> HIDE DEF r
  <2> QED BY <1>1, <2>1, ReleasedIsList
<1>3. s \in Seq(Nat) /\ Len(s) = d - 1 /\ \A i \in 1..(d - 1) : s[i] = n + 1 + i - 1
  <2> HIDE DEF d
  <2>1. n + 1 \in Nat
    OBVIOUS
  <2>2. s = Released(n + 1, (n + 1) + (d - 1))
    BY <1>1
  <2> HIDE DEF s
  <2> QED BY <1>1, <2>1, <2>2, ReleasedIsList
<1> HIDE DEF d, r, s
<1>4. r # <<>> /\ Head(r) = n
  BY <1>1, <1>2
<1>5. Tail(r) = s
  <2> DEFINE t == Tail(r)
  <2>1. t \in Seq(Nat) /\ Len(t) = d - 1 /\ \A i \in 1..(d - 1) : t[i] = r[i + 1]
    BY <1>1, <1>2, <1>4
  <2> HIDE DEF t
  <2>2. \A i \in 1..(d - 1) : t[i] = s[i]
    <3> TAKE i \in 1..(d - 1)
    <3>1. i + 1 \in 1..d /\ n + (i + 1) - 1 = n + 1 + i - 1
      BY <1>1
    <3> QED BY <1>2, <1>3, <2>1, <3>1
  <2>3. t = s
    BY <1>3, <2>1, <2>2
  <2> QED BY <2>3 DEF t
<1>6. Append(a, Head(r)) \o Tail(r) = a \o r
  BY <1>2, <1>4, HeadMovesOn
<1> QED BY <1>4, <1>5, <1>6 DEF r, s

\* What CommandOrdering sees of the two threads.
Shown == <<DoneNext, DoneHeld, DoneTimer, DoneQueue, DoneTaken>>

-----------------------------------------------------------------------------
(* What shows, and when it changes *)

\* Nothing that CommandOrdering has a name for changes unless Shown does.
LEMMA ShownIsAll == UNCHANGED Shown => UNCHANGED Ordering!vars
<1> SUFFICES ASSUME UNCHANGED Shown PROVE UNCHANGED Ordering!vars
  OBVIOUS
<1>1. UNCHANGED <<DoneNext, DoneHeld, DoneTimer, DoneQueue, DoneTaken>>
  BY DEF Shown
<1> QED BY <1>1 DEF Ordering!vars, Ordering!bufferVars

\* What a drain is going to do, in terms of where it will stop.
LEMMA DoneIs ==
    ASSUME TypeInv, LoneInv, ~recovery_on
    PROVE  /\ Held \subseteq Seqs /\ Upcoming \in 1..(MaxSeq + 1)
           /\ DoneNext = Min(Free(Upcoming, Held))
           /\ DoneNext \in Upcoming..(MaxSeq + 1) /\ DoneNext \notin Held
           /\ pc[L] # "insert" => Held = pending
           /\ Held = pending /\ Upcoming \notin pending =>
                  DoneNext = Upcoming /\ DoneHeld = pending
           /\ DoneQueue = (queue \o ready[L]) \o Released(Upcoming, DoneNext)
<1>1. pending \subseteq Seqs /\ batch \subseteq Seqs /\ MaxSeq \in Nat
  BY SharedTypes DEF TypeInv, SharedInv
<1>2. Held \subseteq Seqs /\ Upcoming \in 1..(MaxSeq + 1)
  BY <1>1 DEF Held, LoneInv, LoneShape
<1>3. DoneNext = Min(Free(Upcoming, Held))
  BY DEF DoneNext, Free
<1>4. /\ DoneNext \in Upcoming..(MaxSeq + 1) /\ DoneNext \notin Held
      /\ \A s \in Upcoming..(DoneNext - 1) : s \in Held
  BY <1>2, <1>3, DrainStops
<1>5. pc[L] # "insert" => Held = pending
  BY DEF Held, LoneInv, LoneShape
<1>6. ASSUME Held = pending, Upcoming \notin pending
      PROVE  DoneNext = Upcoming /\ DoneHeld = pending
  <2>1. DoneNext = Upcoming
    <3>1. Upcoming < DoneNext => Upcoming \in Upcoming..(DoneNext - 1)
      BY <1>1, <1>2, <1>4
    <3> QED BY <1>1, <1>2, <1>4, <1>6, <3>1
  <2>2. \A s \in pending : s > Upcoming
    <3>1. \A s \in pending : s >= Upcoming /\ s \in Int /\ s # Upcoming
      BY <1>1, <1>6 DEF LoneInv, LoneShape, Seqs
    <3> QED BY <1>1, <1>2, <3>1
  <2> QED BY <1>6, <2>1, <2>2 DEF DoneHeld
<1>7. DoneQueue = (queue \o ready[L]) \o Released(Upcoming, DoneNext)
  BY DEF DoneQueue, Released
<1> QED BY <1>2, <1>3, <1>4, <1>5, <1>6, <1>7

\* Steps that leave alone what the end of the push depends on.
LEMMA ShownRests ==
    ASSUME Held' = Held, Upcoming' = Upcoming, DoneTimer' = DoneTimer \/
               (pc[L] \notin {"idle", "put"} /\ pc'[L] \notin {"idle", "put"}),
           queue' \o ready'[L] = queue \o ready[L], DoneTaken' = DoneTaken
    PROVE  UNCHANGED Shown
<1>1. DoneNext' = DoneNext
  BY DEF DoneNext
<1>2. DoneHeld' = DoneHeld
  BY <1>1 DEF DoneHeld
<1>3. DoneQueue' = DoneQueue
  BY <1>1 DEF DoneQueue
<1>4. DoneTimer' = DoneTimer
  BY <1>2 DEF DoneTimer
<1> QED BY <1>1, <1>2, <1>3, <1>4 DEF Shown

\* What the dictionary holds was put into it.
LEMMA HeldWasTaken ==
    ASSUME TypeInv, TakenIsConserved, NEW s \in pending
    PROVE  s \in Seqs /\ taken[s] > 0
<1>1. s \in Seqs /\ queue \in Seq(Seqs) /\ ready[L] \in Seq(Seqs) /\ ready[H] \in Seq(Seqs)
  BY SharedTypes DEF TypeInv, SharedInv, CountsOK, Threads
<1>2. CountIn(queue, s) \in Nat /\ CountIn(ready[L], s) \in Nat /\ CountIn(ready[H], s) \in Nat
  BY <1>1, PlacesAreFinite
<1>3. taken[s] = CountIn(queue, s) + CountIn(ready[L], s) + CountIn(ready[H], s) + 1
  BY <1>1 DEF TakenIsConserved, HandedOut
<1> QED BY <1>1, <1>2, <1>3

\* The insertion of a number that is in hand does not show ...
LEMMA InsertDoesNotShow ==
    ASSUME TypeInv, LoneInv, ~recovery_on, Take
    PROVE  UNCHANGED Shown
<1> DEFINE m == Min(batch)
<1>1. /\ batch \subseteq Seqs /\ next_seq \in Nat
      /\ taken \in [Seqs -> Nat]
  BY SharedTypes, MaxDeliveriesAssumption DEF TypeInv, SharedInv, CountsOK
<1>2. /\ m \in batch /\ m \in Seqs /\ pc[L] = "insert"
      /\ pending' = IF IsTaken(m) THEN pending \union {m} ELSE pending
      /\ batch' = batch \ {m}
      /\ pc' = IF batch' = {} THEN [pc EXCEPT ![L] = "drain"] ELSE pc
      /\ UNCHANGED <<next_seq, timer, ready>>
  BY InsertDoes DEF TypeInv, Take
<1>3. /\ pc'[L] \in {"insert", "drain"}
      /\ taken' = [taken EXCEPT ![m] = @ + (IF IsTaken(m) THEN 1 ELSE 0)]
      /\ UNCHANGED queue
  <2>1. DOMAIN pc = Threads /\ L \in Threads
    BY SharedTypes DEF TypeInv, SharedInv
  <2> QED BY <1>2, <2>1 DEF Take
<1> HIDE DEF m
<1>4. Held' = Held
  BY <1>2, <1>3 DEF Held, IsTaken
<1>5. Upcoming' = Upcoming
  BY <1>2, <1>3 DEF Upcoming, At
<1>6. DoneTaken' = DoneTaken
  <2>1. \A s \in Seqs : taken[s] \in Nat
                       /\ taken'[s] = taken[s] + (IF s = m /\ IsTaken(m) THEN 1 ELSE 0)
    BY <1>1, <1>3
  <2>2. IsTaken(m) => m \in Held
    BY <1>2 DEF IsTaken, Held
  <2>3. \A s \in Seqs : s \notin Held => (taken'[s] > 0 <=> taken[s] > 0)
    BY <2>1, <2>2
  <2> QED BY <1>4, <2>3 DEF DoneTaken
<1> QED BY <1>2, <1>3, <1>4, <1>5, <1>6, ShownRests

\* ... nor does the pop of the number that comes next ...
LEMMA PopDoesNotShow ==
    ASSUME TypeInv, LoneInv, TakenIsConserved, ~recovery_on, Within(DrainPop(L))
    PROVE  UNCHANGED Shown
<1>1. /\ pending \subseteq Seqs /\ next_seq \in Nat /\ MaxSeq \in Nat
      /\ DOMAIN pc = Threads /\ DOMAIN ready = Threads /\ L \in Threads
      /\ queue \in Seq(Seqs) /\ ready[L] \in Seq(Seqs)
  BY SharedTypes DEF TypeInv, SharedInv, CountsOK, Threads
<1>2. /\ pc[L] = "drain" /\ pc'[L] = "advance"
      /\ next_seq \in pending /\ pending' = pending \ {next_seq}
      /\ ready'[L] = Append(ready[L], next_seq)
      /\ UNCHANGED <<next_seq, timer, batch, queue, taken>>
  BY <1>1 DEF Within, DrainPop, At, Goto
<1>3. /\ Held = pending /\ Held \subseteq Seqs /\ Upcoming \in 1..(MaxSeq + 1)
      /\ DoneNext = Min(Free(Upcoming, Held))
      /\ DoneNext \in Upcoming..(MaxSeq + 1) /\ DoneNext \notin Held
      /\ DoneQueue = (queue \o ready[L]) \o Released(Upcoming, DoneNext)
  BY <1>2, DoneIs
<1>4. Upcoming = next_seq /\ Upcoming' = next_seq + 1
  BY <1>2 DEF Upcoming, At
<1>5. Held' = Held \ {next_seq}
  BY <1>2, <1>3 DEF Held, LoneInv, LoneShape
<1>6. DoneNext' = DoneNext
  <2>1. Free(next_seq + 1, Held \ {next_seq}) = Free(next_seq, Held)
    <3>1. \A m \in Int : m \in (next_seq + 1)..(MaxSeq + 1) <=> m \in next_seq..(MaxSeq + 1) /\ m # next_seq
      BY <1>1
    <3>2. next_seq \in Held
      BY <1>2, <1>3
    <3> QED BY <3>1, <3>2 DEF Free
  <2>2. DoneNext' = Min(Free(next_seq + 1, Held \ {next_seq}))
    BY <1>2, <1>4, <1>5 DEF DoneNext, Free
  <2> QED BY <1>3, <1>4, <2>1, <2>2
<1>7. DoneNext \in Nat /\ next_seq < DoneNext
  <2>1. DoneNext # next_seq
    BY <1>2, <1>3
  <2> QED BY <1>1, <1>3, <1>4, <2>1
<1>8. DoneHeld' = DoneHeld
  <2>1. \A s \in Held : s > DoneNext => s # next_seq
    BY <1>1, <1>7
  <2> QED BY <1>5, <1>6, <2>1 DEF DoneHeld
<1>9. DoneTimer' = DoneTimer
  BY <1>2, <1>8 DEF DoneTimer
<1>10. DoneQueue' = DoneQueue
  <2> DEFINE a == queue \o ready[L]
  <2>1. a \in Seq(Nat) /\ queue' \o ready'[L] = Append(a, next_seq)
    <3>1. queue \in Seq(Nat) /\ ready[L] \in Seq(Nat)
      BY <1>1 DEF Seqs
    <3> QED BY <1>1, <1>2, <3>1
  <2> HIDE DEF a
  <2>2. DoneQueue' = Append(a, next_seq) \o Released(next_seq + 1, DoneNext)
    BY <1>4, <1>6, <2>1 DEF DoneQueue, Released
  <2>3. DoneQueue = a \o Released(next_seq, DoneNext)
    BY <1>3, <1>4 DEF a
  <2> QED BY <1>1, <1>7, <2>1, <2>2, <2>3, PopShows
<1>11. DoneTaken' = DoneTaken
  <2>1. next_seq \in Seqs /\ taken[next_seq] > 0
    BY <1>2, HeldWasTaken
  <2> QED BY <1>2, <1>5, <2>1 DEF DoneTaken
<1> QED BY <1>6, <1>8, <1>9, <1>10, <1>11 DEF Shown

\* ... nor the rest of the drain, the timer's refresh and the puts.
LEMMA RestDoesNotShow ==
    ASSUME TypeInv, LoneInv, ~recovery_on,
           \/ Within(DrainAdvance(L) \/ DrainEnd(L) \/ Refresh(L) \/ Stamp(L))
           \/ Put(L)
    PROVE  UNCHANGED Shown
<1>1. /\ pending \subseteq Seqs /\ next_seq \in Nat
      /\ DOMAIN pc = Threads /\ DOMAIN ready = Threads /\ L \in Threads
      /\ queue \in Seq(Seqs) /\ ready[L] \in Seq(Seqs)
  BY SharedTypes DEF TypeInv, SharedInv, CountsOK, Threads
<1>2. pc[L] # "insert" => batch = {}
  BY DEF LoneInv, LoneShape
<1>3. CASE Within(DrainAdvance(L))
  <2>1. /\ pc[L] = "advance" /\ pc'[L] = "drain" /\ next_seq' = next_seq + 1
        /\ UNCHANGED <<pending, batch, ready, queue, taken>>
    BY <1>1, <1>3 DEF Within, DrainAdvance, At, Goto
  <2>2. Upcoming' = Upcoming
    BY <2>1 DEF Upcoming, At
  <2>3. Held' = Held
    BY <1>2, <2>1 DEF Held
  <2>4. DoneTaken' = DoneTaken
    BY <2>1, <2>3 DEF DoneTaken
  <2> QED BY <2>1, <2>2, <2>3, <2>4, ShownRests
<1>4. CASE Within(DrainEnd(L))
  <2>1. /\ pc[L] = "drain" /\ pc'[L] = "refresh"
        /\ UNCHANGED <<next_seq, pending, batch, ready, queue, taken>>
    BY <1>1, <1>4 DEF Within, DrainEnd, At, Goto, buffer
  <2>2. Upcoming' = Upcoming
    BY <2>1 DEF Upcoming, At
  <2>3. Held' = Held
    BY <2>1 DEF Held
  <2>4. DoneTaken' = DoneTaken
    BY <2>1, <2>3 DEF DoneTaken
  <2> QED BY <2>1, <2>2, <2>3, <2>4, ShownRests
<1>5. CASE Within(Refresh(L))
  <2>1. /\ pc[L] = "refresh" /\ timer' = (timer /\ GapOpen)
        /\ pc'[L] = IF GapOpen /\ ~timer THEN "stamp" ELSE "put"
        /\ UNCHANGED <<next_seq, pending, batch, ready, queue, taken>>
    BY <1>1, <1>5 DEF Within, Refresh, At, Goto
  <2>2. Upcoming' = Upcoming /\ Upcoming = next_seq
    BY <2>1 DEF Upcoming, At
  <2>3. Held' = Held
    BY <2>1 DEF Held
  <2>4. DoneTaken' = DoneTaken
    BY <2>1, <2>3 DEF DoneTaken
  <2>5. DoneTimer' = DoneTimer
    <3>1. next_seq \notin pending
      BY <2>1 DEF LoneInv, LoneShape
    <3>2. DoneHeld = pending /\ DoneHeld' = pending
      <4>1. DoneHeld = pending
        BY <2>1, <2>2, <3>1, DoneIs
      <4>2. DoneHeld' = DoneHeld
        BY <2>2, <2>3 DEF DoneHeld, DoneNext
      <4> QED BY <4>1, <4>2
    <3>3. DoneTimer = (pending # {})
      BY <2>1, <3>2 DEF DoneTimer
    <3>4. DoneTimer' = IF pc'[L] = "put" THEN timer' ELSE pending # {}
      BY <2>1, <3>2 DEF DoneTimer
    <3>5. timer' <=> timer /\ pending # {}
      BY <2>1, <3>1 DEF GapOpen
    <3>6. pc'[L] = "put" => (timer' <=> pending # {})
      <4>1. pc'[L] = "put" => timer \/ ~GapOpen
        BY <2>1
      <4>2. GapOpen <=> pending # {}
        BY <3>1 DEF GapOpen
      <4> QED BY <3>5, <4>1, <4>2, Zenon
    <3>7. timer' \in BOOLEAN
      BY <2>1
    <3> QED BY <3>3, <3>4, <3>6, <3>7
  <2> QED BY <2>1, <2>2, <2>3, <2>4, <2>5, ShownRests
<1>7. CASE Within(Stamp(L))
  <2>1. /\ pc[L] = "stamp" /\ pc'[L] = "put" /\ timer' = TRUE
        /\ UNCHANGED <<next_seq, pending, batch, ready, queue, taken>>
    BY <1>1, <1>7 DEF Within, Stamp, At, Goto
  <2>2. Upcoming' = Upcoming /\ Upcoming = next_seq
    BY <2>1 DEF Upcoming, At
  <2>3. Held' = Held
    BY <2>1 DEF Held
  <2>4. DoneTaken' = DoneTaken
    BY <2>1, <2>3 DEF DoneTaken
  <2>5. DoneTimer' = DoneTimer
    <3>1. next_seq \notin pending /\ pending # {}
      BY <2>1 DEF LoneInv, LoneShape
    <3>2. DoneHeld = pending
      BY <2>1, <2>2, <3>1, DoneIs
    <3> QED BY <2>1, <3>1, <3>2 DEF DoneTimer
  <2> QED BY <2>1, <2>2, <2>3, <2>4, <2>5, ShownRests
<1>6. CASE Put(L)
  <2>1. /\ pc[L] = "put" /\ pc'[L] \in {"put", "idle"}
        /\ UNCHANGED <<next_seq, pending, timer, batch, taken>>
    BY <1>1, <1>6 DEF Put, At, Goto, buffer
  <2>2. Upcoming' = Upcoming
    BY <2>1 DEF Upcoming, At
  <2>3. Held' = Held
    BY <2>1 DEF Held
  <2>4. DoneTaken' = DoneTaken
    BY <2>1, <2>3 DEF DoneTaken
  <2>5. DoneTimer' = DoneTimer
    BY <2>1 DEF DoneTimer
  <2>6. queue' \o ready'[L] = queue \o ready[L]
    <3>1. CASE ready[L] = <<>>
      BY <1>6, <3>1 DEF Put
    <3>2. CASE ready[L] # <<>>
      <4>1. queue' = Append(queue, Head(ready[L])) /\ ready'[L] = Tail(ready[L])
        BY <1>1, <1>6, <3>2 DEF Put
      <4>2. Append(queue, Head(ready[L])) \o Tail(ready[L]) = queue \o ready[L]
        BY <1>1, <3>2, HeadMovesOn
      <4> QED BY <4>1, <4>2
    <3> QED BY <3>1, <3>2
  <2> QED BY <2>2, <2>3, <2>4, <2>5, <2>6, ShownRests
<1> QED BY <1>3, <1>4, <1>5, <1>6, <1>7 DEF Within

\* The commands with the numbers of a list.
Commands(list) == [i \in DOMAIN list |-> <<list[i], Command>>]

LEMMA CommandsOfParts ==
    ASSUME NEW a \in Seq(Nat), NEW r \in Seq(Nat)
    PROVE  Commands(a \o r) = Commands(a) \o Commands(r)
<1> DEFINE w == a \o r
           ca == Commands(a)
           cr == Commands(r)
           S == Nat \X {Command}
<1>1. /\ DOMAIN a = 1..Len(a) /\ DOMAIN r = 1..Len(r) /\ Len(a) \in Nat /\ Len(r) \in Nat
      /\ DOMAIN w = 1..(Len(a) + Len(r))
      /\ \A i \in 1..Len(a) : w[i] = a[i]
      /\ \A i \in (Len(a) + 1)..(Len(a) + Len(r)) : w[i] = r[i - Len(a)]
  OBVIOUS
<1> HIDE DEF w
<1>2. /\ ca \in [1..Len(a) -> S] /\ cr \in [1..Len(r) -> S]
      /\ \A i \in 1..Len(a) : ca[i] = <<a[i], Command>>
      /\ \A i \in 1..Len(r) : cr[i] = <<r[i], Command>>
  BY <1>1 DEF Commands
<1> HIDE DEF ca, cr, S
<1>3. ca \in Seq(S) /\ cr \in Seq(S) /\ Len(ca) = Len(a) /\ Len(cr) = Len(r)
  <2>1. ASSUME NEW k \in Nat, NEW f \in [1..k -> S] PROVE f \in Seq(S) /\ Len(f) = k
    OBVIOUS
  <2> QED BY <1>1, <1>2, <2>1
<1> DEFINE p == ca \o cr
           c == Commands(w)
<1>4. /\ p \in Seq(S) /\ Len(p) = Len(a) + Len(r)
      /\ \A i \in 1..Len(a) : p[i] = ca[i]
      /\ \A i \in (Len(a) + 1)..(Len(a) + Len(r)) : p[i] = cr[i - Len(a)]
  <2>1. /\ p \in Seq(S) /\ Len(p) = Len(ca) + Len(cr)
        /\ \A i \in 1..Len(ca) : p[i] = ca[i]
        /\ \A i \in (Len(ca) + 1)..(Len(ca) + Len(cr)) : p[i] = cr[i - Len(ca)]
    <3>1. ca \in Seq(S) /\ cr \in Seq(S)
      BY <1>3
    <3> QED BY <3>1
  <2> HIDE DEF p
  <2> QED BY <1>3, <2>1
<1>5. /\ DOMAIN c = 1..(Len(a) + Len(r))
      /\ \A i \in 1..(Len(a) + Len(r)) : c[i] = <<w[i], Command>>
  BY <1>1 DEF Commands
<1>6. c = [i \in 1..(Len(a) + Len(r)) |-> c[i]]
  BY <1>1 DEF Commands
<1> HIDE DEF p, c
<1>7. ASSUME NEW i \in 1..(Len(a) + Len(r)) PROVE p[i] = c[i]
  <2>1. CASE i \in 1..Len(a)
    BY <1>1, <1>2, <1>4, <1>5, <2>1
  <2>2. CASE i \in (Len(a) + 1)..(Len(a) + Len(r))
    <3>1. i - Len(a) \in 1..Len(r)
      BY <1>1, <2>2
    <3> QED BY <1>1, <1>2, <1>4, <1>5, <2>2, <3>1
  <2> QED BY <1>1, <2>1, <2>2
<1>8. p = [i \in 1..(Len(a) + Len(r)) |-> p[i]]
  BY <1>1, <1>4
<1>9. p = c
  BY <1>6, <1>7, <1>8
<1> QED BY <1>9 DEF p, c, ca, cr, w

\* An event that reaches the listener is a call of push.
LEMMA DeliverIsPush ==
    ASSUME TypeInv, LoneInv, ~recovery_on, NEW S \in SUBSET Seqs, Deliver(S)
    PROVE  Ordering!Arrive(Carry(S))
<1> DEFINE n == next_seq
           K == pending \union {s \in S : s >= n}
           m == Min(Free(n, K))
           left == K \ n..(m - 1)
<1>1. /\ pending \subseteq Seqs /\ n \in Nat /\ MaxSeq \in Nat
      /\ DOMAIN pc = Threads /\ L \in Threads /\ queue \in Seq(Seqs)
  BY SharedTypes DEF TypeInv, SharedInv, CountsOK, Threads
<1>2. /\ pc[L] = "idle" /\ pc'[L] = "insert" /\ batch' = S
      /\ UNCHANGED <<next_seq, pending, timer, ready, queue, taken>>
  BY <1>1 DEF Deliver, CallPush, At, Goto, buffer
<1>3. /\ n \notin pending /\ (timer <=> pending # {}) /\ ready[L] = <<>> /\ batch = {}
      /\ n \in 1..(MaxSeq + 1) /\ Upcoming = n /\ \A s \in pending : s >= n
  BY <1>2 DEF LoneInv, LoneShape, Upcoming, At
\* Before ...
<1>4. DoneNext = n /\ DoneHeld = pending /\ (DoneTimer <=> pending # {})
  BY <1>2, <1>3, DoneIs DEF DoneTimer
<1>5. DoneQueue = queue
  <2>1. DoneQueue = (queue \o <<>>) \o Released(n, n)
    BY <1>2, <1>3, <1>4, DoneIs
  <2>2. Released(n, n) = <<>>
    BY <1>1 DEF Released
  <2> QED BY <1>1, <2>1, <2>2
\* ... and after.
<1>6. K \subseteq Seqs /\ \A s \in K : s >= n
  BY <1>1, <1>3
<1>7. Held' = K /\ Upcoming' = n
  BY <1>2 DEF Held, Upcoming, At
<1>8. DoneNext' = m
  BY <1>7 DEF DoneNext, Free
<1>9. /\ m \in n..(MaxSeq + 1) /\ m \notin K
      /\ \A s \in n..(m - 1) : s \in K
      /\ Ordering!FirstMissing(n, K) = m
  <2> HIDE DEF K, m
  <2>1. Min(Free(n, K)) = m
    BY DEF m
  <2> QED BY <1>3, <1>6, <2>1, DrainStops
<1> HIDE DEF m
<1>10. DoneHeld' = left
  <2>1. DoneHeld' = {s \in K : s > m}
    BY <1>7, <1>8 DEF DoneHeld
  <2>2. \A s \in K : s > m <=> s \notin n..(m - 1)
    <3>1. \A s \in K : s \in Int /\ s >= n /\ s # m
      BY <1>6, <1>9 DEF Seqs
    <3>2. m \in Int /\ n \in Int
      BY <1>1, <1>9
    <3> HIDE DEF K
    <3> QED BY <3>1, <3>2
  <2> HIDE DEF K
  <2> QED BY <2>1, <2>2
<1>11. DoneTimer' <=> left # {}
  BY <1>2, <1>10 DEF DoneTimer
<1>12. DoneQueue' = queue \o Released(n, m)
  <2>1. DoneQueue' = (queue \o <<>>) \o Released(n, m)
    BY <1>2, <1>3, <1>7, <1>8 DEF DoneQueue, Released
  <2> QED BY <1>1, <2>1
<1>13. DoneTaken' = DoneTaken \union K
  <2>1. Held = pending
    BY <1>3 DEF Held
  <2>2. pending \subseteq K
    OBVIOUS
  <2> HIDE DEF K
  <2> QED BY <1>2, <1>7, <2>1, <2>2 DEF DoneTaken
\* The call of push does the same.
<1>14. Ordering!Accept(Carry(S)) = Carry(K)
  BY <1>4 DEF Ordering!Accept, Carry
<1>15. DOMAIN Carry(K) = K /\ DOMAIN Carry(DoneTaken) = DoneTaken /\ DOMAIN Carry(S) = S
  BY DEF Carry
<1>16. Carry(left) = Ordering!Restrict(Carry(K), left)
  BY DEF Carry, Ordering!Restrict
<1>17. (IF DoneTimer' THEN 0 ELSE -1) = Ordering!RefreshedAge(m, left)
  <2>1. m \notin left
    BY <1>9
  <2> HIDE DEF left
  <2> QED BY <1>11, <2>1 DEF Ordering!RefreshedAge, Ordering!NoGap
<1>18. Ordering!Push(Carry(S))
  <2>1. Ordering!DrainFrom(n, Carry(K))
    <3> HIDE DEF K, n
    <3> QED BY <1>8, <1>9, <1>10, <1>15, <1>16, <1>17 DEF Ordering!DrainFrom, left
  <2> QED BY <1>4, <1>14, <2>1 DEF Ordering!Push
<1>19. Commands(DoneQueue') = Commands(DoneQueue) \o Ordering!PushReady(Carry(S))
  <2>1. Ordering!PushReady(Carry(S)) = Ordering!Run(n, m, Carry(K))
    <3> HIDE DEF K, n
    <3> QED BY <1>4, <1>9, <1>14, <1>15 DEF Ordering!PushReady
  <2>2. Ordering!Run(n, m, Carry(K)) = Commands(Released(n, m))
    <3>1. m - n \in Nat
      BY <1>1, <1>9
    <3>2. \A i \in 1..(m - n) : n + i - 1 \in K
      <4> HIDE DEF K
      <4> QED BY <1>1, <1>9
    <3>3. \A i \in 1..(m - n) : Carry(K)[n + i - 1] = Command
      <4> HIDE DEF K
      <4> QED BY <3>2 DEF Carry
    <3> HIDE DEF K, n
    <3>4. DOMAIN Released(n, m) = 1..(m - n) /\ \A i \in 1..(m - n) : Released(n, m)[i] = n + i - 1
      BY DEF Released
    <3> QED BY <3>3, <3>4 DEF Ordering!Run, Commands
  <2>3. Released(n, m) \in Seq(Nat)
    <3>1. m - n \in Nat /\ m = n + (m - n)
      BY <1>1, <1>9
    <3> QED BY <1>1, <3>1, ReleasedIsList
  <2>4. queue \in Seq(Nat)
    BY <1>1 DEF Seqs
  <2>5. Commands(queue \o Released(n, m)) = Commands(queue) \o Commands(Released(n, m))
    BY <2>3, <2>4, CommandsOfParts
  <2> HIDE DEF K, n
  <2> QED BY <1>5, <1>12, <2>1, <2>2, <2>5
<1>20. Carry(DoneTaken') = [s \in DOMAIN Carry(DoneTaken) \union DOMAIN Ordering!Accept(Carry(S)) |->
                              IF s \in DOMAIN Carry(DoneTaken) THEN Carry(DoneTaken)[s] ELSE Carry(S)[s]]
  <2>1. \A s \in K : s \in DoneTaken \/ s \in S
    BY <1>2, <1>3 DEF DoneTaken, Held
  <2> HIDE DEF K
  <2> QED BY <1>13, <1>14, <1>15, <2>1 DEF Carry
<1> HIDE DEF n, K, left
<1> QED BY <1>18, <1>19, <1>20 DEF Ordering!Arrive, Commands

\* The state that shows at first is that of a new buffer.
LEMMA ShownAtFirst ==
    ASSUME Init PROVE Ordering!Init
<1>1. /\ next_seq = 1 /\ pending = {} /\ timer = FALSE /\ pc[L] = "idle" /\ pc[H] = "idle"
      /\ batch = {} /\ ready[L] = <<>> /\ queue = <<>> /\ \A s \in Seqs : taken[s] = 0
  BY DEF Init, NewSharedBuffer, Threads
<1>2. Upcoming = 1 /\ Held = {} /\ 1 \in 1..(MaxSeq + 1)
  BY <1>1, MaxSeqAssumption DEF Upcoming, At, Held
<1>3. DoneNext = 1
  <2>1. /\ Min(Free(1, {})) \in 1..(MaxSeq + 1)
        /\ \A s \in 1..(Min(Free(1, {})) - 1) : s \in {}
    BY <1>2, DrainStops
  <2>2. DoneNext = Min(Free(1, {}))
    BY <1>2 DEF DoneNext, Free
  <2> HIDE DEF Free
  <2>3. DoneNext \in 1..(MaxSeq + 1) /\ \A s \in 1..(DoneNext - 1) : s \in {}
    BY <2>1, <2>2
  <2>4. DoneNext > 1 => 1 \in 1..(DoneNext - 1)
    BY <2>3, MaxSeqAssumption
  <2> QED BY <2>3, <2>4, MaxSeqAssumption
<1>4. DoneHeld = {} /\ ~DoneTimer /\ DoneTaken = {} /\ DoneQueue = <<>>
  <2>1. DoneHeld = {} /\ ~DoneTimer /\ DoneTaken = {}
    BY <1>1, <1>2 DEF DoneHeld, DoneTimer, DoneTaken
  <2>2. DoneQueue = (<<>> \o <<>>) \o [i \in 1..0 |-> 1 + i - 1]
    BY <1>1, <1>2, <1>3 DEF DoneQueue
  <2> QED BY <2>1, <2>2
<1>5. Ordering!Init
  BY <1>3, <1>4 DEF Ordering!Init, Ordering!NewBuffer, Ordering!NoGap, Carry
<1> QED BY <1>5

\* With recovery off the listener's push, drain and puts are one step of
\* CommandOrdering, taken when the event arrives: the switches within do not
\* show, whatever the bound and the events.
THEOREM LoneListenerIsAtomic == Spec => AloneIsAtomic
<1> DEFINE Inv == TypeInv /\ TakenIsConserved /\ LoneInv
<1>1. Init => Inv
  BY InitTypes, TakenAtFirst, LoneAtFirst
<1>2. Inv /\ [Next]_vars => Inv'
  BY StepTypes, StepConserved, StepLone
<1>3. Init => (~recovery_on => Ordering!Init)
  BY ShownAtFirst
<1>4. Inv /\ [Next]_vars => [~recovery_on => [Ordering!Next]_(Ordering!vars)]_vars
  <2> SUFFICES ASSUME Inv, Next, ~recovery_on PROVE [Ordering!Next]_(Ordering!vars)
    BY DEF Next
  <2>1. ASSUME NEW S \in (SUBSET Seqs) \ {{}}, Deliver(S) PROVE Ordering!Next
    <3>1. Carry(S) \in Ordering!Batches
      <4>1. Carry(S) \in [S -> {Command}]
        BY DEF Carry
      <4>2. Ordering!Batches = UNION {[D -> {Command}] : D \in SUBSET Seqs}
        BY DEF Ordering!Batches, Ordering!Seqs, Seqs
      <4> QED BY <4>1, <4>2
    <3>2. Ordering!Arrive(Carry(S))
      BY <2>1, DeliverIsPush
    <3> QED BY <3>1, <3>2 DEF Ordering!Next
  <2>2. CASE Listener
    <3>1. UNCHANGED Shown
      BY <2>2, InsertDoesNotShow, PopDoesNotShow, RestDoesNotShow DEF Listener, Drain, Within
    <3> QED BY <3>1, ShownIsAll
  <2>3. ~Heartbeat
    BY DEF Heartbeat
  <2> QED BY <2>1, <2>2, <2>3 DEF Next
<1> QED BY <1>1, <1>2, <1>3, <1>4, PTL DEF Spec, AloneIsAtomic

\* So a bridge that runs with recovery off implements CommandOrdering.
THEOREM LoneListenerImplementsOrdering == Spec /\ ~recovery_on => Ordering!Spec
<1>1. ~recovery_on /\ [Next]_vars => ~recovery_on'
  BY DEF Next, vars
<1>2. [~recovery_on => [Ordering!Next]_(Ordering!vars)]_vars /\ ~recovery_on
          => [Ordering!Next]_(Ordering!vars)
  <2> SUFFICES ASSUME UNCHANGED vars PROVE UNCHANGED Ordering!vars
    OBVIOUS
  <2>1. UNCHANGED <<next_seq, pending, timer, pc, batch, ready, queue, taken>>
    BY DEF vars, sharedVars, buffer
  <2>2. Held' = Held /\ Upcoming' = Upcoming
    BY <2>1 DEF Held, Upcoming, At
  <2>3. DoneTaken' = DoneTaken
    BY <2>1, <2>2 DEF DoneTaken
  <2>4. DoneNext' = DoneNext
    BY <2>2 DEF DoneNext
  <2>5. DoneHeld' = DoneHeld
    BY <2>2, <2>4 DEF DoneHeld
  <2>6. DoneTimer' = DoneTimer
    BY <2>1, <2>5 DEF DoneTimer
  <2>7. DoneQueue' = DoneQueue
    BY <2>1, <2>2, <2>4 DEF DoneQueue
  <2> QED BY <2>3, <2>4, <2>5, <2>6, <2>7, ShownIsAll DEF Shown
<1> QED BY <1>1, <1>2, LoneListenerIsAtomic, PTL DEF Spec, AloneIsAtomic, Ordering!Spec
=============================================================================
