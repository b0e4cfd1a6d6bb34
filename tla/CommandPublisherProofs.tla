----------------------- MODULE CommandPublisherProofs -----------------------
(***************************************************************************)
(* For every set of producers, of whatever kinds and sizes, and for every  *)
(* interleaving and failure: reservations never overlap, and no two        *)
(* producers that reserve ever write under the same number.                *)
(***************************************************************************)
EXTENDS CommandPublisher, OrderLemmas, FiniteSetTheorems

-----------------------------------------------------------------------------
(* The inductive invariant *)

\* There is a highest command, so that a snapshot can look for it.
CommandsBounded == \E b \in Nat : \A s \in DOMAIN commands : s <= b

\* A reservation is not empty, and the counter in Firebase is past it.
ReservedIsTaken ==
    \A r \in reserved : r[3] = r[2] + Size[r[1]] - 1 /\ r[3] <= last_reserved

\* What a producer is about to write, or wrote, is a range it reserved.
WritersReserved ==
    \A p \in Producers \ Testers :
        pc[p] \in {"write", "note", "done"} =>
            <<p, start_seq[p], start_seq[p] + Size[p] - 1>> \in reserved

\* What was written was reserved by the one who wrote it.
WrittenWasReserved ==
    \A w \in written :
        w[2] \notin Testers =>
            \E r \in reserved : r[1] = w[2] /\ w[1] \in r[2]..r[3]

IInv ==
    /\ TypeOK
    /\ CommandsBounded
    /\ ReservedIsTaken
    /\ RangesDisjoint
    /\ WritersReserved
    /\ WrittenWasReserved

-----------------------------------------------------------------------------
(* What snapshots and transactions compute *)

\* MaxOf returns the largest of a bounded set of numbers, 0 for the empty one.
LEMMA MaxOfBounded ==
    ASSUME NEW S, S \subseteq Nat, NEW b \in Nat, \A x \in S : x <= b
    PROVE  MaxOf(S) \in Nat /\ \A x \in S : x <= MaxOf(S)
<1> DEFINE T == S \union {0}
<1>1. T \subseteq Nat /\ T # {} /\ \A x \in T : x <= b
  OBVIOUS
<1>2. \E m \in T : \A x \in S : x <= m
  <2>1. \E m \in T : \A x \in T : x <= m
    <3> HIDE DEF T
    <3> QED BY <1>1, LargestBounded
  <2> QED BY <2>1
<1>3. MaxOf(S) \in T /\ \A x \in S : x <= MaxOf(S)
  BY <1>2 DEF MaxOf
<1> QED BY <1>1, <1>3

\* The first number a transaction takes is past all that is reserved.
LEMMA FirstFreeIsFree ==
    ASSUME TypeOK, NEW p \in Producers
    PROVE  FirstFree(p) \in Nat /\ FirstFree(p) > last_reserved
<1> DEFINE S == {last_reserved + 1, floor_seq[p] + 1}
           b == last_reserved + floor_seq[p] + 1
<1>1. last_reserved \in Nat /\ floor_seq[p] \in Nat
  BY DEF TypeOK
<1>2. S \subseteq Nat /\ b \in Nat /\ \A x \in S : x <= b
  BY <1>1
<1>3. MaxOf(S) \in Nat /\ \A x \in S : x <= MaxOf(S)
  <2> HIDE DEF S, b
  <2> QED BY <1>2, MaxOfBounded
<1>4. last_reserved + 1 <= MaxOf(S)
  BY <1>3
<1> QED BY <1>1, <1>3, <1>4 DEF FirstFree

\* The floor of a snapshot is a number.
LEMMA FloorIsNat ==
    ASSUME TypeOK, NEW p \in Producers
    PROVE  MaxOf({last_applied, max_published[p], last_reserved}) \in Nat
<1> DEFINE S == {last_applied, max_published[p], last_reserved}
           b == last_applied + max_published[p] + last_reserved
<1>1. last_applied \in Nat /\ max_published[p] \in Nat /\ last_reserved \in Nat
  BY DEF TypeOK
<1>2. S \subseteq Nat /\ b \in Nat /\ \A x \in S : x <= b
  BY <1>1
<1> HIDE DEF S, b
<1>3. MaxOf(S) \in Nat
  BY <1>2, MaxOfBounded
<1> QED BY <1>3 DEF S

\* A snapshot finds a highest command, or the empty queue.
LEMMA MaxSeenIsNat ==
    ASSUME TypeOK, CommandsBounded, NEW p \in Producers
    PROVE  MaxSeen(p) \in Nat
<1>1. PICK b \in Nat : \A s \in DOMAIN commands : s <= b
  BY DEF CommandsBounded
<1>2. MaxOf(DOMAIN commands) \in Nat
  BY <1>1, MaxOfBounded DEF TypeOK
<1> QED BY <1>2 DEF MaxSeen

\* What a push-test takes for safe is past all that it looked at.
LEMMA FirstSafeIsPast ==
    ASSUME TypeOK, NEW p \in Producers
    PROVE  /\ FirstSafe(p) \in Nat \ {0}
           /\ max_published[p] < FirstSafe(p)
           /\ p \notin Stateless =>
                 last_applied < FirstSafe(p) /\ last_reserved < FirstSafe(p)
<1> DEFINE state == IF p \in Stateless THEN {}
                    ELSE {last_applied, last_reserved, last_published}
           S == {max_published[p]} \union state
           b == max_published[p] + last_applied + last_reserved + last_published
<1>1. /\ max_published[p] \in Nat /\ last_applied \in Nat
      /\ last_reserved \in Nat /\ last_published \in Nat
  BY DEF TypeOK
<1>2. S \subseteq Nat /\ b \in Nat /\ \A x \in S : x <= b
  BY <1>1
<1>3. MaxOf(S) \in Nat /\ \A x \in S : x <= MaxOf(S)
  <2> HIDE DEF S, b
  <2> QED BY <1>2, MaxOfBounded
<1>4. FirstSafe(p) = MaxOf(S) + 1
  BY DEF FirstSafe
<1>5. /\ max_published[p] \in S
      /\ p \notin Stateless => last_applied \in S /\ last_reserved \in S
  OBVIOUS
<1> HIDE DEF S
<1> QED BY <1>1, <1>3, <1>4, <1>5

-----------------------------------------------------------------------------
(* The invariant holds at first and is kept *)

\* The invariant holds of the empty queue.
LEMMA InitInvariant == Init => IInv
<1> SUFFICES ASSUME Init PROVE IInv
  OBVIOUS
<1>1. TypeOK
  <2>1. IsFiniteSet(DOMAIN commands) /\ DOMAIN commands = {}
    BY FS_EmptySet DEF Init
  <2> QED BY <2>1 DEF Init, TypeOK, Range
<1>2. CommandsBounded
  BY DEF Init, CommandsBounded
<1>3. ReservedIsTaken /\ RangesDisjoint /\ WritersReserved /\ WrittenWasReserved
  BY DEF Init, ReservedIsTaken, RangesDisjoint, WritersReserved, WrittenWasReserved
<1> QED BY <1>1, <1>2, <1>3 DEF IInv

\* Steps that leave the commands, the reservations and what was written alone.
LEMMA QuietStep ==
    ASSUME IInv, TypeOK', UNCHANGED <<commands, last_reserved, reserved, written>>,
           \A p \in Producers \ Testers :
               pc'[p] \in {"write", "note", "done"} =>
                   /\ pc[p] \in {"write", "note", "done"}
                   /\ start_seq'[p] = start_seq[p]
    PROVE  IInv'
<1>1. CommandsBounded' /\ ReservedIsTaken' /\ RangesDisjoint' /\ WrittenWasReserved'
  BY DEF IInv, CommandsBounded, ReservedIsTaken, RangesDisjoint, WrittenWasReserved
<1>2. WritersReserved'
  BY DEF IInv, WritersReserved
<1> QED BY <1>1, <1>2 DEF IInv

\* Every round trip of every request keeps it.
LEMMA StepInvariant == IInv /\ [Next]_vars => IInv'
<1> SUFFICES ASSUME IInv, [Next]_vars PROVE IInv'
  OBVIOUS
<1> USE ProducersAssumption
<1>1. TypeOK /\ CommandsBounded
  BY DEF IInv
<1>2. ASSUME NEW p \in Producers, Begin(p) PROVE IInv'
  <2>1. TypeOK'
    BY <1>1, <1>2, MaxSeenIsNat DEF TypeOK, Begin, Move, cloud, Range
  <2> QED BY <2>1, <1>1, <1>2, QuietStep DEF Begin, Move, cloud, TypeOK
<1>3. ASSUME NEW p \in Producers, ReadCommands(p) PROVE IInv'
  <2>1. TypeOK'
    BY <1>1, <1>3, MaxSeenIsNat DEF TypeOK, ReadCommands, Move, cloud, Range
  <2> QED BY <2>1, <1>1, <1>3, QuietStep DEF ReadCommands, Move, cloud, TypeOK
<1>4. ASSUME NEW p \in Producers, ReadState(p) PROVE IInv'
  <2>1. TypeOK'
    BY <1>1, <1>4, FloorIsNat DEF TypeOK, ReadState, Move, cloud, Range
  <2> QED BY <2>1, <1>1, <1>4, QuietStep DEF ReadState, Move, cloud, TypeOK
<1>5. ASSUME NEW p \in Producers, Reserve(p) PROVE IInv'
  <2> DEFINE first == FirstFree(p)
             last == first + Size[p] - 1
  <2>1. first \in Nat /\ last \in Nat /\ first > last_reserved /\ last >= first
    BY <1>1, FirstFreeIsFree
  <2>2. last_reserved \in Nat
    BY <1>1 DEF TypeOK
  <2>3. reserved' = reserved \union {<<p, first, last>>} /\ last_reserved' = last
    BY <1>5 DEF Reserve
  <2> HIDE DEF first, last
  <2>4. TypeOK'
    <3>1. start_seq' = [start_seq EXCEPT ![p] = first]
      BY <1>5 DEF Reserve, first
    <3> QED BY <1>1, <1>5, <2>1, <2>3, <3>1 DEF TypeOK, Reserve, Move, Range
  <2>5. CommandsBounded'
    BY <1>1, <1>5 DEF CommandsBounded, Reserve
  <2>6. ReservedIsTaken'
    <3>1. \A r \in reserved : r[3] \in Nat /\ r[3] <= last_reserved
      BY <1>1 DEF IInv, ReservedIsTaken, TypeOK
    <3> QED BY <2>1, <2>2, <2>3, <3>1 DEF IInv, ReservedIsTaken, last
  <2>7. RangesDisjoint'
    <3>1. \A r \in reserved :
             (r[2]..r[3]) \intersect (first..last) = {}
      BY <1>1, <2>1, <2>2 DEF IInv, ReservedIsTaken, TypeOK
    <3> QED BY <2>3, <3>1 DEF IInv, RangesDisjoint
  <2>8. WritersReserved'
    BY <1>1, <1>5, <2>3 DEF IInv, WritersReserved, Reserve, Move, TypeOK, first, last
  <2>9. WrittenWasReserved'
    BY <1>5, <2>3 DEF IInv, WrittenWasReserved, Reserve
  <2> QED BY <2>4, <2>5, <2>6, <2>7, <2>8, <2>9 DEF IInv
<1>6. ASSUME NEW p \in Producers, WriteCommands(p) PROVE IInv'
  <2> DEFINE range == RangeOf(p, start_seq[p])
             last == start_seq[p] + Size[p] - 1
  <2>1. start_seq[p] \in Nat /\ last \in Nat /\ range = start_seq[p]..last
    BY <1>1 DEF TypeOK, RangeOf
  <2>2. /\ pc[p] = "write"
        /\ commands' = [s \in DOMAIN commands \union range |->
                           IF s \in range THEN p ELSE commands[s]]
        /\ written' = written \union (range \X {p})
    BY <1>6 DEF WriteCommands, Move
  <2>3. UNCHANGED <<last_reserved, start_seq, reserved>>
    BY <1>6 DEF WriteCommands, locals
  <2> HIDE DEF range, last
  <2>4. TypeOK'
    <3>1. IsFiniteSet(range) /\ range \subseteq Nat \ {0}
      <4>1. \A a, b \in Int : IsFiniteSet(a..b)
        BY FS_Interval
      <4>2. start_seq[p] # 0
        BY <1>1, <2>2 DEF TypeOK
      <4> QED BY <2>1, <4>1, <4>2
    <3>2. IsFiniteSet(DOMAIN commands')
      BY <1>1, <2>2, <3>1, FS_Union DEF TypeOK
    <3>3. Range(commands') \subseteq Producers
      BY <1>1, <2>2 DEF TypeOK, Range
    <3> QED BY <1>1, <1>6, <2>2, <3>1, <3>2, <3>3 DEF TypeOK, WriteCommands, Move, locals
  <2>5. CommandsBounded'
    <3>1. PICK b \in Nat : \A s \in DOMAIN commands : s <= b
      BY <1>1 DEF CommandsBounded
    <3>2. DOMAIN commands \subseteq Nat
      BY <1>1 DEF TypeOK
    <3>3. b + last \in Nat /\ \A s \in DOMAIN commands \union range : s <= b + last
      BY <2>1, <3>1, <3>2
    <3> QED BY <2>2, <3>3 DEF CommandsBounded
  <2>6. ReservedIsTaken' /\ RangesDisjoint'
    BY <2>3 DEF IInv, ReservedIsTaken, RangesDisjoint
  <2>7. WritersReserved'
    BY <1>1, <1>6, <2>3 DEF IInv, WritersReserved, WriteCommands, Move, TypeOK
  <2>8. WrittenWasReserved'
    <3>1. ASSUME NEW w \in range \X {p}, w[2] \notin Testers
          PROVE  \E r \in reserved : r[1] = w[2] /\ w[1] \in r[2]..r[3]
      <4>1. <<p, start_seq[p], last>> \in reserved
        BY <2>2, <3>1 DEF IInv, WritersReserved, last
      <4> QED BY <2>1, <3>1, <4>1
    <3> QED BY <2>2, <2>3, <3>1 DEF IInv, WrittenWasReserved
  <2> QED BY <2>4, <2>5, <2>6, <2>7, <2>8 DEF IInv
<1>7. ASSUME NEW p \in Producers, WriteState(p) PROVE IInv'
  <2>1. TypeOK'
    <3>1. start_seq[p] + Size[p] - 1 \in Nat
      BY <1>1 DEF TypeOK
    <3> QED BY <1>1, <1>7, <3>1 DEF TypeOK, WriteState, Move, locals, Range
  <2> QED BY <2>1, <1>1, <1>7, QuietStep DEF WriteState, Move, locals, TypeOK
<1>8. ASSUME NEW p \in Producers, TesterReadState(p) PROVE IInv'
  <2>1. PICK n \in Options[p] :
           start_seq' = [start_seq EXCEPT ![p] = IF n > 0 THEN n ELSE FirstSafe(p)]
    BY <1>8 DEF TesterReadState
  <2> DEFINE first == IF n > 0 THEN n ELSE FirstSafe(p)
  <2>2. first \in Nat /\ first # 0
    <3>1. n \in Nat
      BY <1>8 DEF TesterReadState
    <3> QED BY <1>1, <3>1, FirstSafeIsPast
  <2>3. start_seq' = [start_seq EXCEPT ![p] = first]
    BY <2>1
  <2> HIDE DEF first
  <2>4. TypeOK'
    BY <1>1, <1>8, <2>2, <2>3 DEF TypeOK, TesterReadState, Move, cloud, Range
  <2> QED BY <2>4, <1>1, <1>8, QuietStep DEF TesterReadState, Move, cloud, TypeOK
<1>9. ASSUME NEW p \in Producers, Fail(p) PROVE IInv'
  <2>1. TypeOK'
    BY <1>1, <1>9 DEF TypeOK, Fail, cloud, locals, Range
  <2> QED BY <2>1, <1>1, <1>9, QuietStep DEF Fail, cloud, locals, TypeOK
<1>10. ASSUME NEW s \in DOMAIN commands, BridgeApplies(s) PROVE IInv'
  <2> DEFINE left == {t \in DOMAIN commands : t > s}
  <2>1. commands' = [t \in left |-> commands[t]]
    BY <1>10 DEF BridgeApplies, Restrict
  <2>2. /\ UNCHANGED <<last_reserved, pc, start_seq, reserved, written>>
    BY <1>10 DEF BridgeApplies, locals
  <2>3. TypeOK'
    <3>1. IsFiniteSet(left) /\ left \subseteq DOMAIN commands
      BY <1>1, FS_Subset DEF TypeOK
    <3>2. Range(commands') \subseteq Producers
      BY <1>1, <2>1, <3>1 DEF TypeOK, Range
    <3> QED BY <1>1, <1>10, <2>1, <3>1, <3>2 DEF TypeOK, BridgeApplies, locals
  <2>4. CommandsBounded'
    BY <1>1, <2>1 DEF CommandsBounded
  <2>5. /\ ReservedIsTaken' /\ RangesDisjoint' /\ WritersReserved'
        /\ WrittenWasReserved'
    BY <2>2 DEF IInv, ReservedIsTaken, RangesDisjoint, WritersReserved, WrittenWasReserved
  <2> QED BY <2>3, <2>4, <2>5 DEF IInv
<1>11. CASE UNCHANGED vars
  <2>1. TypeOK'
    BY <1>1, <1>11 DEF TypeOK, vars, cloud, locals, Range
  <2> QED BY <2>1, <1>11, QuietStep DEF vars, cloud, locals
<1> QED BY <1>2, <1>3, <1>4, <1>5, <1>6, <1>7, <1>8, <1>9, <1>10, <1>11 DEF Next, Produce

\* The conjuncts hold together in every reachable state.
THEOREM Invariance == Spec => []IInv
BY InitInvariant, StepInvariant, PTL DEF Spec

-----------------------------------------------------------------------------
(* What follows from it *)

\* The state of the queue, of its counters and of every request stays well
\* formed, whatever the producers are.
THEOREM TypeCorrect == Spec => []TypeOK
BY Invariance, PTL DEF IInv

\* reserve_sequence_range never hands out a number twice.
THEOREM ReservationsDisjoint == Spec => []RangesDisjoint
BY Invariance, PTL DEF IInv

\* No number is ever written by two producers that reserve.
THEOREM Immutability == Spec => []CommandsImmutable
<1>1. IInv => CommandsImmutable
  <2> SUFFICES ASSUME IInv, NEW w1 \in written, NEW w2 \in written,
                      w1[1] = w2[1], w1[2] \notin Testers, w2[2] \notin Testers
               PROVE  w1[2] = w2[2]
    BY DEF CommandsImmutable
  <2>1. PICK r1 \in reserved : r1[1] = w1[2] /\ w1[1] \in r1[2]..r1[3]
    BY DEF IInv, WrittenWasReserved
  <2>2. PICK r2 \in reserved : r2[1] = w2[2] /\ w2[1] \in r2[2]..r2[3]
    BY DEF IInv, WrittenWasReserved
  <2>3. r1 = r2
    BY <2>1, <2>2 DEF IInv, RangesDisjoint
  <2> QED BY <2>1, <2>2, <2>3
<1> QED BY <1>1, Invariance, PTL

-----------------------------------------------------------------------------
(* Requests are typed in the order they came in *)

\* The last number of p.
EndOf(p) == start_seq[p] + Size[p] - 1

\* A push-test looks and writes, and reserves nothing.
TestersOnlyWrite ==
    \A p \in Testers : pc[p] \in {"begin", "state2", "write", "done", "failed"}

\* What a finished request wrote is seen by those that look later: by the
\* counter when it reserved, and otherwise by its last command, which is there
\* until the bridge is past it.
DoneIsSeen ==
    \A p \in Producers :
        pc[p] = "done" =>
            IF p \in Testers
            THEN EndOf(p) \in DOMAIN commands \/ EndOf(p) <= last_applied
            ELSE EndOf(p) <= last_reserved

\* q is on its way to numbers past those of p.
IsAhead(p, q) ==
    /\ pc[q] \in {"state1", "state2"} =>
          \/ EndOf(p) <= max_published[q]
          \/ EndOf(p) <= last_applied
          \/ EndOf(p) <= last_reserved
    /\ pc[q] \in {"reserve1", "reserve2"} =>
          EndOf(p) <= floor_seq[q] \/ EndOf(p) <= last_reserved
    /\ pc[q] \in {"write", "note", "done"} => EndOf(p) < start_seq[q]

LaterIsAhead ==
    \A q \in Producers : \A p \in before[q] :
        pc[p] = "done" /\ (LooksPast(q, p) => IsAhead(p, q))

OrderInv ==
    /\ IInv
    /\ TestersOnlyWrite
    /\ DoneIsSeen
    /\ LaterIsAhead

\* A step of q leaves the other requests and what they can see alone.
OnlyMoves(q) ==
    /\ pc[q] # "done"
    /\ \A r \in Producers \ {q} :
          /\ pc'[r] = pc[r] /\ before'[r] = before[r]
          /\ max_published'[r] = max_published[r]
          /\ floor_seq'[r] = floor_seq[r]
          /\ start_seq'[r] = start_seq[r]
    /\ DOMAIN commands \subseteq DOMAIN commands'
    /\ last_applied' = last_applied
    /\ last_reserved <= last_reserved'

\* The first number of a transaction is past what the snapshot saw.
LEMMA FirstFreeIsPastFloor ==
    ASSUME TypeOK, NEW p \in Producers
    PROVE  FirstFree(p) > floor_seq[p]
<1> DEFINE S == {last_reserved + 1, floor_seq[p] + 1}
           b == last_reserved + floor_seq[p] + 1
<1>1. last_reserved \in Nat /\ floor_seq[p] \in Nat
  BY DEF TypeOK
<1>2. S \subseteq Nat /\ b \in Nat /\ \A x \in S : x <= b
  BY <1>1
<1>3. MaxOf(S) \in Nat /\ \A x \in S : x <= MaxOf(S)
  <2> HIDE DEF S, b
  <2> QED BY <1>2, MaxOfBounded
<1>4. floor_seq[p] + 1 <= MaxOf(S)
  BY <1>3
<1> QED BY <1>1, <1>3, <1>4 DEF FirstFree

\* The floor of a snapshot covers everything the snapshot read.
LEMMA FloorCovers ==
    ASSUME TypeOK, NEW p \in Producers
    PROVE  LET floor == MaxOf({last_applied, max_published[p], last_reserved})
           IN  /\ floor \in Nat
               /\ last_applied <= floor
               /\ max_published[p] <= floor
               /\ last_reserved <= floor
<1> DEFINE S == {last_applied, max_published[p], last_reserved}
           b == last_applied + max_published[p] + last_reserved
<1>1. last_applied \in Nat /\ max_published[p] \in Nat /\ last_reserved \in Nat
  BY DEF TypeOK
<1>2. S \subseteq Nat /\ b \in Nat /\ \A x \in S : x <= b
  BY <1>1
<1>3. MaxOf(S) \in Nat /\ \A x \in S : x <= MaxOf(S)
  <2> HIDE DEF S, b
  <2> QED BY <1>2, MaxOfBounded
<1> QED BY <1>3

\* A snapshot of a producer that reserves covers every command that is there.
LEMMA SnapshotCovers ==
    ASSUME TypeOK, CommandsBounded, NEW p \in Producers \ Testers
    PROVE  MaxSeen(p) \in Nat /\ \A s \in DOMAIN commands : s <= MaxSeen(p)
<1>1. PICK b \in Nat : \A s \in DOMAIN commands : s <= b
  BY DEF CommandsBounded
<1>2. /\ MaxOf(DOMAIN commands) \in Nat
      /\ \A s \in DOMAIN commands : s <= MaxOf(DOMAIN commands)
  BY <1>1, MaxOfBounded DEF TypeOK
<1> QED BY <1>2 DEF MaxSeen

\* What is left to show of a step of q: that q itself stays in order.
LEMMA RestStaysInOrder ==
    ASSUME OrderInv, IInv', NEW q \in Producers, OnlyMoves(q),
           q \in Testers =>
               pc'[q] \in {"begin", "state2", "write", "done", "failed"},
           pc'[q] = "done" =>
               IF q \in Testers THEN EndOf(q)' \in DOMAIN commands'
               ELSE EndOf(q)' <= last_reserved',
           \A p \in before'[q] :
               pc[p] = "done" /\ (LooksPast(q, p) => IsAhead(p, q)')
    PROVE  OrderInv'
<1> USE ProducersAssumption
<1>1. TypeOK /\ TypeOK'
  BY DEF OrderInv, IInv
<1>2. TestersOnlyWrite'
  BY DEF OrderInv, TestersOnlyWrite, OnlyMoves
<1>3. \A p \in Producers \ {q} : EndOf(p)' = EndOf(p) /\ EndOf(p) \in Int
  BY <1>1 DEF OnlyMoves, EndOf, TypeOK
<1>4. /\ last_reserved \in Nat /\ last_reserved' \in Nat
      /\ last_applied \in Nat /\ last_reserved <= last_reserved'
  BY <1>1 DEF TypeOK, OnlyMoves
<1>5. DoneIsSeen'
  <2> SUFFICES ASSUME NEW p \in Producers, pc'[p] = "done"
               PROVE  IF p \in Testers
                      THEN EndOf(p)' \in DOMAIN commands' \/ EndOf(p)' <= last_applied'
                      ELSE EndOf(p)' <= last_reserved'
    BY DEF DoneIsSeen
  <2>1. CASE p = q
    BY <2>1
  <2>2. CASE p # q
    <3>1. IF p \in Testers
          THEN EndOf(p) \in DOMAIN commands \/ EndOf(p) <= last_applied
          ELSE EndOf(p) <= last_reserved
      BY <2>2 DEF OrderInv, DoneIsSeen, OnlyMoves
    <3>2. EndOf(p)' = EndOf(p) /\ EndOf(p) \in Int
      BY <1>3, <2>2
    <3> QED BY <3>1, <3>2, <1>4 DEF OnlyMoves
  <2> QED BY <2>1, <2>2
<1>6. LaterIsAhead'
  <2> SUFFICES ASSUME NEW r \in Producers, NEW p \in before'[r]
               PROVE  pc'[p] = "done" /\ (LooksPast(r, p) => IsAhead(p, r)')
    BY DEF LaterIsAhead, LooksPast
  <2>0. p \in Producers
    BY <1>1 DEF TypeOK
  <2>1. pc[p] = "done"
    BY DEF OrderInv, LaterIsAhead, OnlyMoves
  <2>2. pc'[p] = "done"
    BY <2>0, <2>1 DEF OnlyMoves
  <2>3. CASE r = q
    BY <2>2, <2>3
  <2>4. CASE r # q
    <3> SUFFICES ASSUME LooksPast(r, p) PROVE IsAhead(p, r)'
      BY <2>2
    <3>1. IsAhead(p, r)
      BY <2>4 DEF OrderInv, LaterIsAhead, OnlyMoves
    <3>2. EndOf(p)' = EndOf(p) /\ EndOf(p) \in Int
      BY <1>3, <2>0, <2>1 DEF OnlyMoves
    <3>3. /\ pc'[r] = pc[r] /\ max_published'[r] = max_published[r]
          /\ floor_seq'[r] = floor_seq[r] /\ start_seq'[r] = start_seq[r]
          /\ last_applied' = last_applied
      BY <2>4 DEF OnlyMoves
    <3> QED BY <3>1, <3>2, <3>3, <1>4 DEF IsAhead
  <2> QED BY <2>3, <2>4
<1> QED BY <1>2, <1>5, <1>6 DEF OrderInv

\* The order holds of the empty queue.
LEMMA InitOrder == Init => OrderInv
<1> SUFFICES ASSUME Init PROVE OrderInv
  OBVIOUS
<1>1. IInv
  BY InitInvariant
<1>2. TestersOnlyWrite /\ DoneIsSeen /\ LaterIsAhead
  BY ProducersAssumption DEF Init, TestersOnlyWrite, DoneIsSeen, LaterIsAhead
<1> QED BY <1>1, <1>2 DEF OrderInv

\* Every step keeps the order.
LEMMA StepOrder == OrderInv /\ [Next]_vars => OrderInv'
<1> SUFFICES ASSUME OrderInv, [Next]_vars PROVE OrderInv'
  OBVIOUS
<1> USE ProducersAssumption
<1>1. IInv /\ IInv'
  BY StepInvariant DEF OrderInv
<1>2. TypeOK /\ TypeOK' /\ CommandsBounded
  BY <1>1 DEF IInv
<1>3. /\ last_reserved \in Nat /\ last_applied \in Nat
      /\ \A p \in Producers : EndOf(p) \in Int /\ before[p] \subseteq Producers
  BY <1>2 DEF TypeOK, EndOf
<1>4. \A q \in Producers : \A p \in before[q] :
          p \in Producers /\ pc[p] = "done" /\ (LooksPast(q, p) => IsAhead(p, q))
  BY <1>3 DEF OrderInv, LaterIsAhead
<1>5. \A p \in Testers : pc[p] \in {"begin", "state2", "write", "done", "failed"}
  BY DEF OrderInv, TestersOnlyWrite
<1>6. \A p \in Producers :
          pc[p] = "done" =>
              IF p \in Testers
              THEN EndOf(p) \in DOMAIN commands \/ EndOf(p) <= last_applied
              ELSE EndOf(p) <= last_reserved
  BY DEF OrderInv, DoneIsSeen
<1>7. ASSUME NEW q \in Producers, Begin(q) PROVE OrderInv'
  <2>1. OnlyMoves(q)
    BY <1>2, <1>7 DEF OnlyMoves, Begin, Move, cloud, TypeOK
  <2>2. /\ pc[q] = "begin"
        /\ pc'[q] = IF q \in Jobs THEN "state1" ELSE "state2"
        /\ max_published'[q] = MaxSeen(q)
        /\ UNCHANGED <<start_seq, last_applied, last_reserved>>
        /\ before'[q] = {p \in Producers : pc[p] = "done"}
    BY <1>2, <1>7 DEF Begin, Move, cloud, TypeOK
  <2>3. \A p \in before'[q] : pc[p] = "done" /\ (LooksPast(q, p) => IsAhead(p, q)')
    <3> SUFFICES ASSUME NEW p \in Producers, pc[p] = "done", LooksPast(q, p)
                 PROVE  IsAhead(p, q)'
      BY <2>2
    <3>1. EndOf(p)' = EndOf(p)
      BY <2>2 DEF EndOf
    <3>2. \/ EndOf(p) <= MaxSeen(q)
          \/ EndOf(p) <= last_applied
          \/ EndOf(p) <= last_reserved
      <4>1. CASE p \in Testers
        <5>1. q \notin Testers
          BY <4>1 DEF LooksPast
        <5> QED BY <5>1, <4>1, <1>2, <1>6, SnapshotCovers
      <4>2. CASE p \notin Testers
        BY <4>2, <1>6
      <4> QED BY <4>1, <4>2
    <3> QED BY <2>2, <3>1, <3>2 DEF IsAhead
  <2> QED BY <1>1, <2>1, <2>2, <2>3, RestStaysInOrder
<1>8. ASSUME NEW q \in Producers, ReadCommands(q) PROVE OrderInv'
  <2>1. OnlyMoves(q)
    BY <1>2, <1>8 DEF OnlyMoves, ReadCommands, Move, cloud, TypeOK
  <2>2. /\ pc[q] = "commands" /\ pc'[q] = "state2" /\ max_published'[q] = MaxSeen(q)
        /\ UNCHANGED <<start_seq, last_applied, last_reserved, before>>
    BY <1>2, <1>8 DEF ReadCommands, Move, cloud, TypeOK
  <2>3. q \notin Testers
    BY <1>5, <2>2
  <2>4. ASSUME NEW p \in before[q], LooksPast(q, p) PROVE IsAhead(p, q)'
    <3>1. EndOf(p)' = EndOf(p) /\ p \in Producers /\ pc[p] = "done"
      BY <1>4, <2>2 DEF EndOf
    <3>2. \/ EndOf(p) <= MaxSeen(q)
          \/ EndOf(p) <= last_applied
          \/ EndOf(p) <= last_reserved
      BY <3>1, <1>2, <1>6, <2>3, SnapshotCovers
    <3> QED BY <2>2, <3>1, <3>2 DEF IsAhead
  <2> QED BY <1>1, <1>4, <2>1, <2>2, <2>3, <2>4, RestStaysInOrder
<1>9. ASSUME NEW q \in Producers, ReadState(q) PROVE OrderInv'
  <2> DEFINE floor == MaxOf({last_applied, max_published[q], last_reserved})
  <2>1. OnlyMoves(q)
    BY <1>2, <1>9 DEF OnlyMoves, ReadState, Move, cloud, TypeOK
  <2>2. /\ q \notin Testers
        /\ pc[q] \in {"state1", "state2"} /\ pc'[q] \in {"reserve1", "reserve2"}
        /\ floor_seq'[q] = floor
        /\ UNCHANGED <<start_seq, last_applied, last_reserved, before>>
    BY <1>2, <1>9 DEF ReadState, Move, cloud, TypeOK
  <2>3. /\ floor \in Nat /\ last_applied <= floor /\ last_reserved <= floor
        /\ max_published[q] <= floor /\ max_published[q] \in Nat
    BY <1>2, FloorCovers DEF TypeOK
  <2> HIDE DEF floor
  <2>4. ASSUME NEW p \in before[q], LooksPast(q, p) PROVE IsAhead(p, q)'
    <3>1. EndOf(p)' = EndOf(p) /\ EndOf(p) \in Int /\ IsAhead(p, q)
      BY <1>3, <1>4, <2>2, <2>4 DEF EndOf
    <3>2. EndOf(p) <= floor
      BY <3>1, <1>3, <2>2, <2>3 DEF IsAhead
    <3> QED BY <2>2, <3>1, <3>2 DEF IsAhead
  <2> QED BY <1>1, <1>4, <2>1, <2>2, <2>4, RestStaysInOrder
<1>10. ASSUME NEW q \in Producers, Reserve(q) PROVE OrderInv'
  <2> DEFINE first == FirstFree(q)
             last == first + Size[q] - 1
  <2>1. /\ first \in Nat /\ last \in Nat /\ last >= first /\ floor_seq[q] \in Nat
        /\ first > last_reserved /\ first > floor_seq[q]
    BY <1>2, FirstFreeIsFree, FirstFreeIsPastFloor DEF TypeOK
  <2>2. /\ pc[q] \in {"reserve1", "reserve2"} /\ pc'[q] \in {"commands", "write"}
        /\ start_seq' = [start_seq EXCEPT ![q] = first]
        /\ last_reserved' = last
        /\ UNCHANGED <<commands, last_applied, before>>
    BY <1>2, <1>10 DEF Reserve, Move, TypeOK
  <2> HIDE DEF first, last
  <2>3. OnlyMoves(q)
    BY <1>2, <1>3, <1>10, <2>1, <2>2 DEF OnlyMoves, Reserve, Move, TypeOK
  <2>4. q \notin Testers
    BY <1>5, <2>2
  <2>5. ASSUME NEW p \in before[q], LooksPast(q, p) PROVE IsAhead(p, q)'
    <3>1. p # q /\ p \in Producers /\ EndOf(p) \in Int /\ IsAhead(p, q)
      BY <1>3, <1>4, <2>2, <2>5
    <3>2. EndOf(p)' = EndOf(p) /\ start_seq'[q] = first
      BY <1>2, <2>2, <3>1 DEF EndOf, TypeOK
    <3>3. EndOf(p) < first
      BY <3>1, <1>3, <2>1, <2>2 DEF IsAhead
    <3> QED BY <2>2, <3>2, <3>3 DEF IsAhead
  <2> QED BY <1>1, <1>4, <2>2, <2>3, <2>4, <2>5, RestStaysInOrder
<1>11. ASSUME NEW q \in Producers, WriteCommands(q) PROVE OrderInv'
  <2>1. OnlyMoves(q)
    BY <1>2, <1>3, <1>11 DEF OnlyMoves, WriteCommands, Move, locals, TypeOK
  <2>2. /\ pc[q] = "write"
        /\ pc'[q] = IF q \in Testers THEN "done" ELSE "note"
        /\ DOMAIN commands' = DOMAIN commands \union RangeOf(q, start_seq[q])
        /\ UNCHANGED <<start_seq, last_applied, last_reserved, before>>
    BY <1>2, <1>11 DEF WriteCommands, Move, locals, TypeOK
  <2>3. EndOf(q)' \in DOMAIN commands'
    <3>1. EndOf(q)' = EndOf(q)
      BY <2>2 DEF EndOf
    <3>2. EndOf(q) \in RangeOf(q, start_seq[q])
      BY <1>2 DEF EndOf, RangeOf, TypeOK
    <3> QED BY <2>2, <3>1, <3>2
  <2>4. ASSUME NEW p \in before[q], LooksPast(q, p) PROVE IsAhead(p, q)'
    BY <1>4, <2>2, <2>4 DEF IsAhead, EndOf
  <2> QED BY <1>1, <1>4, <2>1, <2>2, <2>3, <2>4, RestStaysInOrder
<1>12. ASSUME NEW q \in Producers, WriteState(q) PROVE OrderInv'
  <2>1. OnlyMoves(q)
    BY <1>2, <1>3, <1>12 DEF OnlyMoves, WriteState, Move, locals, TypeOK
  <2>2. /\ pc[q] = "note" /\ pc'[q] = "done"
        /\ UNCHANGED <<start_seq, last_applied, last_reserved, before>>
    BY <1>2, <1>12 DEF WriteState, Move, locals, TypeOK
  <2>3. q \notin Testers
    BY <1>5, <2>2
  <2>4. EndOf(q)' <= last_reserved'
    <3>1. <<q, start_seq[q], EndOf(q)>> \in reserved
      BY <1>1, <2>2, <2>3 DEF IInv, WritersReserved, EndOf
    <3>2. EndOf(q) <= last_reserved
      BY <1>1, <3>1 DEF IInv, ReservedIsTaken
    <3> QED BY <2>2, <3>2 DEF EndOf
  <2>5. ASSUME NEW p \in before[q], LooksPast(q, p) PROVE IsAhead(p, q)'
    BY <1>4, <2>2, <2>5 DEF IsAhead, EndOf
  <2> QED BY <1>1, <1>4, <2>1, <2>2, <2>3, <2>4, <2>5, RestStaysInOrder
<1>13. ASSUME NEW q \in Producers, TesterReadState(q) PROVE OrderInv'
  <2>1. PICK n \in Options[q] :
           start_seq' = [start_seq EXCEPT ![q] = IF n > 0 THEN n ELSE FirstSafe(q)]
    BY <1>13 DEF TesterReadState
  <2> DEFINE first == IF n > 0 THEN n ELSE FirstSafe(q)
  <2>2. /\ n \in Nat /\ first \in Nat /\ max_published[q] \in Nat
        /\ Options[q] = {0} => first = FirstSafe(q)
    BY <1>2, <1>13, <2>1, FirstSafeIsPast DEF TypeOK, TesterReadState
  <2>3. Options[q] = {0} /\ q \notin Stateless =>
           max_published[q] < first /\ last_applied < first /\ last_reserved < first
    BY <1>2, <2>2, FirstSafeIsPast
  <2>4. /\ pc[q] = "state2" /\ pc'[q] = "write" /\ q \in Testers
        /\ start_seq' = [start_seq EXCEPT ![q] = first]
        /\ UNCHANGED <<commands, last_applied, last_reserved, before>>
    BY <1>2, <1>13, <2>1 DEF TesterReadState, Move, cloud, TypeOK
  <2> HIDE DEF first
  <2>5. OnlyMoves(q)
    BY <1>2, <1>3, <1>13, <2>2, <2>4 DEF OnlyMoves, TesterReadState, Move, cloud, TypeOK
  <2>6. ASSUME NEW p \in before[q], LooksPast(q, p) PROVE IsAhead(p, q)'
    <3>1. p # q /\ p \in Producers /\ EndOf(p) \in Int /\ IsAhead(p, q)
      BY <1>3, <1>4, <2>4, <2>6
    <3>2. EndOf(p)' = EndOf(p) /\ start_seq'[q] = first
      BY <1>2, <2>2, <2>4, <3>1 DEF EndOf, TypeOK
    <3>3. Options[q] = {0} /\ q \notin Stateless
      BY <2>4, <2>6 DEF LooksPast
    <3>4. EndOf(p) < first
      BY <3>1, <3>3, <1>3, <2>2, <2>3, <2>4 DEF IsAhead
    <3> QED BY <2>4, <3>2, <3>4 DEF IsAhead
  <2> QED BY <1>1, <1>4, <2>4, <2>5, <2>6, RestStaysInOrder
<1>14. ASSUME NEW q \in Producers, Fail(q) PROVE OrderInv'
  <2>1. OnlyMoves(q)
    BY <1>2, <1>3, <1>14 DEF OnlyMoves, Fail, cloud, locals, TypeOK
  <2>2. pc'[q] = "failed" /\ UNCHANGED before
    BY <1>2, <1>14 DEF Fail, TypeOK
  <2>3. ASSUME NEW p \in before[q], LooksPast(q, p) PROVE IsAhead(p, q)'
    BY <2>2 DEF IsAhead
  <2> QED BY <1>1, <1>4, <2>1, <2>2, <2>3, RestStaysInOrder
<1>15. ASSUME NEW s \in DOMAIN commands, BridgeApplies(s) PROVE OrderInv'
  <2>1. /\ s > last_applied /\ last_applied' = s
        /\ DOMAIN commands' = {t \in DOMAIN commands : t > s}
        /\ UNCHANGED <<last_reserved, pc, max_published, floor_seq, start_seq, before>>
    BY <1>15 DEF BridgeApplies, Restrict, locals
  <2>2. s \in Nat
    BY <1>2 DEF TypeOK
  <2>3. \A p \in Producers : EndOf(p)' = EndOf(p)
    BY <2>1 DEF EndOf
  <2>4. TestersOnlyWrite'
    BY <1>5, <2>1 DEF TestersOnlyWrite
  <2>5. DoneIsSeen'
    BY <1>3, <1>6, <2>1, <2>2, <2>3 DEF DoneIsSeen
  <2>6. ASSUME NEW q \in Producers, NEW p \in before[q], LooksPast(q, p)
        PROVE  IsAhead(p, q)'
    <3>1. p \in Producers /\ IsAhead(p, q)
      BY <1>4, <2>6
    <3> QED BY <1>3, <2>1, <2>2, <2>3, <3>1 DEF IsAhead
  <2> QED BY <1>1, <1>4, <2>1, <2>4, <2>5, <2>6 DEF OrderInv, LaterIsAhead
<1>16. CASE UNCHANGED vars
  BY <1>1, <1>16
     DEF vars, cloud, locals, OrderInv, TestersOnlyWrite, DoneIsSeen, LaterIsAhead,
         IsAhead, EndOf, LooksPast
<1> QED BY <1>7, <1>8, <1>9, <1>10, <1>11, <1>12, <1>13, <1>14, <1>15, <1>16
        DEF Next, Produce

\* Whatever is under way, and wherever push-tests have written, a request that
\* came in after another one had finished is typed after it; so is a push-test
\* that looks for itself, except after other push-tests, which it may not see.
THEOREM LaterIsTypedLater == Spec => []JobsAppend
<1>1. OrderInv => JobsAppend
  <2> SUFFICES ASSUME OrderInv, NEW p \in Producers, NEW q \in Producers,
                      p \in before[q], LooksPast(q, p), pc[q] \in {"note", "done"}
               PROVE  start_seq[q] >= start_seq[p] + Size[p]
    BY DEF JobsAppend
  <2>1. EndOf(p) < start_seq[q]
    BY DEF OrderInv, LaterIsAhead, IsAhead
  <2>2. start_seq[p] \in Nat /\ start_seq[q] \in Nat /\ Size[p] \in Nat
    BY ProducersAssumption DEF OrderInv, IInv, TypeOK
  <2> QED BY <2>1, <2>2 DEF EndOf
<1> QED BY <1>1, StepOrder, InitOrder, PTL DEF Spec
=============================================================================
