------------------------ MODULE CommandOrderingProofs ------------------------
(***************************************************************************)
(* The reordering buffer is correct for every bound on the numbers, every  *)
(* payload, every first number and every recovery interval: it releases    *)
(* each command once, in order, in its first version, and accounts for     *)
(* every number it passes.                                                 *)
(***************************************************************************)
EXTENDS CommandOrdering, OrderLemmas, SequenceTheorems

-----------------------------------------------------------------------------
(* Batches and numbers *)

\* A batch is a function on some of the numbers.
LEMMA BatchIsFunction ==
    ASSUME NEW held
    PROVE  held \in Batches <=>
               /\ held = [s \in DOMAIN held |-> held[s]]
               /\ DOMAIN held \subseteq Seqs
               /\ \A s \in DOMAIN held : held[s] \in Payload
BY DEF Batches

\* The drain stops at the first number that is missing: it passes over
\* numbers that are there only, and never past MaxSeq + 1.
LEMMA FirstMissingProperties ==
    ASSUME NEW n \in 1..(MaxSeq + 1), NEW S, S \subseteq Seqs
    PROVE  LET m == FirstMissing(n, S)
           IN  m \in n..(MaxSeq + 1) /\ m \notin S /\ n..(m - 1) \subseteq S
<1> DEFINE M == {x \in n..(MaxSeq + 1) : x \notin S}
<1>1. MaxSeq \in Nat
  BY MaxSeqAssumption
<1>2. M \subseteq Nat
  BY <1>1
<1>3. MaxSeq + 1 \in M
  BY <1>1 DEF Seqs
<1>4. PICK m \in M : \A x \in M : m <= x
  <2> HIDE DEF M
  <2> QED BY <1>2, <1>3, SmallestNat
<1>5. m \in n..(MaxSeq + 1) /\ m \notin S
  BY <1>4
<1>6. n..(m - 1) \subseteq S
  <2> SUFFICES ASSUME NEW x \in n..(m - 1), x \notin S PROVE FALSE
    OBVIOUS
  <2>1. x \in M
    BY <1>1, <1>5
  <2>2. m <= x
    BY <1>4, <2>1
  <2> QED BY <1>1, <1>5, <2>2
<1> QED BY <1>5, <1>6 DEF FirstMissing

\* recover_stale_gap takes the lowest number it holds.
LEMMA MinProperties ==
    ASSUME NEW S, S \subseteq Seqs, S # {}
    PROVE  Min(S) \in S /\ \A s \in S : Min(S) <= s
<1>1. S \subseteq Nat
  BY MaxSeqAssumption DEF Seqs
<1>2. \E m \in S : \A s \in S : m <= s
  BY <1>1, SmallestNat
<1> QED BY <1>2 DEF Min

-----------------------------------------------------------------------------
(* What a drain does *)

\* A drain from n keeps what it holds beyond the first missing number, and
\* the timer runs if that is anything.
LEMMA DrainKeepsTheRest ==
    ASSUME NEW n \in 1..(MaxSeq + 1), NEW held \in Batches,
           \A s \in DOMAIN held : s >= n,
           gap_age \in {NoGap} \union 0..MaxGapAge,
           DrainFrom(n, held)
    PROVE  LET m == FirstMissing(n, DOMAIN held)
           IN  /\ next_seq' = m
               /\ pending' \in Batches
               /\ DOMAIN pending' = DOMAIN held \ n..(m - 1)
               /\ \A s \in DOMAIN pending' : s > m /\ pending'[s] = held[s]
               /\ gap_age' \in {NoGap} \union 0..MaxGapAge
               /\ gap_age' # NoGap <=> DOMAIN pending' # {}
<1> DEFINE m == FirstMissing(n, DOMAIN held)
           left == DOMAIN held \ n..(m - 1)
<1>1. DOMAIN held \subseteq Seqs /\ \A s \in DOMAIN held : held[s] \in Payload
  BY BatchIsFunction
<1>2. m \in n..(MaxSeq + 1) /\ m \notin DOMAIN held
  BY <1>1, FirstMissingProperties
<1>3. /\ next_seq' = m
      /\ pending' = [s \in left |-> held[s]]
      /\ gap_age' = RefreshedAge(m, left)
  BY DEF DrainFrom, Restrict
<1> HIDE DEF m
<1>4. DOMAIN pending' = left /\ \A s \in left : pending'[s] = held[s]
  BY <1>3
<1>5. pending' \in Batches
  BY <1>1, <1>3 DEF Batches
<1>6. \A s \in left : s > m
  BY <1>1, <1>2, MaxSeqAssumption DEF Seqs
<1>7. m \notin left
  BY <1>2
<1>8. gap_age' = IF left # {} THEN IF gap_age = NoGap THEN 0 ELSE gap_age
                 ELSE NoGap
  BY <1>3, <1>7 DEF RefreshedAge
<1>9. /\ gap_age' \in {NoGap} \union 0..MaxGapAge
      /\ gap_age' # NoGap <=> left # {}
  BY <1>8, MaxGapAgeAssumption DEF NoGap
<1> QED BY <1>3, <1>4, <1>5, <1>6, <1>9 DEF m

\* What it hands out are the commands n..m-1, one after the other.
LEMMA RunProperties ==
    ASSUME NEW n \in 1..(MaxSeq + 1), NEW held \in Batches,
           NEW m \in n..(MaxSeq + 1), n..(m - 1) \subseteq DOMAIN held
    PROVE  /\ Run(n, m, held) \in Seq(Seqs \X Payload)
           /\ Len(Run(n, m, held)) = m - n
           /\ \A i \in 1..(m - n) :
                  /\ Run(n, m, held)[i][1] = n + i - 1
                  /\ Run(n, m, held)[i][2] = held[n + i - 1]
<1> DEFINE r == Run(n, m, held)
<1>1. DOMAIN held \subseteq Seqs /\ \A s \in DOMAIN held : held[s] \in Payload
  BY BatchIsFunction
<1>2. n \in Nat /\ m \in Nat /\ m - n \in Nat
  BY MaxSeqAssumption
<1>3. \A i \in 1..(m - n) : n + i - 1 \in n..(m - 1)
  BY <1>2
<1>4. \A i \in 1..(m - n) : <<n + i - 1, held[n + i - 1]>> \in Seqs \X Payload
  BY <1>1, <1>3
<1>5. r \in [1..(m - n) -> Seqs \X Payload]
  BY <1>4 DEF Run
<1>6. DOMAIN r = 1..(m - n)
  BY DEF Run
<1> HIDE DEF r
<1>7. r \in Seq(Seqs \X Payload)
  BY <1>2, <1>5, SeqDef
<1>8. Len(r) = m - n
  BY <1>2, <1>6, <1>7, LenProperties
<1> QED BY <1>7, <1>8 DEF r, Run

-----------------------------------------------------------------------------
(* What the two calls do to a buffer that holds only what is ahead *)

BufferIsAhead ==
    /\ next_seq \in 1..(MaxSeq + 1)
    /\ pending \in Batches
    /\ \A s \in DOMAIN pending : s > next_seq
    /\ gap_age \in {NoGap} \union 0..MaxGapAge

\* What the buffer holds with a batch in it is not below next_seq.
LEMMA AcceptProperties ==
    ASSUME BufferIsAhead, NEW batch \in Batches
    PROVE  /\ Accept(batch) \in Batches
           /\ DOMAIN Accept(batch)
                = DOMAIN pending \union {t \in DOMAIN batch : t >= next_seq}
           /\ \A s \in DOMAIN Accept(batch) : s >= next_seq
<1> DEFINE held == Accept(batch)
<1>1. /\ DOMAIN pending \subseteq Seqs /\ \A s \in DOMAIN pending : pending[s] \in Payload
      /\ DOMAIN batch \subseteq Seqs /\ \A s \in DOMAIN batch : batch[s] \in Payload
  BY BatchIsFunction DEF BufferIsAhead
<1>2. /\ DOMAIN held = DOMAIN pending \union {t \in DOMAIN batch : t >= next_seq}
      /\ \A s \in DOMAIN held :
             held[s] = IF s \in DOMAIN pending THEN pending[s] ELSE batch[s]
      /\ held = [s \in DOMAIN held |-> held[s]]
  BY DEF Accept
<1> HIDE DEF held
<1>3. held \in Batches
  BY <1>1, <1>2, BatchIsFunction
<1>4. \A s \in DOMAIN held : s >= next_seq
  BY <1>1, <1>2, MaxSeqAssumption DEF BufferIsAhead, Seqs
<1> QED BY <1>2, <1>3, <1>4 DEF held

\* A push passes over what is there, keeps the rest, and returns what it passed.
LEMMA PushProperties ==
    ASSUME BufferIsAhead, NEW batch \in Batches, Push(batch)
    PROVE  /\ BufferIsAhead'
           /\ next_seq' \in next_seq..(MaxSeq + 1)
           /\ DOMAIN pending' = DOMAIN Accept(batch) \ next_seq..(next_seq' - 1)
           /\ PushReady(batch) \in Seq(Seqs \X Payload)
           /\ Len(PushReady(batch)) = next_seq' - next_seq
           /\ \A i \in 1..(next_seq' - next_seq) :
                  PushReady(batch)[i][1] = next_seq + i - 1
<1> DEFINE held == Accept(batch)
           m == FirstMissing(next_seq, DOMAIN held)
<1>1. /\ held \in Batches /\ DOMAIN held \subseteq Seqs
      /\ \A s \in DOMAIN held : s >= next_seq
  BY AcceptProperties, BatchIsFunction
<1>2. next_seq \in 1..(MaxSeq + 1) /\ gap_age \in {NoGap} \union 0..MaxGapAge
  BY DEF BufferIsAhead
<1>3. m \in next_seq..(MaxSeq + 1) /\ next_seq..(m - 1) \subseteq DOMAIN held
  BY <1>1, <1>2, FirstMissingProperties
<1>4. DrainFrom(next_seq, held) /\ PushReady(batch) = Run(next_seq, m, held)
  BY DEF Push, PushReady
<1> HIDE DEF held
<1>5. /\ next_seq' = m /\ pending' \in Batches
      /\ DOMAIN pending' = DOMAIN held \ next_seq..(m - 1)
      /\ \A s \in DOMAIN pending' : s > m
      /\ gap_age' \in {NoGap} \union 0..MaxGapAge
  BY <1>1, <1>2, <1>4, DrainKeepsTheRest
<1> HIDE DEF m
<1>6. /\ Run(next_seq, m, held) \in Seq(Seqs \X Payload)
      /\ Len(Run(next_seq, m, held)) = m - next_seq
      /\ \A i \in 1..(m - next_seq) : Run(next_seq, m, held)[i][1] = next_seq + i - 1
  BY <1>1, <1>2, <1>3, RunProperties
<1>7. BufferIsAhead'
  BY <1>2, <1>3, <1>5, MaxSeqAssumption DEF BufferIsAhead
<1> QED BY <1>3, <1>4, <1>5, <1>6, <1>7 DEF held

\* A skip goes to the lowest number held, and on from there.
LEMMA SkipProperties ==
    ASSUME BufferIsAhead, SkipGap
    PROVE  /\ BufferIsAhead'
           /\ SkipReady \in Seq(Seqs \X Payload)
           /\ next_seq..(Min(DOMAIN pending) - 1) \subseteq Seqs
           /\ Min(DOMAIN pending) \in DOMAIN pending /\ next_seq < Min(DOMAIN pending)
           /\ next_seq' \in Min(DOMAIN pending)..(MaxSeq + 1)
           /\ DOMAIN pending' = DOMAIN pending \ Min(DOMAIN pending)..(next_seq' - 1)
           /\ Len(SkipReady) = next_seq' - Min(DOMAIN pending)
           /\ \A i \in 1..(next_seq' - Min(DOMAIN pending)) :
                  SkipReady[i][1] = Min(DOMAIN pending) + i - 1
<1> DEFINE n == Min(DOMAIN pending)
           m == FirstMissing(n, DOMAIN pending)
<1>1. /\ DOMAIN pending \subseteq Seqs /\ DOMAIN pending # {} /\ pending \in Batches
      /\ next_seq \in 1..(MaxSeq + 1) /\ gap_age \in {NoGap} \union 0..MaxGapAge
  BY BatchIsFunction DEF BufferIsAhead, SkipGap, GapIsStale
<1>2. n \in DOMAIN pending /\ \A s \in DOMAIN pending : n <= s
  BY <1>1, MinProperties
<1>3. DrainFrom(n, pending) /\ SkipReady = Run(n, m, pending)
  BY DEF SkipGap, SkipReady
<1> HIDE DEF n
<1>4. n \in 1..(MaxSeq + 1) /\ \A s \in DOMAIN pending : s >= n
  BY <1>1, <1>2, MaxSeqAssumption DEF Seqs
<1>5. m \in n..(MaxSeq + 1) /\ n..(m - 1) \subseteq DOMAIN pending
  BY <1>1, <1>4, FirstMissingProperties
<1>6. /\ next_seq' = m /\ pending' \in Batches
      /\ DOMAIN pending' = DOMAIN pending \ n..(m - 1)
      /\ \A s \in DOMAIN pending' : s > m
      /\ gap_age' \in {NoGap} \union 0..MaxGapAge
  BY <1>1, <1>3, <1>4, DrainKeepsTheRest
<1> HIDE DEF m
<1>7. /\ Run(n, m, pending) \in Seq(Seqs \X Payload)
      /\ Len(Run(n, m, pending)) = m - n
      /\ \A i \in 1..(m - n) : Run(n, m, pending)[i][1] = n + i - 1
  <2>1. n..(m - 1) \subseteq DOMAIN pending /\ m \in n..(MaxSeq + 1) /\ n \in 1..(MaxSeq + 1)
        /\ pending \in Batches
    BY <1>1, <1>4, <1>5
  <2> QED BY <2>1, RunProperties
<1>8. BufferIsAhead'
  BY <1>4, <1>5, <1>6, MaxSeqAssumption DEF BufferIsAhead
<1>9. next_seq..(n - 1) \subseteq Seqs
  BY <1>1, <1>2, MaxSeqAssumption DEF Seqs
<1>10. next_seq < n
  BY <1>2 DEF BufferIsAhead
<1> QED BY <1>2, <1>3, <1>5, <1>6, <1>7, <1>8, <1>9, <1>10 DEF n

-----------------------------------------------------------------------------
(* The inductive invariant *)

\* The properties are inductive together: what was released lies below
\* next_seq (GapsAreAccountedFor), which is why what comes out next is later
\* (EmittedInOrder) and new (NoAcceptedCommandLost).
IInv ==
    /\ TypeOK
    /\ EmittedInOrder
    /\ NoAcceptedCommandLost
    /\ GapsAreAccountedFor
    /\ TimerRunsIffGap

-----------------------------------------------------------------------------
(* Lists that grow in order *)

\* Put after commands that are all below n they keep the order.
LEMMA InOrderAfter ==
    ASSUME NEW k \in Nat, NEW d \in Nat, NEW n \in Nat, NEW old, NEW new,
           DOMAIN old = 1..k, DOMAIN new = 1..(k + d),
           \A i \in 1..k : new[i] = old[i] /\ old[i][1] \in Nat /\ old[i][1] < n,
           \A i, j \in 1..k : i < j => old[i][1] < old[j][1],
           \A i \in 1..(k + d) : i > k => new[i][1] = n + (i - k) - 1
    PROVE  \A i, j \in DOMAIN new : i < j => new[i][1] < new[j][1]
<1> SUFFICES ASSUME NEW i \in 1..(k + d), NEW j \in 1..(k + d), i < j
             PROVE  new[i][1] < new[j][1]
  OBVIOUS
<1>1. CASE j <= k
  BY <1>1
<1>2. CASE j > k /\ i <= k
  BY <1>2
<1>3. CASE i > k
  BY <1>3
<1> QED BY <1>1, <1>2, <1>3

\* A drain from n that follows what was released before hands out n..m-1, in
\* order, after it.
LEMMA DrainReleasesInOrder ==
    ASSUME NEW n \in 1..(MaxSeq + 1), NEW held \in Batches,
           emitted \in Seq(Seqs \X Payload), EmittedInOrder,
           \A s \in EmittedSeqs : s < n,
           NEW m \in n..(MaxSeq + 1), n..(m - 1) \subseteq DOMAIN held,
           emitted' = emitted \o Run(n, m, held)
    PROVE  /\ emitted' \in Seq(Seqs \X Payload)
           /\ EmittedInOrder'
           /\ EmittedSeqs' = EmittedSeqs \union n..(m - 1)
           /\ \A i \in DOMAIN emitted' :
                  \/ i \in DOMAIN emitted /\ emitted'[i] = emitted[i]
                  \/ emitted'[i][1] \in n..(m - 1)
                     /\ emitted'[i][2] = held[emitted'[i][1]]
<1> DEFINE r == Run(n, m, held)
           k == Len(emitted)
           d == m - n
<1>1. n \in Nat /\ d \in Nat /\ m = n + d
  BY MaxSeqAssumption
<1>2. /\ r \in Seq(Seqs \X Payload) /\ Len(r) = d
      /\ \A i \in 1..d : r[i][1] = n + i - 1 /\ r[i][2] = held[n + i - 1]
  BY RunProperties
<1> HIDE DEF r, d
<1>3. k \in Nat /\ DOMAIN emitted = 1..k
  BY LenProperties
<1>4. /\ emitted' \in Seq(Seqs \X Payload)
      /\ Len(emitted') = k + d
      /\ \A i \in 1..(k + d) :
             emitted'[i] = IF i <= k THEN emitted[i] ELSE r[i - k]
  BY <1>2, ConcatProperties DEF r
<1> HIDE DEF k
<1>5. DOMAIN emitted' = 1..(k + d)
  BY <1>4, LenProperties
<1>6. \A i \in 1..k : i \in 1..(k + d) /\ emitted'[i] = emitted[i]
  BY <1>1, <1>3, <1>4
<1>7. \A i \in 1..(k + d) : i > k =>
          /\ emitted'[i][1] = n + (i - k) - 1
          /\ emitted'[i][2] = held[n + (i - k) - 1]
  <2> SUFFICES ASSUME NEW i \in 1..(k + d), i > k
               PROVE  /\ emitted'[i][1] = n + (i - k) - 1
                      /\ emitted'[i][2] = held[n + (i - k) - 1]
    OBVIOUS
  <2>1. i - k \in 1..d /\ ~(i <= k)
    BY <1>1, <1>3
  <2>2. emitted'[i] = r[i - k]
    BY <1>4, <2>1
  <2> QED BY <1>2, <2>1, <2>2
<1>8. EmittedInOrder'
  <2>1. \A i \in 1..k : emitted[i][1] \in Nat /\ emitted[i][1] < n
    <3> SUFFICES ASSUME NEW i \in 1..k
                 PROVE  emitted[i][1] \in Nat /\ emitted[i][1] < n
      OBVIOUS
    <3>1. emitted[i] \in Seqs \X Payload
      BY <1>3, ElementOfSeq DEF k
    <3>2. emitted[i][1] \in EmittedSeqs
      BY <1>3 DEF EmittedSeqs
    <3> QED BY <3>1, <3>2, MaxSeqAssumption DEF Seqs
  <2>2. \A i, j \in 1..k : i < j => emitted[i][1] < emitted[j][1]
    BY <1>3 DEF EmittedInOrder
  <2> DEFINE new == emitted'
  <2>3. \A i \in 1..k :
            new[i] = emitted[i] /\ emitted[i][1] \in Nat /\ emitted[i][1] < n
    BY <1>6, <2>1
  <2>4. \A i \in 1..(k + d) : i > k => new[i][1] = n + (i - k) - 1
    BY <1>7
  <2>5. DOMAIN new = 1..(k + d) /\ DOMAIN emitted = 1..k
    BY <1>3, <1>5
  <2> HIDE DEF new
  <2>6. \A i, j \in DOMAIN new : i < j => new[i][1] < new[j][1]
    BY ONLY <1>1, <1>3, <2>2, <2>3, <2>4, <2>5, InOrderAfter
  <2> QED BY <2>6 DEF EmittedInOrder, new
<1>9. \A i \in 1..(k + d) :
          \/ i \in 1..k
          \/ /\ i > k
             /\ n + (i - k) - 1 \in n..(m - 1)
  BY <1>1, <1>3
<1>10. \A i \in DOMAIN emitted' :
          \/ i \in DOMAIN emitted /\ emitted'[i] = emitted[i]
          \/ emitted'[i][1] \in n..(m - 1) /\ emitted'[i][2] = held[emitted'[i][1]]
  <2> SUFFICES ASSUME NEW i \in 1..(k + d), i \notin 1..k
               PROVE  /\ emitted'[i][1] \in n..(m - 1)
                      /\ emitted'[i][2] = held[emitted'[i][1]]
    BY <1>3, <1>5, <1>6
  <2>1. i > k /\ n + (i - k) - 1 \in n..(m - 1)
    BY <1>9
  <2>2. /\ emitted'[i][1] = n + (i - k) - 1
        /\ emitted'[i][2] = held[n + (i - k) - 1]
    BY <1>7, <2>1
  <2> QED BY <2>1, <2>2
<1>11. EmittedSeqs' = EmittedSeqs \union n..(m - 1)
  <2>1. \A s \in EmittedSeqs' : s \in EmittedSeqs \union n..(m - 1)
    BY <1>10 DEF EmittedSeqs
  <2>2. \A s \in EmittedSeqs : s \in EmittedSeqs'
    BY <1>3, <1>5, <1>6 DEF EmittedSeqs
  <2>3. \A s \in n..(m - 1) : s \in EmittedSeqs'
    <3> SUFFICES ASSUME NEW s \in n..(m - 1) PROVE s \in EmittedSeqs'
      OBVIOUS
    <3>1. PICK i \in 1..(k + d) : i > k /\ n + (i - k) - 1 = s
      <4>1. k + (s - n) + 1 \in 1..(k + d) /\ k + (s - n) + 1 > k
        BY <1>1, <1>3
      <4>2. n + ((k + (s - n) + 1) - k) - 1 = s
        BY <1>1, <1>3
      <4> QED BY <4>1, <4>2
    <3>2. emitted'[i][1] = s
      BY <1>7, <3>1
    <3> QED BY <1>5, <3>2 DEF EmittedSeqs
  <2> QED BY <2>1, <2>2, <2>3
<1> QED BY <1>4, <1>8, <1>10, <1>11

-----------------------------------------------------------------------------
(* The invariant holds at first and is kept *)

\* The invariant holds of the new buffer.
LEMMA InitInvariant == Init => IInv
<1> SUFFICES ASSUME Init PROVE IInv
  OBVIOUS
<1> USE MaxSeqAssumption, MaxGapAgeAssumption, StartAssumption DEF Init, NewBuffer
<1>1. DOMAIN pending = {} /\ DOMAIN accepted = {} /\ DOMAIN emitted = {}
  OBVIOUS
<1>2. EmittedSeqs = {}
  BY <1>1 DEF EmittedSeqs
<1>3. TypeOK
  <2>1. <<>> \in Batches
    <3>1. <<>> \in [1..0 -> Payload]
      BY EmptySeq, LenProperties
    <3> QED BY <3>1 DEF Batches
  <2>2. emitted \in Seq(Seqs \X Payload)
    BY EmptySeq
  <2> QED BY <2>1, <2>2 DEF TypeOK
<1>4. EmittedInOrder /\ NoAcceptedCommandLost /\ TimerRunsIffGap
  BY <1>1, <1>2 DEF EmittedInOrder, NoAcceptedCommandLost, TimerRunsIffGap
<1>5. GapsAreAccountedFor
  BY <1>1, <1>2 DEF GapsAreAccountedFor
<1> QED BY <1>3, <1>4, <1>5 DEF IInv

\* Whether a push or a skip: a drain from n, past the numbers next_seq..n-1
\* that are given up, keeps the invariant.
LEMMA DrainStep ==
    ASSUME IInv,
           NEW n \in next_seq..(MaxSeq + 1), NEW held \in Batches,
           \A s \in DOMAIN held : s >= n,
           DOMAIN pending \subseteq DOMAIN held,
           DrainFrom(n, held),
           emitted' = emitted \o Run(n, FirstMissing(n, DOMAIN held), held),
           skipped' = skipped \union next_seq..(n - 1),
           accepted' \in Batches,
           DOMAIN accepted' = DOMAIN accepted \union DOMAIN held,
           \A s \in DOMAIN accepted : accepted'[s] = accepted[s],
           \A s \in DOMAIN held : accepted'[s] = held[s]
    PROVE  IInv'
<1> USE MaxSeqAssumption, StartAssumption
<1> DEFINE m == FirstMissing(n, DOMAIN held)
<1>1. /\ next_seq \in Nat /\ Start \in Nat /\ Start <= next_seq
      /\ n \in 1..(MaxSeq + 1) /\ n \in Nat /\ next_seq <= n
  BY DEF IInv, TypeOK
<1>2. DOMAIN held \subseteq Seqs
  BY BatchIsFunction
<1>3. m \in n..(MaxSeq + 1) /\ n..(m - 1) \subseteq DOMAIN held
  BY <1>1, <1>2, FirstMissingProperties
<1>4. /\ next_seq' = m
      /\ pending' \in Batches
      /\ DOMAIN pending' = DOMAIN held \ n..(m - 1)
      /\ \A s \in DOMAIN pending' : s > m /\ pending'[s] = held[s]
      /\ gap_age' \in {NoGap} \union 0..MaxGapAge
      /\ gap_age' # NoGap <=> DOMAIN pending' # {}
  BY <1>1, DrainKeepsTheRest DEF IInv, TypeOK
<1> HIDE DEF m
<1>5. EmittedSeqs \union skipped = Start..(next_seq - 1)
  BY DEF IInv, GapsAreAccountedFor
<1>6. \A s \in EmittedSeqs : s < n
  BY <1>1, <1>5
<1>7. /\ emitted' \in Seq(Seqs \X Payload)
      /\ EmittedInOrder'
      /\ EmittedSeqs' = EmittedSeqs \union n..(m - 1)
      /\ \A i \in DOMAIN emitted' :
             \/ i \in DOMAIN emitted /\ emitted'[i] = emitted[i]
             \/ emitted'[i][1] \in n..(m - 1) /\ emitted'[i][2] = held[emitted'[i][1]]
  BY <1>1, <1>3, <1>6, DrainReleasesInOrder DEF IInv, TypeOK, m
<1>8. TypeOK'
  <2>1. next_seq' \in Start..(MaxSeq + 1)
    BY <1>1, <1>3, <1>4
  <2>2. next_seq..(n - 1) \subseteq Seqs
    BY <1>1 DEF Seqs
  <2>3. skipped' \in SUBSET Seqs
    BY <2>2 DEF IInv, TypeOK
  <2> QED BY <1>4, <1>7, <2>1, <2>3 DEF TypeOK
<1>9. NoAcceptedCommandLost'
  <2>1. /\ DOMAIN accepted = EmittedSeqs \union DOMAIN pending
        /\ \A i \in DOMAIN emitted : accepted[emitted[i][1]] = emitted[i][2]
    BY DEF IInv, NoAcceptedCommandLost
  <2>2. DOMAIN accepted' = EmittedSeqs' \union DOMAIN pending'
    BY <1>3, <1>4, <1>7, <2>1
  <2>3. EmittedSeqs' \intersect DOMAIN pending' = {}
    <3>1. EmittedSeqs \intersect DOMAIN held = {}
      BY <1>1, <1>2, <1>6 DEF Seqs
    <3> QED BY <1>4, <1>7, <3>1
  <2>4. \A i \in DOMAIN emitted' : accepted'[emitted'[i][1]] = emitted'[i][2]
    <3>1. \A i \in DOMAIN emitted : emitted[i][1] \in DOMAIN accepted
      BY <2>1 DEF EmittedSeqs
    <3> QED BY <1>3, <1>7, <2>1, <3>1
  <2>5. \A s \in DOMAIN pending' : accepted'[s] = pending'[s]
    BY <1>4
  <2> QED BY <2>2, <2>3, <2>4, <2>5 DEF NoAcceptedCommandLost
<1>10. GapsAreAccountedFor'
  <2>1. EmittedSeqs \intersect skipped = {}
    BY DEF IInv, GapsAreAccountedFor
  <2>2. EmittedSeqs' \union skipped' = Start..(m - 1)
    BY <1>1, <1>3, <1>5, <1>7
  <2>3. EmittedSeqs' \intersect skipped' = {}
    BY <1>1, <1>3, <1>5, <1>7, <2>1
  <2> QED BY <1>4, <2>2, <2>3 DEF GapsAreAccountedFor
<1> QED BY <1>4, <1>7, <1>8, <1>9, <1>10 DEF IInv, TimerRunsIffGap

\* A push takes in what is not too late, and drains from next_seq.
LEMMA ArriveStep ==
    ASSUME IInv, NEW batch \in Batches, Arrive(batch) PROVE IInv'
<1> USE MaxSeqAssumption, StartAssumption
<1> DEFINE held == Accept(batch)
<1>1. /\ next_seq \in Start..(MaxSeq + 1) /\ next_seq \in Nat
      /\ pending \in Batches /\ accepted \in Batches
  BY DEF IInv, TypeOK
<1>2. /\ DOMAIN pending \subseteq Seqs /\ \A s \in DOMAIN pending : pending[s] \in Payload
      /\ DOMAIN batch \subseteq Seqs /\ \A s \in DOMAIN batch : batch[s] \in Payload
      /\ DOMAIN accepted \subseteq Seqs /\ \A s \in DOMAIN accepted : accepted[s] \in Payload
  BY <1>1, BatchIsFunction
<1>3. /\ DOMAIN held = DOMAIN pending \union {t \in DOMAIN batch : t >= next_seq}
      /\ \A s \in DOMAIN held :
             held[s] = IF s \in DOMAIN pending THEN pending[s] ELSE batch[s]
  BY DEF Accept
<1>4. held \in Batches
  <2>1. held = [s \in DOMAIN held |-> held[s]]
    BY DEF Accept
  <2>2. DOMAIN held \subseteq Seqs /\ \A s \in DOMAIN held : held[s] \in Payload
    BY <1>2, <1>3
  <2> HIDE DEF held
  <2> QED BY <2>1, <2>2, BatchIsFunction
<1>5. \A s \in DOMAIN held : s >= next_seq
  BY <1>1, <1>2, <1>3 DEF IInv, GapsAreAccountedFor, Seqs
<1>6. accepted' = [s \in DOMAIN accepted \union DOMAIN held |->
                      IF s \in DOMAIN accepted THEN accepted[s] ELSE batch[s]]
  BY DEF Arrive
<1>7. /\ DrainFrom(next_seq, held) /\ UNCHANGED skipped
      /\ emitted' = emitted \o Run(next_seq, FirstMissing(next_seq, DOMAIN held), held)
  BY DEF Arrive, Push, PushReady
<1> HIDE DEF held
<1>8. DOMAIN accepted = EmittedSeqs \union DOMAIN pending
      /\ \A s \in DOMAIN pending : accepted[s] = pending[s]
  BY DEF IInv, NoAcceptedCommandLost
<1>9. \A s \in EmittedSeqs : s < next_seq
  BY <1>1, StartAssumption DEF IInv, GapsAreAccountedFor
<1>10. \A s \in DOMAIN held : accepted'[s] = held[s]
  <2> SUFFICES ASSUME NEW s \in DOMAIN held PROVE accepted'[s] = held[s]
    OBVIOUS
  <2>1. CASE s \in DOMAIN pending
    BY <1>3, <1>6, <1>8, <2>1
  <2>2. CASE s \notin DOMAIN pending
    <3>1. s \in DOMAIN batch /\ s \in Nat
      BY <1>2, <1>3, <2>2 DEF Seqs
    <3>2. s \notin EmittedSeqs
      BY <1>1, <1>5, <1>9, <3>1
    <3> QED BY <1>3, <1>6, <1>8, <2>2, <3>2
  <2> QED BY <2>1, <2>2
<1>11. accepted' \in Batches
  <2>1. \A s \in DOMAIN held : s \in Seqs /\ held[s] \in Payload
    BY <1>4, BatchIsFunction
  <2>2. DOMAIN accepted' = DOMAIN accepted \union DOMAIN held
    BY <1>6
  <2>3. \A s \in DOMAIN accepted' : s \in Seqs /\ accepted'[s] \in Payload
    BY <1>2, <1>6, <1>10, <2>1, <2>2
  <2>4. accepted' = [s \in DOMAIN accepted' |-> accepted'[s]]
    BY <1>6
  <2> QED BY <2>3, <2>4, BatchIsFunction
<1>12. /\ DOMAIN accepted' = DOMAIN accepted \union DOMAIN held
       /\ \A s \in DOMAIN accepted : accepted'[s] = accepted[s]
  BY <1>6
<1>13. /\ next_seq \in next_seq..(MaxSeq + 1)
       /\ skipped' = skipped \union next_seq..(next_seq - 1)
  BY <1>1, <1>7
<1>14. DOMAIN pending \subseteq DOMAIN held
  BY <1>3
<1> QED BY <1>4, <1>5, <1>7, <1>10, <1>11, <1>12, <1>13, <1>14, DrainStep

\* A skip gives up the numbers below the lowest one held, and drains from it.
LEMMA SkipStep ==
    ASSUME IInv, SkipGap, emitted' = emitted \o SkipReady,
           skipped' = skipped \union next_seq..(Min(DOMAIN pending) - 1),
           UNCHANGED accepted
    PROVE  IInv'
<1> DEFINE n == Min(DOMAIN pending)
<1>1. DOMAIN pending \subseteq Seqs /\ DOMAIN pending # {}
  BY BatchIsFunction DEF IInv, TypeOK, SkipGap, GapIsStale
<1>2. n \in DOMAIN pending /\ \A s \in DOMAIN pending : n <= s
  BY <1>1, MinProperties
<1>3. DrainFrom(n, pending)
  BY DEF SkipGap
<1>4. emitted' = emitted \o Run(n, FirstMissing(n, DOMAIN pending), pending)
  BY DEF SkipReady
<1> HIDE DEF n
<1>5. n \in next_seq..(MaxSeq + 1)
  BY <1>1, <1>2, MaxSeqAssumption, StartAssumption
  DEF IInv, TypeOK, GapsAreAccountedFor, Seqs
<1>6. \A s \in DOMAIN pending : s >= n
  BY <1>1, <1>2, MaxSeqAssumption DEF Seqs
<1>7. /\ DOMAIN accepted = EmittedSeqs \union DOMAIN pending
      /\ \A s \in DOMAIN pending : accepted[s] = pending[s]
  BY DEF IInv, NoAcceptedCommandLost
<1>8. pending \in Batches /\ accepted \in Batches
  BY DEF IInv, TypeOK
<1>9. skipped' = skipped \union next_seq..(n - 1)
  BY DEF n
<1> QED BY <1>3, <1>4, <1>5, <1>6, <1>7, <1>8, <1>9, DrainStep

\* The timer, and steps that do nothing.
LEMMA TimerStep ==
    ASSUME IInv, UNCHANGED <<next_seq, pending, emitted, accepted, skipped>>,
           gap_age' \in {NoGap} \union 0..MaxGapAge,
           gap_age' # NoGap <=> DOMAIN pending # {}
    PROVE  IInv'
<1>1. TypeOK'
  BY DEF IInv, TypeOK
<1>2. EmittedInOrder' /\ EmittedSeqs' = EmittedSeqs
  BY DEF IInv, EmittedInOrder, EmittedSeqs
<1>3. NoAcceptedCommandLost' /\ GapsAreAccountedFor'
  BY <1>2 DEF IInv, NoAcceptedCommandLost, GapsAreAccountedFor
<1>4. TimerRunsIffGap'
  BY DEF TimerRunsIffGap
<1> QED BY <1>1, <1>2, <1>3, <1>4 DEF IInv

\* Every call, and the clock, keep it.
LEMMA StepInvariant == IInv /\ [Next]_vars => IInv'
<1> SUFFICES ASSUME IInv, [Next]_vars PROVE IInv'
  OBVIOUS
<1>1. ASSUME NEW batch \in Batches, Arrive(batch) PROVE IInv'
  BY <1>1, ArriveStep
<1>2. ASSUME Recover PROVE IInv'
  <2>1. CASE /\ SkipGap
             /\ emitted' = emitted \o SkipReady
             /\ skipped' = skipped \union next_seq..(Min(DOMAIN pending) - 1)
             /\ UNCHANGED accepted
    BY <2>1, SkipStep
  <2>2. CASE LeaveGap /\ UNCHANGED <<emitted, accepted, skipped>>
    <3>1. \A s \in DOMAIN pending : s > next_seq /\ s \in Nat /\ next_seq \in Nat
      BY BatchIsFunction, MaxSeqAssumption, StartAssumption
      DEF IInv, TypeOK, GapsAreAccountedFor, Seqs
    <3>2. next_seq \notin DOMAIN pending
      BY <3>1
    <3>3. /\ gap_age' \in {NoGap} \union 0..MaxGapAge
          /\ gap_age' # NoGap <=> DOMAIN pending # {}
      BY <2>2, <3>2, MaxGapAgeAssumption
      DEF LeaveGap, RefreshedAge, NoGap, IInv, TypeOK, TimerRunsIffGap
    <3> QED BY <2>2, <3>3, TimerStep DEF LeaveGap
  <2> QED BY <1>2, <2>1, <2>2 DEF Recover
<1>3. ASSUME Clock PROVE IInv'
  <2>1. /\ gap_age' \in {NoGap} \union 0..MaxGapAge
        /\ gap_age' # NoGap <=> DOMAIN pending # {}
    BY <1>3, MaxGapAgeAssumption DEF Clock, Tick, NoGap, IInv, TimerRunsIffGap
  <2> QED BY <1>3, <2>1, TimerStep DEF Clock, Tick
<1>4. CASE UNCHANGED vars
  BY <1>4, TimerStep DEF vars, bufferVars, IInv, TypeOK, TimerRunsIffGap
<1> QED BY <1>1, <1>2, <1>3, <1>4 DEF Next

\* The conjuncts hold together in every reachable state.
THEOREM Invariance == Spec => []IInv
BY InitInvariant, StepInvariant, PTL DEF Spec

-----------------------------------------------------------------------------
(* What follows from it *)

\* The buffer, its timer and the histories stay well formed.
THEOREM TypeCorrect == Spec => []TypeOK
BY Invariance, PTL DEF IInv

\* However events are ordered, repeated and delayed, and whenever gaps are
\* given up, the buffer releases commands in strictly increasing order.
THEOREM ReleasedInOrder == Spec => []EmittedInOrder
BY Invariance, PTL DEF IInv

\* What the buffer took in it holds or has released, in the first version.
THEOREM NothingAcceptedIsLost == Spec => []NoAcceptedCommandLost
BY Invariance, PTL DEF IInv

\* Every number below next_seq was released or given up, never both.
THEOREM EveryNumberAccountedFor == Spec => []GapsAreAccountedFor
BY Invariance, PTL DEF IInv

\* The gap timer runs exactly while a command is held back.
THEOREM TimerMatchesGap == Spec => []TimerRunsIffGap
BY Invariance, PTL DEF IInv
=============================================================================
