---------------------------- MODULE BridgeProofs ----------------------------
(***************************************************************************)
(* The whole bridge, for every bound on the numbers, every set of commands *)
(* and any number of kills, reconnections and failing sends and writes.    *)
(* The types, and how often a number can be typed, hold with any settings. *)
(* What the threads hand to each other stays in line while the gap         *)
(* recovery is off (missing_sequence_recovery_s = 0): with it the two      *)
(* threads that share the buffer race, and a number may be passed over.    *)
(***************************************************************************)
EXTENDS Bridge, SharedBufferProofs

-----------------------------------------------------------------------------
(* Shapes, whatever the constants *)

\* What the recovery skips is a range of numbers.
SkipShape ==
    /\ next_seq >= 1
    /\ pc[H] = "assign" => lowest \in Seqs

\* Firebase sends what producers have written, on a stream that is open.
CloudShape ==
    /\ published \subseteq Seqs /\ skipped \subseteq Seqs /\ dropped \subseteq Seqs
    /\ queued \subseteq published /\ inflight \subseteq published
    /\ connected \in BOOLEAN
    /\ ~connected => inflight = {}

AckShape ==
    /\ cloud_applied \in 0..MaxSeq /\ cloud_cleared \in 0..MaxSeq
    /\ last_cleared \in 0..MaxSeq /\ ack_pending \in 0..MaxSeq
    /\ ack_seq \in 0..MaxSeq
    /\ ack_pc \in {"wait", "state", "cleanup"}

\* A worker at work has a command in its hands.
WorkerShape ==
    /\ w_pc \in {"get", "send", "save", "mark", "status", "dead"}
    /\ w_cmd \in 0..MaxSeq
    /\ w_pc \in {"send", "save", "mark"} => w_cmd \in Seqs
    /\ saved \in 0..MaxSeq /\ half \in 0..MaxSeq
    /\ queue \in Seq(Seqs) /\ typed \in Seq(Seqs)

WellFormed == SharedInv /\ SkipShape /\ CloudShape /\ AckShape /\ WorkerShape

\* The shapes hold more than the types.
LEMMA WellFormedIsTypeOK == WellFormed => TypeOK
<1> SUFFICES ASSUME WellFormed PROVE TypeOK
  OBVIOUS
<1>1. {queued, published, inflight, skipped, dropped} \subseteq SUBSET Seqs
  BY DEF WellFormed, CloudShape
<1>2. {cloud_applied, cloud_cleared, last_cleared, ack_pending, ack_seq,
       saved, half, w_cmd} \subseteq 0..MaxSeq
  BY DEF WellFormed, AckShape, WorkerShape
<1>3. {queue, typed} \subseteq Seq(Seqs)
  BY DEF WellFormed, WorkerShape
<1> QED BY <1>1, <1>2, <1>3
        DEF TypeOK, WellFormed, SharedInv, CloudShape, AckShape, WorkerShape

\* Max of two numbers.
LEMMA MaxOfTwo ==
    ASSUME NEW a \in Int, NEW b \in Int
    PROVE  /\ Max({a, b}) \in {a, b}
           /\ Max({a, b}) >= a /\ Max({a, b}) >= b
<1> DEFINE S == {a, b}
<1>1. \E m \in S : \A x \in S : m >= x
  OBVIOUS
<1>2. Max(S) \in S /\ \A x \in S : Max(S) >= x
  BY <1>1 DEF Max
<1> QED BY <1>2

\* What joins and leaves a list of numbers.
LEMMA ListProperties ==
    ASSUME NEW list \in Seq(Seqs)
    PROVE  /\ Len(list) \in Nat /\ DOMAIN list = 1..Len(list)
           /\ \A e \in Seqs : /\ Append(list, e) \in Seq(Seqs)
                              /\ Len(Append(list, e)) = Len(list) + 1
                              /\ \A i \in 1..Len(list) : Append(list, e)[i] = list[i]
                              /\ Append(list, e)[Len(list) + 1] = e
           /\ list # <<>> =>
                 /\ Head(list) \in Seqs /\ Tail(list) \in Seq(Seqs)
                 /\ Head(list) = list[1] /\ Len(list) > 0
                 /\ Len(Tail(list)) = Len(list) - 1
                 /\ \A i \in 1..(Len(list) - 1) : Tail(list)[i] = list[i + 1]
<1> DEFINE S == Seqs
<1> HIDE DEF S
<1>1. list \in Seq(S)
  BY DEF S
<1>2. /\ Len(list) \in Nat /\ DOMAIN list = 1..Len(list)
      /\ \A e \in S : /\ Append(list, e) \in Seq(S)
                      /\ Len(Append(list, e)) = Len(list) + 1
                      /\ \A i \in 1..Len(list) : Append(list, e)[i] = list[i]
                      /\ Append(list, e)[Len(list) + 1] = e
  BY <1>1
<1>3. list # <<>> =>
          /\ Head(list) \in S /\ Tail(list) \in Seq(S)
          /\ Head(list) = list[1] /\ Len(list) > 0
          /\ Len(Tail(list)) = Len(list) - 1
          /\ \A i \in 1..(Len(list) - 1) : Tail(list)[i] = list[i + 1]
  BY <1>1
<1> QED BY <1>2, <1>3 DEF S

\* A process that starts, with nothing in the cloud.
LEMMA InitShape == Init => WellFormed
<1> SUFFICES ASSUME Init PROVE WellFormed
  OBVIOUS
<1>0. 0 \in 0..MaxSeq /\ MaxSeq \in Nat
  BY MaxSeqAssumption
<1>1. SharedInv /\ SkipShape
  <2>1. NewSharedBuffer(1)
    BY DEF Init
  <2>2. SharedInv
    BY <2>1, NewSharedInv
  <2>3. next_seq = 1 /\ pc[H] = "idle"
    BY <2>1 DEF NewSharedBuffer, Threads
  <2> QED BY <2>2, <2>3 DEF SkipShape
<1>2. CloudShape
  BY DEF Init, CloudShape
<1>3. AckShape
  <2>1. Max({0, 0}) = 0
    BY MaxOfTwo
  <2> QED BY <1>0, <2>1 DEF Init, NewAckPublisher, AckShape
<1>4. WorkerShape
  BY <1>0 DEF Init, WorkerShape
<1> QED BY <1>1, <1>2, <1>3, <1>4 DEF WellFormed

\* Steps that leave the buffer and its threads alone.
LEMMA BufferRests ==
    ASSUME SharedInv, SkipShape, UNCHANGED sharedVars
    PROVE  SharedInv' /\ SkipShape'
<1>1. UNCHANGED <<next_seq, pending, timer, pc, batch, stale, lowest, ready>>
  BY DEF sharedVars, buffer
<1>2. SharedInv'
  BY <1>1 DEF SharedInv, SharedTypeOK, InsertHasWork
<1> QED BY <1>1, <1>2 DEF SkipShape

\* ... or the recovery.
LEMMA SkipRests ==
    ASSUME SharedInv, SkipShape, next_seq' \in {next_seq, next_seq + 1}, lowest' = lowest,
           pc'[H] = "assign" => pc[H] = "assign"
    PROVE  SkipShape'
<1>1. next_seq \in Nat
  BY DEF SharedInv, SharedTypeOK
<1> QED BY <1>1 DEF SkipShape

\* What the threads do inside the buffer.
LEMMA CallPushShape ==
    ASSUME SharedInv, SkipShape, NEW S, S \subseteq Seqs, S # {}, CallPush(S)
    PROVE  SharedInv' /\ SkipShape'
<1>1. SharedInv'
  BY CallPushInv
<1>2. pc'[H] = pc[H] /\ UNCHANGED <<next_seq, lowest>>
  BY SharedTypes DEF SharedInv, CallPush, Goto, buffer
<1> QED BY <1>1, <1>2, SkipRests

LEMMA InsertShape ==
    ASSUME SharedInv, SkipShape, Insert
    PROVE  SharedInv' /\ SkipShape'
<1>1. SharedInv'
  BY InsertInv
<1>2. pc' = (IF batch' = {} THEN [pc EXCEPT ![L] = "drain"] ELSE pc)
      /\ UNCHANGED <<next_seq, lowest>>
  BY InsertDoes
<1>3. pc'[H] = pc[H]
  BY <1>2, SharedTypes DEF SharedInv
<1> QED BY <1>1, <1>2, <1>3, SkipRests

LEMMA DrainShape ==
    ASSUME SharedInv, SkipShape, NEW t \in Threads, Drain(t)
    PROVE  SharedInv' /\ SkipShape'
<1>1. SharedInv' /\ lowest' = lowest
  BY DrainInv
<1>2. next_seq' \in {next_seq, next_seq + 1}
  BY DEF Drain, DrainPop, DrainAdvance, DrainEnd, Refresh, Stamp, buffer
<1>3. \E to \in Places \ {"assign"} : Goto(t, to)
  BY DEF Drain, DrainPop, DrainAdvance, DrainEnd, Refresh, Stamp, Places
<1>4. pc'[H] = "assign" => pc[H] = "assign"
  <2>1. PICK to \in Places \ {"assign"} : Goto(t, to)
    BY <1>3
  <2>2. /\ pc'[t] = to /\ \A u \in Threads \ {t} : pc'[u] = pc[u] /\ H \in Threads
    BY <2>1, GoesTo DEF SharedInv, Threads
  <2> QED BY <2>1, <2>2 DEF Threads
<1> QED BY <1>1, <1>2, <1>4, SkipRests

LEMMA RecoverShape ==
    ASSUME SharedInv, SkipShape, Recover
    PROVE  SharedInv' /\ SkipShape'
<1>0. /\ SharedInv' /\ H \in Threads /\ pc \in [Threads -> Places]
      /\ pending \subseteq Seqs /\ Seqs \subseteq Nat
  BY RecoverInv, SharedTypes DEF SharedInv, Threads
<1>1. ASSUME RecoverNoGap \/ RecoverLook \/ RecoverTooYoung PROVE SkipShape'
  <2>1. pc'[H] # "assign" /\ UNCHANGED <<next_seq, lowest>>
    BY <1>0, <1>1 DEF RecoverNoGap, RecoverLook, RecoverTooYoung, Goto, buffer
  <2> QED BY <2>1, SkipRests
<1>2. ASSUME RecoverMin PROVE SkipShape'
  <2>1. /\ next_seq' = next_seq
        /\ \/ Goto(H, "dead")
           \/ pending # {} /\ lowest' = Min(pending)
    BY <1>2 DEF RecoverMin, buffer
  <2>2. pending # {} => Min(pending) \in Seqs
    <3>1. pending # {} => Min(pending) \in pending
      BY <1>0, MinOfSeqs
    <3> QED BY <1>0, <3>1
  <2>3. Goto(H, "dead") => pc'[H] = "dead"
    BY <1>0 DEF Goto
  <2> QED BY <2>1, <2>2, <2>3 DEF SkipShape
<1>3. ASSUME RecoverAssign PROVE SkipShape'
  <2>1. pc[H] = "assign" /\ next_seq' = lowest /\ pc'[H] = "drain"
    BY <1>0, <1>3 DEF RecoverAssign, At, Goto
  <2>2. next_seq' \in Seqs
    BY <2>1 DEF SkipShape
  <2> QED BY <2>1, <2>2 DEF SkipShape, Seqs
<1> QED BY <1>0, <1>1, <1>2, <1>3 DEF Recover

\* A thread that puts or reports.
LEMMA PutShape ==
    ASSUME SharedInv, SkipShape, NEW t \in Threads, Put(t) \/ Status(t)
    PROVE  SharedInv' /\ SkipShape'
<1>1. UNCHANGED <<buffer, batch, stale, lowest>>
  BY DEF Put, Status
<1>2. {"idle", "status", "dead"} \subseteq Places \ {"insert"}
  BY DEF Places
<1>3. \/ pc' = pc /\ ready[t] # <<>> /\ ready' = [ready EXCEPT ![t] = Tail(@)]
      \/ ready' = ready /\ \E to \in Places \ {"insert"} : Goto(t, to)
  BY <1>2 DEF Put, Status
<1>4. SharedInv'
  BY <1>1, <1>3, PutInv
<1>5. pc' = pc \/ \E to \in {"idle", "status", "dead"} : Goto(t, to)
  BY DEF Put, Status
<1>6. pc'[H] = "assign" => pc[H] = "assign"
  <2>1. ASSUME NEW to \in {"idle", "status", "dead"}, Goto(t, to)
        PROVE  pc'[H] = "assign" => pc[H] = "assign"
    <3>1. pc'[t] = to /\ \A u \in Threads \ {t} : pc'[u] = pc[u]
      BY <1>2, <2>1, GoesTo DEF SharedInv
    <3> QED BY <3>1 DEF Threads
  <2> QED BY <1>5, <2>1
<1>7. UNCHANGED <<next_seq, lowest>>
  BY <1>1 DEF buffer
<1> QED BY <1>4, <1>6, <1>7, SkipRests

\* The steps that leave the worker's state and the history alone keep their
\* shape, and so for the others.
LEMMA WorkerRests ==
    ASSUME WorkerShape, UNCHANGED <<w_pc, w_cmd, saved, half, queue, typed>>
    PROVE  WorkerShape'
BY DEF WorkerShape

LEMMA AckRests ==
    ASSUME AckShape, UNCHANGED <<cloud_applied, cloud_cleared, ackVars>>
    PROVE  AckShape'
BY DEF AckShape, ackVars

LEMMA CloudShapeRests ==
    ASSUME CloudShape, UNCHANGED <<published, queued, streamVars, skipped, dropped>>
    PROVE  CloudShape'
BY DEF CloudShape, streamVars

\* Every step of every thread, and of the environment, keeps the shapes.
LEMMA StepShape == WellFormed /\ [Next]_vars => WellFormed'
<1> SUFFICES ASSUME WellFormed, [Next]_vars PROVE WellFormed'
  OBVIOUS
<1>0. SharedInv /\ SkipShape /\ CloudShape /\ AckShape /\ WorkerShape
  BY DEF WellFormed
<1>a. L \in Threads /\ H \in Threads /\ Seqs \subseteq 0..MaxSeq /\ 0 \in 0..MaxSeq
  BY MaxSeqAssumption DEF Threads, Seqs
<1>b. ASSUME SharedInv', SkipShape', UNCHANGED <<cloudVars, ackVars, streamVars, workerVars,
                                                 queue, history>>
      PROVE  WellFormed'
  <2>1. CloudShape' /\ AckShape' /\ WorkerShape'
    BY <1>0, <1>b, CloudShapeRests, AckRests, WorkerRests
       DEF cloudVars, streamVars, workerVars, history
  <2> QED BY <1>b, <2>1 DEF WellFormed
<1>1. CASE HandleSnapshot
  <2>1. SharedInv' /\ SkipShape'
    <3>1. CASE queued # {} /\ CallPush(queued)
      BY <1>0, <3>1, CallPushShape DEF CloudShape
    <3>2. CASE UNCHANGED sharedVars
      BY <1>0, <3>2, BufferRests
    <3> QED BY <1>1, <3>1, <3>2 DEF HandleSnapshot
  <2>2. CloudShape'
    BY <1>0, <1>1 DEF HandleSnapshot, CloudShape, cloudVars, history
  <2>3. AckShape' /\ WorkerShape'
    BY <1>0, <1>1, AckRests, WorkerRests DEF HandleSnapshot, cloudVars, workerVars, history
  <2> QED BY <2>1, <2>2, <2>3 DEF WellFormed
<1>2. ASSUME NEW s \in Seqs, HandleEvent(s) PROVE WellFormed'
  <2>1. SharedInv' /\ SkipShape'
    <3>1. CallPush({s}) /\ {s} \subseteq Seqs /\ {s} # {}
      BY <1>2 DEF HandleEvent
    <3> QED BY <1>0, <3>1, CallPushShape
  <2>2. CloudShape'
    BY <1>0, <1>2 DEF HandleEvent, CloudShape, cloudVars, history
  <2>3. AckShape' /\ WorkerShape'
    BY <1>0, <1>2, AckRests, WorkerRests DEF HandleEvent, cloudVars, workerVars, history
  <2> QED BY <2>1, <2>2, <2>3 DEF WellFormed
<1>3. CASE Within(Insert) \/ \E t \in Threads : Within(Drain(t))
  <2>1. SharedInv' /\ SkipShape'
    BY <1>0, <1>3, InsertShape, DrainShape DEF Within
  <2>2. UNCHANGED <<cloudVars, ackVars, streamVars, workerVars, queue, history>>
    BY <1>3 DEF Within
  <2> QED BY <1>b, <2>1, <2>2
<1>4. ASSUME NEW t \in Threads, Put(t) PROVE WellFormed'
  <2>1. SharedInv' /\ SkipShape'
    BY <1>0, <1>4, PutShape
  <2>2. WorkerShape'
    <3>1. queue' \in Seq(Seqs)
      <4>1. ready[t] \in Seq(Seqs) /\ queue \in Seq(Seqs)
        BY <1>0, SharedTypes DEF SharedInv, WorkerShape
      <4>2. \/ queue' = queue
            \/ ready[t] # <<>> /\ queue' = Append(queue, Head(ready[t]))
        BY <1>4 DEF Put
      <4> QED BY <4>1, <4>2, ListProperties
    <3> QED BY <1>0, <1>4, <3>1 DEF Put, WorkerShape, workerVars, history
  <2>3. CloudShape' /\ AckShape'
    BY <1>0, <1>4, CloudShapeRests, AckRests DEF Put, cloudVars, streamVars, history
  <2> QED BY <2>1, <2>2, <2>3 DEF WellFormed
<1>5. ASSUME NEW t \in Threads, Status(t) PROVE WellFormed'
  <2>1. SharedInv' /\ SkipShape'
    BY <1>0, <1>5, PutShape
  <2>2. UNCHANGED <<cloudVars, ackVars, streamVars, workerVars, queue, history>>
    BY <1>5 DEF Status
  <2> QED BY <1>b, <2>1, <2>2
<1>6. CASE Beat
  <2>1. SharedInv' /\ SkipShape'
    <3>1. UNCHANGED <<next_seq, pending, timer, batch, stale, lowest, ready>> /\ Goto(H, "status")
      BY <1>6 DEF Beat, buffer
    <3>2. "status" \in Places \ {"insert"}
      BY DEF Places
    <3>3. SharedInv'
      BY <1>0, <1>a, <3>1, <3>2, PutInv DEF buffer
    <3>4. pc'[H] = "status"
      BY <1>0, <1>a, <3>1, <3>2, GoesTo DEF SharedInv
    <3> QED BY <1>0, <3>1, <3>3, <3>4, SkipRests
  <2>2. UNCHANGED <<cloudVars, ackVars, streamVars, workerVars, queue, history>>
    BY <1>6 DEF Beat
  <2> QED BY <1>b, <2>1, <2>2
<1>7. CASE Within(RecoverNoGap \/ RecoverLook \/ RecoverTooYoung \/ RecoverMin)
  <2>1. SharedInv' /\ SkipShape'
    BY <1>0, <1>7, RecoverShape DEF Within, Recover
  <2>2. UNCHANGED <<cloudVars, ackVars, streamVars, workerVars, queue, history>>
    BY <1>7 DEF Within
  <2> QED BY <1>b, <2>1, <2>2
<1>8. CASE Skip
  <2>1. SharedInv' /\ SkipShape'
    BY <1>0, <1>8, RecoverShape DEF Skip, Recover
  <2>2. next_seq..(lowest - 1) \subseteq Seqs
    <3>1. next_seq \in Nat /\ next_seq >= 1 /\ lowest \in 0..MaxSeq
      BY <1>0, SharedTypes DEF SharedInv, SkipShape
    <3> QED BY <3>1, MaxSeqAssumption DEF Seqs
  <2>3. skipped' = skipped \union next_seq..(lowest - 1)
        /\ UNCHANGED <<cloudVars, ackVars, streamVars, workerVars, queue, typed, half, dropped>>
    BY <1>8 DEF Skip
  <2>4. CloudShape'
    BY <1>0, <2>2, <2>3 DEF CloudShape, cloudVars, streamVars
  <2>5. AckShape' /\ WorkerShape'
    BY <1>0, <2>3, AckRests, WorkerRests DEF cloudVars, workerVars
  <2> QED BY <2>1, <2>4, <2>5 DEF WellFormed
<1>9. CASE Worker
  <2>1. SharedInv' /\ SkipShape'
    <3>1. UNCHANGED sharedVars
      BY <1>9
         DEF Worker, Get, Send, SendFails, SendGivesUp, SendRaises, Save, MarkApplied, WorkerStatus
    <3> QED BY <1>0, <3>1, BufferRests
  <2>2. CloudShape'
    <3>1. dropped' \subseteq Seqs
      BY <1>0, <1>9
         DEF Worker, Get, Send, SendFails, SendGivesUp, SendRaises, Save, MarkApplied,
             WorkerStatus, WorkerShape, CloudShape, history
    <3>2. UNCHANGED <<cloudVars, streamVars, skipped>>
      BY <1>9
         DEF Worker, Get, Send, SendFails, SendGivesUp, SendRaises, Save, MarkApplied,
             WorkerStatus, history
    <3> QED BY <1>0, <3>1, <3>2 DEF CloudShape, cloudVars, streamVars
  <2>3. AckShape'
    <3>1. ack_pending' \in 0..MaxSeq
      <4>1. CASE MarkApplied
        <5>1. w_cmd \in 0..MaxSeq /\ ack_pending \in 0..MaxSeq
          BY <1>0 DEF WorkerShape, AckShape
        <5>2. ack_pending \in Int /\ w_cmd \in Int
          BY <5>1
        <5>3. Max({ack_pending, w_cmd}) \in {ack_pending, w_cmd}
          BY <5>2, MaxOfTwo
        <5> QED BY <4>1, <5>1, <5>3 DEF MarkApplied, Mark
      <4>2. CASE ~MarkApplied
        <5>1. UNCHANGED ackVars
          BY <1>9, <4>2 DEF Worker, Get, Send, SendFails, SendGivesUp, SendRaises, Save, WorkerStatus
        <5> QED BY <1>0, <5>1 DEF AckShape, ackVars
      <4> QED BY <4>1, <4>2
    <3>2. UNCHANGED <<cloudVars, last_cleared, ack_seq, ack_pc>>
      BY <1>9
         DEF Worker, Get, Send, SendFails, SendGivesUp, SendRaises, Save, MarkApplied,
             WorkerStatus, Mark, ackVars
    <3> QED BY <1>0, <3>1, <3>2 DEF AckShape, cloudVars
  <2>4. WorkerShape'
    <3>1. CASE Get
      <4>1. Head(queue) \in Seqs /\ Tail(queue) \in Seq(Seqs)
        BY <1>0, <3>1, ListProperties DEF Get, WorkerShape
      <4> QED BY <1>0, <1>a, <3>1, <4>1 DEF Get, WorkerShape, history
    <3>2. CASE Send \/ SendFails \/ SendGivesUp
      <4>1. w_pc = "send" /\ w_cmd \in Seqs
        BY <1>0, <3>2 DEF Send, SendFails, SendGivesUp, SendRaises, WorkerShape
      <4>2. typed' \in Seq(Seqs)
        <5>1. typed' \in {typed, Append(typed, w_cmd)}
          BY <3>2 DEF Send, SendFails, SendGivesUp, SendRaises, AllLinesOut
        <5>2. typed \in Seq(Seqs)
          BY <1>0 DEF WorkerShape
        <5> QED BY <4>1, <5>1, <5>2, ListProperties
      <4>3. half' \in {half, w_cmd, 0}
        BY <3>2 DEF Send, SendFails, SendGivesUp, SendRaises, AllLinesOut
      <4>4. half' \in 0..MaxSeq
        BY <1>0, <1>a, <4>3 DEF WorkerShape
      <4>5. /\ UNCHANGED <<saved, queue>>
            /\ \/ w_pc' = "save" /\ w_cmd' = w_cmd
               \/ w_pc' = w_pc /\ w_cmd' = w_cmd
               \/ w_pc' = "get" /\ w_cmd' = 0
        BY <3>2 DEF Send, SendFails, SendGivesUp, SendRaises
      <4> QED BY <1>0, <1>a, <4>1, <4>2, <4>4, <4>5 DEF WorkerShape
    <3>3. CASE Save \/ MarkApplied \/ WorkerStatus
      BY <1>0, <1>a, <3>3 DEF Save, SavedSeq, MarkApplied, WorkerStatus, WorkerShape, history
    <3> QED BY <1>9, <3>1, <3>2, <3>3 DEF Worker
  <2> QED BY <2>1, <2>2, <2>3, <2>4 DEF WellFormed
<1>10. CASE Ack
  <2>1. SharedInv' /\ SkipShape'
    BY <1>0, <1>10, BufferRests DEF Ack
  <2>2. CloudShape' /\ AckShape'
    BY <1>0, <1>a, <1>10
       DEF Ack, Take, WriteState, Cleanup, WriteFails, CloudShape, AckShape, cloudVars,
           streamVars, history
  <2>3. WorkerShape'
    BY <1>0, <1>10, WorkerRests DEF Ack, workerVars, history
  <2> QED BY <2>1, <2>2, <2>3 DEF WellFormed
<1>11. CASE Crash
  <2>1. saved' = saved /\ next_seq' = saved + 1 /\ saved \in 0..MaxSeq
    BY <1>0, <1>11 DEF Crash, StoredSeq, WorkerShape
  <2>2. SharedInv' /\ SkipShape'
    <3>1. next_seq' \in Nat /\ next_seq' >= 1
      BY <2>1, MaxSeqAssumption
    <3>2. /\ pending' = {} /\ batch' = {} /\ lowest' = 0 /\ timer' = FALSE /\ stale' = FALSE
          /\ pc' = [t \in Threads |-> "idle"] /\ ready' = [t \in Threads |-> <<>>]
      BY <1>11 DEF Crash
    <3>3. /\ pc' \in [Threads -> Places] /\ ready' \in [Threads -> Seq(Seqs)]
          /\ pc'[L] = "idle" /\ pc'[H] = "idle"
      BY <1>a, <3>2 DEF Places
    <3>4. {timer', stale'} \subseteq BOOLEAN
      BY <3>2
    <3>5. SharedTypeOK'
      BY <1>a, <3>1, <3>2, <3>3, <3>4 DEF SharedTypeOK, Places
    <3> QED BY <3>1, <3>3, <3>5 DEF SharedInv, InsertHasWork, SkipShape
  <2>3. AckShape'
    <3>1. Max({cloud_cleared, cloud_applied}) \in 0..MaxSeq
      <4>1. cloud_cleared \in 0..MaxSeq /\ cloud_applied \in 0..MaxSeq
        BY <1>0 DEF AckShape
      <4>2. cloud_cleared \in Int /\ cloud_applied \in Int
        BY <4>1
      <4>3. Max({cloud_cleared, cloud_applied}) \in {cloud_cleared, cloud_applied}
        BY <4>2, MaxOfTwo
      <4> QED BY <4>1, <4>3
    <3> QED BY <1>0, <1>a, <1>11, <3>1 DEF Crash, RestartAckPublisher, AckShape, cloudVars
  <2>4. WorkerShape'
    BY <1>0, <1>a, <1>11, <2>1 DEF Crash, WorkerShape, history
  <2>5. CloudShape'
    BY <1>0, <1>11 DEF Crash, CloudShape, cloudVars, history
  <2> QED BY <2>2, <2>3, <2>4, <2>5 DEF WellFormed
<1>12. CASE Environment
  <2>1. SharedInv' /\ SkipShape'
    BY <1>0, <1>12, BufferRests DEF Environment, StreamDrops, Publish
  <2>2. CloudShape'
    BY <1>0, <1>12 DEF Environment, StreamDrops, Publish, CloudShape, cloudVars, history
  <2>3. AckShape' /\ WorkerShape'
    BY <1>0, <1>12, AckRests, WorkerRests
       DEF Environment, StreamDrops, Publish, cloudVars, workerVars, history
  <2> QED BY <2>1, <2>2, <2>3 DEF WellFormed
<1>13. CASE UNCHANGED vars
  <2>1. SharedInv' /\ SkipShape'
    BY <1>0, <1>13, BufferRests DEF vars
  <2>2. UNCHANGED <<cloudVars, ackVars, streamVars, workerVars, queue, history>>
    BY <1>13 DEF vars
  <2> QED BY <1>b, <2>1, <2>2
<1> QED BY <1>a, <1>1, <1>2, <1>3, <1>4, <1>5, <1>6, <1>7, <1>8, <1>9, <1>10, <1>11, <1>12, <1>13
        DEF Next, Listener, Heartbeat, RecoverGap, Within

\* The buffer, the queue, the threads, the state file and what is in the cloud
\* stay well formed, with any settings, however the threads race on the buffer
\* and whatever fails.
THEOREM TypeCorrect == Spec => []TypeOK
BY InitShape, StepShape, WellFormedIsTypeOK, PTL DEF Spec

-----------------------------------------------------------------------------
(* How often a number can be typed, with any settings *)

One(holds) == IF holds THEN 1 ELSE 0

\* The listener is still to be given s: with the next snapshot, by an event
\* that is on the stream, or when it is published.
ToCome(s) == ~connected \/ s \in inflight \/ s \notin published

\* How often s was typed, is in the bridge, or is still to come.
Copies(s) ==
    CountIn(typed, s) + CountIn(queue, s) + InBuffer(s)
        + One(s \in batch) + One(s \in InHand) + One(ToCome(s))

Causes == 1 + crashes + reconnects + serial_faults

\* The inductive invariant: no copy of a number comes from nowhere.
CopiesHaveACause ==
    /\ crashes \in Nat /\ reconnects \in Nat /\ serial_faults \in Nat
    /\ \A s \in Seqs : Copies(s) <= Causes

\* The counts are numbers.
LEMMA CopiesAreNat ==
    ASSUME WellFormed, NEW s
    PROVE  /\ CountIn(typed, s) \in Nat /\ CountIn(queue, s) \in Nat /\ InBuffer(s) \in Nat
           /\ One(s \in batch) \in {0, 1} /\ One(s \in InHand) \in {0, 1}
           /\ One(ToCome(s)) \in {0, 1}
<1>1. typed \in Seq(Seqs) /\ queue \in Seq(Seqs) /\ SharedTypeOK
  BY DEF WellFormed, WorkerShape, SharedInv
<1>2. CountIn(typed, s) \in Nat /\ CountIn(queue, s) \in Nat
  BY <1>1, PlacesAreFinite
<1>3. InBuffer(s) \in Nat
  BY <1>1, CountsAreNat
<1> QED BY <1>2, <1>3 DEF One

\* A step makes no more copies than it is a cause of.
LEMMA StepCopies ==
    ASSUME WellFormed, [Next]_vars, NEW s \in Seqs,
           crashes \in Nat, reconnects \in Nat, serial_faults \in Nat
    PROVE  Copies(s)' + Causes <= Copies(s) + Causes' /\ Copies(s)' \in Nat
<1> DEFINE t0 == CountIn(typed, s)
           q0 == CountIn(queue, s)
           b0 == InBuffer(s)
           e0 == One(s \in batch)
           h0 == One(s \in InHand)
           c0 == One(ToCome(s))
           t1 == CountIn(typed', s)
           q1 == CountIn(queue', s)
           b1 == InBuffer(s)'
           e1 == One(s \in batch')
           h1 == One(s \in InHand')
           c1 == One(ToCome(s)')
<1>0. /\ WellFormed' /\ SharedInv /\ SharedTypeOK /\ CloudShape /\ WorkerShape
      /\ L \in Threads /\ H \in Threads /\ typed \in Seq(Seqs) /\ queue \in Seq(Seqs)
  BY StepShape DEF WellFormed, SharedInv, Threads, WorkerShape
<1>1. /\ t0 \in Nat /\ q0 \in Nat /\ b0 \in Nat
      /\ e0 \in {0, 1} /\ h0 \in {0, 1} /\ c0 \in {0, 1}
  BY CopiesAreNat
<1>2. /\ t1 \in Nat /\ q1 \in Nat /\ b1 \in Nat
      /\ e1 \in {0, 1} /\ h1 \in {0, 1} /\ c1 \in {0, 1}
  <2>1. typed' \in Seq(Seqs) /\ queue' \in Seq(Seqs) /\ SharedTypeOK'
    BY <1>0 DEF WellFormed, WorkerShape, SharedInv
  <2>2. t1 \in Nat /\ q1 \in Nat
    BY <2>1, PlacesAreFinite
  <2>3. CountIn(ready'[L], s) \in Nat /\ CountIn(ready'[H], s) \in Nat
    <3>1. ready'[L] \in Seq(Seqs) /\ ready'[H] \in Seq(Seqs)
      BY <2>1 DEF SharedTypeOK, Threads
    <3> QED BY <3>1, PlacesAreFinite
  <2>4. b1 \in Nat
    BY <2>3 DEF InBuffer
  <2> QED BY <2>2, <2>4 DEF One
<1>3. /\ Copies(s) = t0 + q0 + b0 + e0 + h0 + c0
      /\ Copies(s)' = t1 + q1 + b1 + e1 + h1 + c1
  BY DEF Copies
<1>n. Copies(s)' \in Nat
  <2> HIDE DEF t1, q1, b1, e1, h1, c1
  <2> QED BY <1>2, <1>3
\* Steps that are no cause have to leave as many as there were.
<1>4. ASSUME t1 + q1 + b1 + e1 + h1 + c1 <= t0 + q0 + b0 + e0 + h0 + c0,
             UNCHANGED <<crashes, reconnects, serial_faults>>
      PROVE  Copies(s)' + Causes <= Copies(s) + Causes'
  <2>1. Causes' = Causes /\ Causes \in Nat
    BY <1>4 DEF Causes
  <2> HIDE DEF t0, q0, b0, e0, h0, c0, t1, q1, b1, e1, h1, c1
  <2> QED BY <1>1, <1>2, <1>3, <1>4, <2>1
\* ... and a cause may leave one more.
<1>5. ASSUME t1 + q1 + b1 + e1 + h1 + c1 <= t0 + q0 + b0 + e0 + h0 + c0 + 1,
             \/ crashes' = crashes + 1 /\ UNCHANGED <<reconnects, serial_faults>>
             \/ reconnects' = reconnects + 1 /\ UNCHANGED <<crashes, serial_faults>>
             \/ serial_faults' = serial_faults + 1 /\ UNCHANGED <<crashes, reconnects>>
      PROVE  Copies(s)' + Causes <= Copies(s) + Causes'
  <2>1. Causes' = Causes + 1 /\ Causes \in Nat
    BY <1>5 DEF Causes
  <2> HIDE DEF t0, q0, b0, e0, h0, c0, t1, q1, b1, e1, h1, c1
  <2> QED BY <1>1, <1>2, <1>3, <1>5, <2>1
\* Steps that leave parts alone.
<1>b. UNCHANGED <<pending, ready>> => b1 = b0
  BY DEF InBuffer
<1>h. UNCHANGED <<w_pc, w_cmd>> => h1 = h0
  BY DEF InHand
<1>c. UNCHANGED streamVars => c1 = c0
  BY DEF ToCome, streamVars
<1>6. CASE HandleSnapshot
  <2>1. /\ ~connected /\ connected' = TRUE /\ UNCHANGED <<published, inflight, typed, queue>>
        /\ UNCHANGED <<pending, ready, w_pc, w_cmd, crashes, reconnects, serial_faults>>
        /\ batch' = queued \/ UNCHANGED batch
    BY <1>6 DEF HandleSnapshot, CallPush, buffer, sharedVars, workerVars, history, faults
  <2>2. inflight = {} /\ queued \subseteq published
    BY <1>0, <2>1 DEF CloudShape
  <2>3. e1 + c1 <= e0 + c0
    <3>1. c0 = 1 /\ c1 = One(s \notin published)
      BY <2>1, <2>2 DEF ToCome, One
    <3>2. CASE batch' = queued
      BY <1>1, <2>2, <3>1, <3>2 DEF One
    <3>3. CASE UNCHANGED batch
      BY <1>1, <3>1, <3>3 DEF One
    <3> QED BY <2>1, <3>2, <3>3
  <2>4. t1 = t0 /\ q1 = q0 /\ b1 = b0 /\ h1 = h0
    BY <1>b, <1>h, <2>1
  <2>5. t1 + q1 + b1 + e1 + h1 + c1 <= t0 + q0 + b0 + e0 + h0 + c0
    <3> HIDE DEF t0, q0, b0, e0, h0, c0, t1, q1, b1, e1, h1, c1
    <3> QED BY <1>1, <1>2, <2>3, <2>4
  <2> QED BY <1>n, <1>4, <2>1, <2>5
<1>7. ASSUME NEW e \in Seqs, HandleEvent(e) PROVE Copies(s)' + Causes <= Copies(s) + Causes'
  <2>1. /\ e \in inflight /\ inflight' = inflight \ {e} /\ batch' = {e}
        /\ UNCHANGED <<published, connected, typed, queue>>
        /\ UNCHANGED <<pending, ready, w_pc, w_cmd, crashes, reconnects, serial_faults>>
    BY <1>7 DEF HandleEvent, CallPush, buffer, workerVars, history, faults
  <2>2. connected /\ e \in published
    BY <1>0, <2>1 DEF CloudShape
  <2>3. e1 + c1 <= e0 + c0
    <3>1. CASE s = e
      <4>1. c0 = 1 /\ c1 = 0 /\ e1 = 1
        BY <2>1, <2>2, <3>1 DEF ToCome, One
      <4> QED BY <1>1, <4>1
    <3>2. CASE s # e
      <4>1. c1 = c0 /\ e1 = 0
        BY <2>1, <3>2 DEF ToCome, One
      <4> QED BY <1>1, <4>1
    <3> QED BY <3>1, <3>2
  <2>4. t1 = t0 /\ q1 = q0 /\ b1 = b0 /\ h1 = h0
    BY <1>b, <1>h, <2>1
  <2>5. t1 + q1 + b1 + e1 + h1 + c1 <= t0 + q0 + b0 + e0 + h0 + c0
    <3> HIDE DEF t0, q0, b0, e0, h0, c0, t1, q1, b1, e1, h1, c1
    <3> QED BY <1>1, <1>2, <2>3, <2>4
  <2> QED BY <1>4, <2>1, <2>5
<1>8. CASE Within(Insert)
  <2>1. /\ Insert /\ UNCHANGED <<streamVars, typed, queue>>
        /\ UNCHANGED <<w_pc, w_cmd, crashes, reconnects, serial_faults>>
    BY <1>8 DEF Within, workerVars, history, faults
  <2>2. b1 = b0 + One(s = Min(batch) /\ IsTaken(Min(batch)))
    BY <1>0, <2>1, InsertCounts DEF One
  <2>3. Min(batch) \in batch /\ batch' = batch \ {Min(batch)}
    BY <1>0, <2>1, InsertDoes
  <2>4. b1 + e1 <= b0 + e0
    <3>1. CASE s = Min(batch)
      <4>1. e0 = 1 /\ e1 = 0 /\ b1 <= b0 + 1
        BY <1>1, <2>2, <2>3, <3>1 DEF One
      <4> QED BY <1>1, <1>2, <4>1
    <3>2. CASE s # Min(batch)
      <4>1. e1 = e0 /\ b1 = b0
        BY <1>1, <2>2, <2>3, <3>2 DEF One
      <4> QED BY <1>1, <4>1
    <3> QED BY <3>1, <3>2
  <2>5. t1 = t0 /\ q1 = q0 /\ c1 = c0 /\ h1 = h0
    BY <1>c, <1>h, <2>1
  <2>6. t1 + q1 + b1 + e1 + h1 + c1 <= t0 + q0 + b0 + e0 + h0 + c0
    <3> HIDE DEF t0, q0, b0, e0, h0, c0, t1, q1, b1, e1, h1, c1
    <3> QED BY <1>1, <1>2, <2>4, <2>5
  <2> QED BY <1>n, <1>4, <2>1, <2>6
<1>9. ASSUME NEW t \in Threads, Within(Drain(t)) PROVE Copies(s)' + Causes <= Copies(s) + Causes'
  <2>1. /\ Drain(t) /\ UNCHANGED <<streamVars, typed, queue>>
        /\ UNCHANGED <<w_pc, w_cmd, crashes, reconnects, serial_faults>>
    BY <1>9 DEF Within, workerVars, history, faults
  <2>2. b1 = b0 /\ batch' = batch
    BY <1>0, <2>1, DrainCounts, DrainInv
  <2>3. t1 = t0 /\ q1 = q0 /\ b1 = b0 /\ e1 = e0 /\ c1 = c0 /\ h1 = h0
    BY <1>c, <1>h, <2>1, <2>2
  <2>4. t1 + q1 + b1 + e1 + h1 + c1 <= t0 + q0 + b0 + e0 + h0 + c0
    <3> HIDE DEF t0, q0, b0, e0, h0, c0, t1, q1, b1, e1, h1, c1
    <3> QED BY <1>1, <2>3
  <2> QED BY <1>4, <2>1, <2>4
<1>10. ASSUME NEW t \in Threads, Put(t) PROVE Copies(s)' + Causes <= Copies(s) + Causes'
  <2>1. /\ \/ UNCHANGED <<ready, queue>>
           \/ /\ ready[t] # <<>> /\ queue' = Append(queue, Head(ready[t]))
              /\ ready' = [ready EXCEPT ![t] = Tail(@)]
        /\ UNCHANGED <<pending, batch, streamVars, typed>>
        /\ UNCHANGED <<w_pc, w_cmd, crashes, reconnects, serial_faults>>
    BY <1>10 DEF Put, buffer, workerVars, history, faults
  <2>2. q1 + b1 = q0 + b0
    <3>1. CASE UNCHANGED <<ready, queue>>
      BY <1>b, <2>1, <3>1
    <3>2. CASE /\ ready[t] # <<>> /\ queue' = Append(queue, Head(ready[t]))
               /\ ready' = [ready EXCEPT ![t] = Tail(@)]
      <4>1. CountIn(Append(queue, Head(ready[t])), s) + InBuffer(s)' = CountIn(queue, s) + InBuffer(s)
        BY <1>0, <2>1, <3>2, PutCounts
      <4> QED BY <3>2, <4>1
    <3> QED BY <2>1, <3>1, <3>2
  <2>3. t1 = t0 /\ e1 = e0 /\ c1 = c0 /\ h1 = h0
    BY <1>c, <1>h, <2>1
  <2>4. t1 + q1 + b1 + e1 + h1 + c1 <= t0 + q0 + b0 + e0 + h0 + c0
    <3> HIDE DEF t0, q0, b0, e0, h0, c0, t1, q1, b1, e1, h1, c1
    <3> QED BY <1>1, <1>2, <2>2, <2>3
  <2> QED BY <1>4, <2>1, <2>4
<1>11. CASE Get
  <2>1. /\ w_pc = "get" /\ queue # <<>> /\ w_cmd' = Head(queue) /\ queue' = Tail(queue)
        /\ w_pc' = "send" /\ UNCHANGED <<pending, ready, batch, streamVars, typed>>
        /\ UNCHANGED <<crashes, reconnects, serial_faults>>
    BY <1>11 DEF Get, buffer, sharedVars, history, faults
  <2>2. q0 = q1 + (IF Head(queue) = s THEN 1 ELSE 0)
    <3>1. CountIn(queue, s) = CountIn(Tail(queue), s) + (IF Head(queue) = s THEN 1 ELSE 0)
      BY <1>0, <2>1, CountTail
    <3> QED BY <2>1, <3>1
  <2>3. h0 = 0 /\ h1 = (IF Head(queue) = s THEN 1 ELSE 0)
    BY <2>1 DEF InHand, One
  <2>4. t1 = t0 /\ b1 = b0 /\ e1 = e0 /\ c1 = c0 /\ q1 + h1 = q0 + h0
    BY <1>1, <1>2, <1>b, <1>c, <2>1, <2>2, <2>3
  <2>5. t1 + q1 + b1 + e1 + h1 + c1 <= t0 + q0 + b0 + e0 + h0 + c0
    <3> HIDE DEF t0, q0, b0, e0, h0, c0, t1, q1, b1, e1, h1, c1
    <3> QED BY <1>1, <1>2, <2>4
  <2> QED BY <1>n, <1>4, <2>1, <2>5
<1>12. CASE Send \/ SendFails \/ SendGivesUp
  <2>1. /\ w_pc = "send" /\ w_cmd \in Seqs
        /\ \/ typed' = typed
           \/ typed' = Append(typed, w_cmd)
        /\ UNCHANGED <<pending, ready, batch, streamVars, queue>>
        /\ UNCHANGED <<crashes, reconnects>>
        /\ \/ w_pc' \in {"save", "get"} /\ UNCHANGED serial_faults
           \/ UNCHANGED <<w_pc, w_cmd>> /\ serial_faults' = serial_faults + 1
    BY <1>0, <1>12
       DEF Send, SendFails, SendGivesUp, SendRaises, AllLinesOut, WorkerShape, buffer,
           sharedVars, faults
  <2>2. t1 <= t0 + (IF w_cmd = s THEN 1 ELSE 0)
    <3>1. CountIn(Append(typed, w_cmd), s) = CountIn(typed, s) + (IF w_cmd = s THEN 1 ELSE 0)
      BY <1>0, <2>1, CountAppend
    <3>2. t0 <= t0 + (IF w_cmd = s THEN 1 ELSE 0)
      BY <1>1
    <3>3. t1 = t0 \/ t1 = CountIn(Append(typed, w_cmd), s)
      BY <2>1
    <3> QED BY <1>1, <3>1, <3>2, <3>3
  <2>3. h0 = (IF w_cmd = s THEN 1 ELSE 0)
    BY <2>1 DEF InHand, One
  <2>4. b1 = b0 /\ e1 = e0 /\ c1 = c0 /\ q1 = q0
    BY <1>b, <1>c, <2>1
  <2>5. CASE w_pc' \in {"save", "get"} /\ UNCHANGED serial_faults
    <3>1. h1 = 0
      BY <2>5 DEF InHand, One
    <3>2. t1 + q1 + b1 + e1 + h1 + c1 <= t0 + q0 + b0 + e0 + h0 + c0
      <4> HIDE DEF t0, q0, b0, e0, h0, c0, t1, q1, b1, e1, h1, c1
      <4> QED BY <1>1, <1>2, <2>2, <2>3, <2>4, <3>1
    <3> QED BY <1>n, <1>4, <2>1, <2>5, <3>2
  <2>6. CASE UNCHANGED <<w_pc, w_cmd>> /\ serial_faults' = serial_faults + 1
    <3>1. h1 = h0
      BY <1>h, <2>6
    <3>2. t1 + q1 + b1 + e1 + h1 + c1 <= t0 + q0 + b0 + e0 + h0 + c0 + 1
      <4> HIDE DEF t0, q0, b0, e0, h0, c0, t1, q1, b1, e1, h1, c1
      <4> QED BY <1>1, <1>2, <2>2, <2>3, <2>4, <3>1
    <3> QED BY <1>n, <1>5, <2>1, <2>6, <3>2
  <2> QED BY <2>1, <2>5, <2>6
<1>13. CASE Crash
  <2>1. /\ pending' = {} /\ batch' = {} /\ ready' = [t \in Threads |-> <<>>] /\ queue' = <<>>
        /\ w_pc' = "get" /\ UNCHANGED typed
        /\ crashes' = crashes + 1 /\ UNCHANGED <<reconnects, serial_faults>>
    BY <1>13 DEF Crash, history
  <2>2. t1 = t0 /\ q1 = 0 /\ e1 = 0 /\ h1 = 0
    BY <2>1, CountEmpty DEF InHand, One
  <2>3. b1 = 0
    <3>1. ready'[L] = <<>> /\ ready'[H] = <<>>
      BY <1>0, <2>1
    <3>2. CountIn(ready'[L], s) = 0 /\ CountIn(ready'[H], s) = 0
      BY <3>1, CountEmpty
    <3> QED BY <2>1, <3>2 DEF InBuffer
  <2>4. t1 + q1 + b1 + e1 + h1 + c1 <= t0 + q0 + b0 + e0 + h0 + c0 + 1
    <3> HIDE DEF t0, q0, b0, e0, h0, c0, t1, q1, b1, e1, h1, c1
    <3> QED BY <1>1, <1>2, <2>2, <2>3
  <2> QED BY <1>n, <1>5, <2>1, <2>4
<1>14. CASE StreamDrops
  <2>1. /\ UNCHANGED <<pending, ready, batch, typed, queue, w_pc, w_cmd>>
        /\ reconnects' = reconnects + 1 /\ UNCHANGED <<crashes, serial_faults>>
    BY <1>14 DEF StreamDrops, buffer, sharedVars, workerVars, history
  <2>2. t1 = t0 /\ q1 = q0 /\ b1 = b0 /\ e1 = e0 /\ h1 = h0
    BY <1>b, <1>h, <2>1
  <2>3. t1 + q1 + b1 + e1 + h1 + c1 <= t0 + q0 + b0 + e0 + h0 + c0 + 1
    <3> HIDE DEF t0, q0, b0, e0, h0, c0, t1, q1, b1, e1, h1, c1
    <3> QED BY <1>1, <1>2, <2>2
  <2> QED BY <1>n, <1>5, <2>1, <2>3
<1>15. ASSUME NEW e \in Seqs, Publish(e) PROVE Copies(s)' + Causes <= Copies(s) + Causes'
  <2>1. /\ UNCHANGED <<pending, ready, batch, typed, queue, w_pc, w_cmd, connected>>
        /\ published' = published \union {e} /\ e \notin published
        /\ inflight' = IF connected THEN inflight \union {e} ELSE inflight
        /\ UNCHANGED <<crashes, reconnects, serial_faults>>
    BY <1>15 DEF Publish, buffer, sharedVars, workerVars, history, faults
  <2>2. c1 = c0
    <3>1. ToCome(s)' <=> ToCome(s)
      BY <2>1 DEF ToCome
    <3> QED BY <3>1 DEF One
  <2>3. t1 = t0 /\ q1 = q0 /\ b1 = b0 /\ e1 = e0 /\ h1 = h0
    BY <1>b, <1>h, <2>1
  <2>4. t1 + q1 + b1 + e1 + h1 + c1 <= t0 + q0 + b0 + e0 + h0 + c0
    <3> HIDE DEF t0, q0, b0, e0, h0, c0, t1, q1, b1, e1, h1, c1
    <3> QED BY <1>1, <1>2, <2>2, <2>3
  <2> QED BY <1>4, <2>1, <2>4
<1>16. CASE \/ \E t \in Threads : Status(t)
            \/ Beat \/ RecoverGap \/ Save \/ MarkApplied \/ WorkerStatus \/ Ack
            \/ UNCHANGED vars
  <2>1. /\ UNCHANGED <<pending, ready, batch, streamVars, typed, queue>>
        /\ UNCHANGED <<crashes, reconnects, serial_faults>>
    <3>1. CASE RecoverGap
      <4>1. Recover
        BY <3>1 DEF RecoverGap, Within, Skip, Recover
      <4>2. UNCHANGED <<pending, batch, ready>>
        BY <1>0, <4>1, RecoverInv
      <4> QED BY <3>1, <4>2 DEF RecoverGap, Within, Skip, history, faults
    <3>2. CASE \/ \E t \in Threads : Status(t)
               \/ Beat \/ UNCHANGED vars
      BY <3>2 DEF Status, Beat, CloudFault, vars, sharedVars, buffer, history, faults
    <3>3. CASE Save \/ MarkApplied \/ WorkerStatus \/ Ack
      BY <3>3 DEF Save, MarkApplied, WorkerStatus, Ack, CloudFault, sharedVars, buffer, history, faults
    <3> QED BY <1>16, <3>1, <3>2, <3>3
  <2>2. h1 = h0
    <3>1. CASE Save \/ MarkApplied \/ WorkerStatus
      BY <3>1 DEF Save, MarkApplied, WorkerStatus, InHand
    <3>2. CASE \/ \E t \in Threads : Status(t)
               \/ Beat \/ RecoverGap \/ Ack \/ UNCHANGED vars
      <4>1. UNCHANGED <<w_pc, w_cmd>>
        BY <3>2 DEF Status, Beat, RecoverGap, Within, Skip, Ack, vars, workerVars
      <4> QED BY <1>h, <4>1
    <3> QED BY <1>16, <3>1, <3>2
  <2>3. t1 = t0 /\ q1 = q0 /\ b1 = b0 /\ e1 = e0 /\ c1 = c0
    BY <1>b, <1>c, <2>1
  <2>4. t1 + q1 + b1 + e1 + h1 + c1 <= t0 + q0 + b0 + e0 + h0 + c0
    <3> HIDE DEF t0, q0, b0, e0, h0, c0, t1, q1, b1, e1, h1, c1
    <3> QED BY <1>1, <2>2, <2>3
  <2> QED BY <1>n, <1>4, <2>1, <2>4
<1> QED BY <1>0, <1>n, <1>6, <1>7, <1>8, <1>9, <1>10, <1>11, <1>12, <1>13, <1>14, <1>15, <1>16
        DEF Next, Listener, Heartbeat, Worker, Environment, Within

\* The inductive invariant.
CountedInv == WellFormed /\ CopiesHaveACause

\* At the start every number is still to come, once.
LEMMA InitCounted == Init => CountedInv
<1> SUFFICES ASSUME Init PROVE CountedInv
  OBVIOUS
<1>1. /\ WellFormed /\ crashes = 0 /\ reconnects = 0 /\ serial_faults = 0
      /\ typed = <<>> /\ queue = <<>> /\ w_pc = "get" /\ NewSharedBuffer(1)
  BY InitShape DEF Init
<1>2. ready[L] = <<>> /\ ready[H] = <<>> /\ pending = {} /\ batch = {}
  BY <1>1 DEF NewSharedBuffer, Threads
<1>3. ASSUME NEW s \in Seqs PROVE Copies(s) <= Causes
  <2>1. CountIn(typed, s) = 0 /\ CountIn(queue, s) = 0 /\ InBuffer(s) = 0
    BY <1>1, <1>2, CountEmpty DEF InBuffer
  <2>2. One(s \in batch) = 0 /\ One(s \in InHand) = 0 /\ One(ToCome(s)) \in {0, 1}
    BY <1>1, <1>2 DEF One, InHand
  <2> QED BY <1>1, <2>1, <2>2 DEF Copies, Causes
<1> QED BY <1>1, <1>3 DEF CountedInv, CopiesHaveACause

LEMMA StepCounted == CountedInv /\ [Next]_vars => CountedInv'
<1> SUFFICES ASSUME CountedInv, [Next]_vars PROVE CountedInv'
  OBVIOUS
<1>1. /\ WellFormed /\ WellFormed'
      /\ crashes \in Nat /\ reconnects \in Nat /\ serial_faults \in Nat
  BY StepShape DEF CountedInv, CopiesHaveACause
<1>2. crashes' \in Nat /\ reconnects' \in Nat /\ serial_faults' \in Nat
  <2>1. /\ crashes' \in {crashes, crashes + 1} /\ reconnects' \in {reconnects, reconnects + 1}
        /\ serial_faults' \in {serial_faults, serial_faults + 1}
    <3>1. CASE Listener
      BY <3>1 DEF Listener, HandleSnapshot, HandleEvent, Within, Put, Status, CloudFault, faults
    <3>2. CASE Heartbeat
      BY <3>2 DEF Heartbeat, Beat, RecoverGap, Skip, Within, Put, Status, CloudFault, faults
    <3>3. CASE Worker
      BY <3>3
         DEF Worker, Get, Send, SendFails, SendGivesUp, SendRaises, Save, MarkApplied,
             WorkerStatus, CloudFault, faults
    <3>4. CASE Ack \/ Crash \/ Environment \/ UNCHANGED vars
      BY <3>4 DEF Ack, Crash, Environment, StreamDrops, Publish, CloudFault, vars, faults
    <3> QED BY <3>1, <3>2, <3>3, <3>4 DEF Next
  <2> QED BY <1>1, <2>1
<1>3. ASSUME NEW s \in Seqs PROVE Copies(s)' <= Causes'
  <2>1. Copies(s) <= Causes
    BY DEF CountedInv, CopiesHaveACause
  <2>2. Copies(s)' + Causes <= Copies(s) + Causes' /\ Copies(s)' \in Nat
    BY <1>1, StepCopies
  <2>3. Causes \in Nat /\ Causes' \in Nat /\ Copies(s) \in Int
    <3>1. /\ CountIn(typed, s) \in Nat /\ CountIn(queue, s) \in Nat /\ InBuffer(s) \in Nat
          /\ One(s \in batch) \in {0, 1} /\ One(s \in InHand) \in {0, 1}
          /\ One(ToCome(s)) \in {0, 1}
      BY <1>1, CopiesAreNat
    <3>2. Copies(s) \in Int
      BY <3>1 DEF Copies
    <3>3. Causes \in Nat
      BY <1>1 DEF Causes
    <3>4. Causes' \in Nat
      <4>1. \A a, b, c \in Nat : 1 + a + b + c \in Nat
        OBVIOUS
      <4>2. 1 + crashes' + reconnects' + serial_faults' \in Nat
        BY <1>2, <4>1
      <4> QED BY <4>2 DEF Causes
    <3> QED BY <3>2, <3>3, <3>4
  <2> QED BY <2>1, <2>2, <2>3
<1> QED BY <1>1, <1>2, <1>3 DEF CountedInv, CopiesHaveACause

\* However the threads race on the buffer, and with any settings, a number is
\* typed once for each time the process or the stream was started, and once
\* more for each send that failed, and no more often than that.
THEOREM TypingsAreCounted == Spec => []TypingsHaveACause
<1>1. CountedInv => TypingsHaveACause
  <2> SUFFICES ASSUME CountedInv, NEW s \in Seqs
               PROVE  CountIn(typed, s) <= 1 + crashes + reconnects + serial_faults
    BY DEF TypingsHaveACause
  <2>1. Copies(s) <= Causes /\ Causes \in Nat
    BY DEF CountedInv, CopiesHaveACause, Causes
  <2>2. CountIn(typed, s) <= Copies(s) /\ CountIn(typed, s) \in Nat /\ Copies(s) \in Nat
    <3>1. /\ CountIn(typed, s) \in Nat /\ CountIn(queue, s) \in Nat /\ InBuffer(s) \in Nat
          /\ One(s \in batch) \in {0, 1} /\ One(s \in InHand) \in {0, 1}
          /\ One(ToCome(s)) \in {0, 1}
      BY CopiesAreNat DEF CountedInv
    <3> QED BY <3>1 DEF Copies
  <2>3. CountIn(typed, s) <= Causes
    BY <2>1, <2>2
  <2> QED BY <2>3 DEF Causes
<1> QED BY <1>1, InitCounted, StepCounted, PTL DEF Spec

-----------------------------------------------------------------------------
(* What holds while the recovery is off *)

\* The last number the worker has taken from the queue.
Reached == ToPut - Len(queue) - 1

\* The commands on their way to the Teensy are consecutive, up to the number
\* the listener tests next.
InLine ==
    /\ \A i \in 1..Len(queue) : queue[i] = Reached + i
    /\ w_pc \in {"send", "save", "mark"} => w_cmd = Reached

\* Everything up to there is handled, and what is saved is not ahead of it.
WorkIsDone ==
    /\ 1..(IF w_pc = "send" THEN Reached - 1 ELSE Reached) \subseteq Handled
    /\ saved <= (IF w_pc \in {"send", "save"} THEN Reached - 1 ELSE Reached)
    /\ w_pc = "mark" => saved = Reached

\* Acknowledgements follow the saved number, and grow.
AcksFollow ==
    /\ cloud_applied <= saved /\ ack_pending <= saved /\ ack_seq <= saved
    /\ ack_pending # 0 => cloud_applied <= ack_pending /\ ack_seq <= ack_pending
    /\ ack_pc = "state" => cloud_applied <= ack_seq

\* What is gone from the cloud was saved; what the listener has not passed is
\* held, in its hands, on the stream, or in the snapshot that the next stream
\* starts with.
CloudHasTheRest ==
    /\ \A s \in published \ queued : s <= saved
    /\ connected =>
          \A s \in published : s \in pending \union batch \union inflight \/ s < Upcoming

\* The inductive invariant of a bridge whose heartbeat only reports.
QuietInv ==
    /\ WellFormed
    /\ LoneShape /\ skipped = {}
    /\ InLine
    /\ WorkIsDone
    /\ AcksFollow
    /\ CloudHasTheRest

\* What is typed is a set that grows.
LEMMA TypedGrows ==
    ASSUME WorkerShape, NEW s \in Seqs
    PROVE  ToSet(Append(typed, s)) = ToSet(typed) \union {s}
<1>1. /\ typed \in Seq(Seqs) /\ Len(typed) \in Nat /\ DOMAIN typed = 1..Len(typed)
      /\ DOMAIN Append(typed, s) = 1..(Len(typed) + 1)
      /\ \A i \in 1..Len(typed) : Append(typed, s)[i] = typed[i]
      /\ Append(typed, s)[Len(typed) + 1] = s
  BY DEF WorkerShape
<1>2. \A x : x \in ToSet(typed) <=> \E i \in DOMAIN typed : x = typed[i]
  BY DEF ToSet
<1>3. \A x : x \in ToSet(Append(typed, s))
                <=> \E i \in DOMAIN Append(typed, s) : x = Append(typed, s)[i]
  BY DEF ToSet
<1>4. ASSUME NEW x \in ToSet(Append(typed, s)) PROVE x \in ToSet(typed) \union {s}
  <2>1. PICK i \in 1..(Len(typed) + 1) : x = Append(typed, s)[i]
    BY <1>1, <1>3
  <2>2. CASE i = Len(typed) + 1
    BY <1>1, <2>1, <2>2
  <2>3. CASE i # Len(typed) + 1
    <3>1. i \in 1..Len(typed)
      BY <1>1, <2>3
    <3> QED BY <1>1, <1>2, <2>1, <3>1
  <2> QED BY <2>2, <2>3
<1>5. ASSUME NEW x \in ToSet(typed) PROVE x \in ToSet(Append(typed, s))
  <2>1. PICK i \in 1..Len(typed) : x = typed[i]
    BY <1>1, <1>2
  <2>2. i \in DOMAIN Append(typed, s) /\ x = Append(typed, s)[i]
    BY <1>1, <2>1
  <2> QED BY <1>3, <2>2
<1>6. s \in ToSet(Append(typed, s))
  <2>1. Len(typed) + 1 \in DOMAIN Append(typed, s)
    BY <1>1
  <2> QED BY <1>1, <1>3, <2>1
<1> QED BY <1>4, <1>5, <1>6

\* The numbers of the invariant are numbers, and Reached has been passed.
LEMMA LineIsOfNumbers ==
    ASSUME WellFormed, LoneShape
    PROVE  /\ Upcoming \in Nat /\ ToPut \in Int /\ Reached \in Int /\ saved \in Nat
           /\ Len(queue) \in Nat /\ Len(ready[L]) \in Nat
           /\ Reached < Upcoming
           /\ queue \in Seq(Seqs) /\ ready[L] \in Seq(Seqs)
           /\ Seqs \subseteq Nat /\ published \subseteq Nat /\ pending \subseteq Nat
           /\ batch \subseteq Nat
<1>1. /\ Upcoming \in Nat /\ saved \in Nat
      /\ queue \in Seq(Seqs) /\ ready[L] \in Seq(Seqs)
      /\ Seqs \subseteq Nat /\ published \subseteq Nat /\ pending \subseteq Nat
      /\ batch \subseteq Nat
  BY SharedTypes DEF WellFormed, SharedInv, WorkerShape, CloudShape, LoneShape
<1>2. Len(queue) \in Nat /\ Len(ready[L]) \in Nat
  BY <1>1
<1>3. ToPut \in Int /\ Reached \in Int /\ Reached < Upcoming
  BY <1>1, <1>2 DEF ToPut, Reached
<1> QED BY <1>1, <1>2, <1>3

\* A step that leaves the line alone.
LEMMA LineRests ==
    ASSUME InLine, Reached' = Reached, UNCHANGED queue,
           w_pc' \in {"send", "save", "mark"} => /\ w_pc \in {"send", "save", "mark"}
                                                 /\ w_cmd' = w_cmd
    PROVE  InLine'
BY DEF InLine

\* ... and the work.
LEMMA WorkRests ==
    ASSUME WorkIsDone, Reached' = Reached, UNCHANGED <<w_pc, saved, typed, skipped, dropped>>
    PROVE  WorkIsDone'
BY DEF WorkIsDone, Handled

\* ... and the acknowledgements.
LEMMA AcksRest ==
    ASSUME AcksFollow, UNCHANGED <<saved, cloud_applied, ack_pending, ack_seq, ack_pc>>
    PROVE  AcksFollow'
BY DEF AcksFollow

\* ... and the cloud: what the listener held it still holds, or has passed.
LEMMA CloudRests ==
    ASSUME CloudHasTheRest, published \subseteq Nat, Upcoming \in Nat, Upcoming' \in Nat,
           UNCHANGED <<saved, published, queued, connected, inflight>>,
           Upcoming <= Upcoming',
           \A s \in pending \union batch : s \in pending' \union batch' \/ s < Upcoming'
    PROVE  CloudHasTheRest'
BY DEF CloudHasTheRest

\* A step that the buffer does not notice.
LEMMA LoneRests ==
    ASSUME LoneShape, UNCHANGED sharedVars
    PROVE  LoneShape' /\ Upcoming' = Upcoming /\ ToPut' = ToPut
<1>1. UNCHANGED <<next_seq, pending, timer, pc, batch, ready>>
  BY DEF sharedVars, buffer
<1>2. pc'[H] \in {"idle", "status", "dead"} /\ pc'[L] = pc[L]
  BY <1>1 DEF LoneShape
<1> QED BY <1>1, <1>2, LoneMoves

\* Steps of the listener and of the heartbeat that queue nothing and that the
\* worker does not notice.
LEMMA ListenerRests ==
    ASSUME QuietInv, WellFormed', LoneShape', ToPut' = ToPut,
           UNCHANGED <<cloudVars, ackVars, workerVars, queue, history>>
    PROVE  /\ InLine' /\ WorkIsDone' /\ AcksFollow' /\ skipped' = {}
           /\ Reached' = Reached
<1>1. Reached' = Reached
  BY DEF Reached
<1> QED BY <1>1, LineRests, WorkRests, AcksRest
        DEF QuietInv, cloudVars, ackVars, workerVars, history

\* A process that starts, with nothing in the cloud, is in line.
LEMMA InitQuiet == Init => QuietInv
<1> SUFFICES ASSUME Init PROVE QuietInv
  OBVIOUS
<1>1. WellFormed
  BY InitShape
<1>2. NewSharedBuffer(1) /\ 1 \in 1..(MaxSeq + 1)
  BY MaxSeqAssumption DEF Init
<1>3. LoneShape /\ Upcoming = 1 /\ ToPut = 1
  BY <1>2, NewLone
<1>4. /\ Len(queue) = 0 /\ skipped = {}
      /\ w_pc = "get" /\ saved = 0 /\ published = {} /\ ~connected
      /\ cloud_applied = 0 /\ ack_pending = 0 /\ ack_seq = 0 /\ ack_pc = "wait"
  BY DEF Init, NewAckPublisher
<1>5. Reached = 0
  BY <1>3, <1>4 DEF Reached
<1>6. InLine /\ WorkIsDone /\ AcksFollow /\ CloudHasTheRest
  BY <1>4, <1>5 DEF InLine, WorkIsDone, AcksFollow, CloudHasTheRest
<1> QED BY <1>1, <1>3, <1>4, <1>6 DEF QuietInv

\* The heartbeat's steps inside the buffer do not occur.
LEMMA HeartbeatStaysOut ==
    ASSUME ~RecoveryOn, LoneShape
    PROVE  ~RecoverGap /\ ~Within(Drain(H)) /\ ~Put(H)
BY DEF LoneShape, RecoverGap, Within, Drain, DrainPop, DrainAdvance, DrainEnd, Refresh, Stamp,
       Put, At

\* Every step of the threads and of the environment keeps the line, and a kill
\* starts a new one from the saved number.
LEMMA StepQuiet ==
    ASSUME ~RecoveryOn
    PROVE  QuietInv /\ [Next]_vars => QuietInv'
<1> SUFFICES ASSUME QuietInv, [Next]_vars PROVE QuietInv'
  OBVIOUS
<1>0. /\ WellFormed' /\ WellFormed /\ LoneShape /\ skipped = {} /\ InLine /\ WorkIsDone
      /\ AcksFollow /\ CloudHasTheRest /\ SharedInv /\ SharedTypeOK /\ SharedTypeOK'
  BY StepShape DEF QuietInv, WellFormed, SharedInv
<1>a. /\ Upcoming \in Nat /\ ToPut \in Int /\ Reached \in Int /\ saved \in Nat
      /\ Len(queue) \in Nat /\ Len(ready[L]) \in Nat
      /\ Reached < Upcoming
      /\ queue \in Seq(Seqs) /\ ready[L] \in Seq(Seqs)
      /\ Seqs \subseteq Nat /\ published \subseteq Nat /\ pending \subseteq Nat
      /\ batch \subseteq Nat
  BY <1>0, LineIsOfNumbers
<1>b. queued \subseteq Seqs /\ inflight \subseteq Seqs /\ MaxSeq \in Nat
  BY <1>0, MaxSeqAssumption DEF WellFormed, CloudShape
<1>c. saved <= Reached
  BY <1>0, <1>a DEF WorkIsDone
<1>1. CASE HandleSnapshot
  <2>1. CASE queued # {} /\ CallPush(queued)
    <3>1. /\ LoneShape' /\ Upcoming' = Upcoming /\ ToPut' = ToPut
          /\ batch' = queued /\ UNCHANGED pending
      BY <1>0, <2>1, LoneCall
    <3>2. connected' /\ UNCHANGED <<published, queued, saved>>
          /\ UNCHANGED <<cloudVars, ackVars, workerVars, queue, history>>
      BY <1>1 DEF HandleSnapshot, cloudVars, workerVars
    <3>3. InLine' /\ WorkIsDone' /\ AcksFollow' /\ skipped' = {}
      BY <1>0, <3>1, <3>2, ListenerRests
    <3>4. \A s \in published \ queued : s < Upcoming
      BY <1>0, <1>a, <1>c DEF CloudHasTheRest
    <3>5. CloudHasTheRest'
      BY <1>0, <3>1, <3>2, <3>4 DEF CloudHasTheRest
    <3> QED BY <1>0, <3>1, <3>3, <3>5 DEF QuietInv
  <2>2. CASE queued = {} /\ UNCHANGED sharedVars
    <3>1. /\ LoneShape' /\ Upcoming' = Upcoming /\ ToPut' = ToPut
      BY <1>0, <2>2, LoneRests
    <3>2. UNCHANGED <<published, queued, saved>>
          /\ UNCHANGED <<cloudVars, ackVars, workerVars, queue, history>>
      BY <1>1 DEF HandleSnapshot, cloudVars, workerVars
    <3>3. InLine' /\ WorkIsDone' /\ AcksFollow' /\ skipped' = {}
      BY <1>0, <3>1, <3>2, ListenerRests
    <3>4. \A s \in published : s < Upcoming /\ s <= saved
      BY <1>0, <1>a, <1>c, <2>2 DEF CloudHasTheRest
    <3>5. CloudHasTheRest'
      BY <3>1, <3>2, <3>4 DEF CloudHasTheRest
    <3> QED BY <1>0, <3>1, <3>3, <3>5 DEF QuietInv
  <2> QED BY <1>1, <2>1, <2>2 DEF HandleSnapshot
<1>2. ASSUME NEW e \in Seqs, HandleEvent(e) PROVE QuietInv'
  <2>1. /\ CallPush({e}) /\ e \in inflight /\ inflight' = inflight \ {e}
        /\ UNCHANGED <<connected, published, queued, saved>>
        /\ UNCHANGED <<cloudVars, ackVars, workerVars, queue, history>>
    BY <1>2 DEF HandleEvent, cloudVars, workerVars
  <2>2. /\ LoneShape' /\ Upcoming' = Upcoming /\ ToPut' = ToPut
        /\ batch' = {e} /\ batch = {} /\ UNCHANGED pending
    BY <1>0, <2>1, LoneCall
  <2>3. InLine' /\ WorkIsDone' /\ AcksFollow' /\ skipped' = {}
    BY <1>0, <2>1, <2>2, ListenerRests
  <2>4. CloudHasTheRest'
    BY <1>0, <2>1, <2>2 DEF CloudHasTheRest
  <2> QED BY <1>0, <2>2, <2>3, <2>4 DEF QuietInv
<1>3. CASE Within(Insert) \/ Within(Drain(L))
  <2>1. /\ LoneShape' /\ Upcoming' \in Nat /\ Upcoming <= Upcoming' /\ ToPut' = ToPut
        /\ \A s \in pending \union batch : s \in pending' \union batch' \/ s < Upcoming'
    <3>1. CASE Within(Insert)
      <4>1. /\ LoneShape' /\ Upcoming' = Upcoming /\ ToPut' = ToPut
            /\ \A s \in pending \union batch : s \in pending' \union batch' \/ s < Upcoming'
        BY <1>0, <3>1, LoneInserts DEF Within
      <4> QED BY <1>a, <4>1
    <3>2. CASE Within(Drain(L))
      <4>1. /\ LoneShape' /\ Upcoming' \in Upcoming..(MaxSeq + 1) /\ ToPut' = ToPut
            /\ \A s \in pending : s \in pending' \/ s < Upcoming'
        BY <1>0, <3>2, LoneDrains DEF Within
      <4>2. batch' = batch
        BY <1>0, <3>2, DrainInv DEF Within, Threads
      <4> QED BY <1>a, <1>b, <4>1, <4>2
    <3> QED BY <1>3, <3>1, <3>2
  <2>2. /\ UNCHANGED <<cloudVars, ackVars, workerVars, queue, history>>
        /\ UNCHANGED <<saved, published, queued, connected, inflight>>
    BY <1>3 DEF Within, cloudVars, streamVars, workerVars
  <2>3. InLine' /\ WorkIsDone' /\ AcksFollow' /\ skipped' = {}
    BY <1>0, <2>1, <2>2, ListenerRests
  <2>4. CloudHasTheRest'
    BY <1>0, <1>a, <2>1, <2>2, CloudRests
  <2> QED BY <1>0, <2>1, <2>3, <2>4 DEF QuietInv
<1>4. CASE Put(L)
  <2>0. /\ UNCHANGED <<buffer, batch>>
        /\ UNCHANGED <<cloudVars, ackVars, workerVars, history>>
        /\ UNCHANGED <<next_seq, pending, timer, saved, published, queued, connected, inflight>>
    BY <1>4 DEF Put, cloudVars, streamVars, workerVars, buffer
  <2>1. CASE ready[L] = <<>>
    <3>1. pc[L] = "put" /\ pc'[L] = "status" /\ pc'[H] = pc[H] /\ UNCHANGED <<ready, queue>>
      BY <1>0, <1>4, <2>1, SharedTypes DEF Put, At, Goto
    <3>2. /\ LoneShape' /\ Upcoming' = Upcoming /\ ToPut' = ToPut
      <4>1. pc'[H] \in {"idle", "status", "dead"}
        BY <1>0, <3>1 DEF LoneShape
      <4> QED BY <1>0, <2>0, <2>1, <3>1, <4>1, LoneMoves
    <3>3. InLine' /\ WorkIsDone' /\ AcksFollow' /\ skipped' = {}
      BY <1>0, <2>0, <3>1, <3>2, ListenerRests
    <3>4. CloudHasTheRest'
      BY <1>0, <1>a, <2>0, <3>2, CloudRests
    <3> QED BY <1>0, <3>2, <3>3, <3>4 DEF QuietInv
  <2>2. CASE ready[L] # <<>>
    <3>1. /\ pc[L] = "put" /\ UNCHANGED pc /\ queue' = Append(queue, Head(ready[L]))
          /\ ready' = [ready EXCEPT ![L] = Tail(@)]
      BY <1>4, <2>2 DEF Put, At
    <3>2. /\ LoneShape' /\ Upcoming' = Upcoming
          /\ Head(ready[L]) = ToPut /\ ToPut' = ToPut + 1
      BY <1>0, <2>0, <2>2, <3>1, LonePuts
    <3>3. /\ Len(queue') = Len(queue) + 1
          /\ \A i \in 1..Len(queue) : queue'[i] = queue[i]
          /\ queue'[Len(queue) + 1] = ToPut
      <4>1. ToPut \in Seqs
        BY <1>a, <2>2, <3>2, ListProperties
      <4>2. queue' = Append(queue, ToPut)
        BY <3>1, <3>2
      <4> QED BY <1>a, <4>1, <4>2, ListProperties
    <3>4. Reached' = Reached
      <4>1. Reached' = ToPut' - Len(queue') - 1
        BY DEF Reached
      <4> QED BY <1>a, <3>2, <3>3, <4>1 DEF Reached
    <3>5. InLine'
      <4>1. \A i \in 1..Len(queue') : queue'[i] = Reached + i
        <5> TAKE i \in 1..Len(queue')
        <5>1. CASE i \in 1..Len(queue)
          BY <1>0, <3>3, <5>1 DEF InLine
        <5>2. CASE i = Len(queue) + 1
          BY <1>a, <3>3, <5>2 DEF Reached
        <5> QED BY <1>a, <3>3, <5>1, <5>2
      <4>2. UNCHANGED <<w_pc, w_cmd>>
        BY <2>0 DEF workerVars
      <4> QED BY <1>0, <3>4, <4>1, <4>2 DEF InLine
    <3>6. WorkIsDone' /\ AcksFollow' /\ skipped' = {}
      BY <1>0, <2>0, <3>4, WorkRests, AcksRest DEF cloudVars, ackVars, workerVars, history
    <3>7. CloudHasTheRest'
      BY <1>0, <1>a, <2>0, <3>2, CloudRests
    <3> QED BY <1>0, <3>2, <3>5, <3>6, <3>7 DEF QuietInv
  <2> QED BY <2>1, <2>2
<1>5. CASE Status(L) \/ Status(H) \/ Beat
  <2>1. /\ UNCHANGED <<next_seq, pending, timer, batch, ready>>
        /\ UNCHANGED <<cloudVars, ackVars, workerVars, queue, history>>
        /\ UNCHANGED <<saved, published, queued, connected, inflight>>
    BY <1>5 DEF Status, Beat, cloudVars, streamVars, workerVars, buffer
  <2>2. /\ pc'[H] \in {"idle", "status", "dead"}
        /\ \/ pc'[L] = pc[L]
           \/ /\ pc[L] = "status" /\ ready[L] = <<>>
              /\ pc'[L] \in {"idle", "status", "dead"}
    <3>1. /\ pc \in [Threads -> Places] /\ L \in Threads /\ H \in Threads /\ L # H
      BY <1>0, SharedTypes
    <3> QED BY <1>0, <1>5, <3>1 DEF Status, Beat, At, Goto, LoneShape
  <2>3. LoneShape' /\ Upcoming' = Upcoming /\ ToPut' = ToPut
    BY <1>0, <2>1, <2>2, LoneMoves
  <2>4. InLine' /\ WorkIsDone' /\ AcksFollow' /\ skipped' = {}
    BY <1>0, <2>1, <2>3, ListenerRests
  <2>5. CloudHasTheRest'
    BY <1>0, <1>a, <2>1, <2>3, CloudRests
  <2> QED BY <1>0, <2>3, <2>4, <2>5 DEF QuietInv
<1>6. ~RecoverGap /\ ~Within(Drain(H)) /\ ~Put(H)
  BY <1>0, HeartbeatStaysOut
\* The worker, the acknowledgements and the environment leave the buffer alone.
<1>7. ASSUME UNCHANGED sharedVars
      PROVE  /\ LoneShape' /\ Upcoming' = Upcoming /\ ToPut' = ToPut
             /\ UNCHANGED <<pending, batch>>
  BY <1>0, <1>7, LoneRests DEF sharedVars, buffer
<1>8. CASE Get
  <2>1. /\ w_pc = "get" /\ queue # <<>> /\ w_cmd' = Head(queue)
        /\ queue' = Tail(queue) /\ w_pc' = "send"
        /\ UNCHANGED <<sharedVars, cloudVars, ackVars, published, connected, inflight,
                       saved, history>>
    BY <1>8 DEF Get, streamVars
  <2>2. /\ Len(queue) > 0 /\ w_cmd' = queue[1]
        /\ Len(queue') = Len(queue) - 1
        /\ \A i \in 1..(Len(queue) - 1) : queue'[i] = queue[i + 1]
    BY <1>a, <2>1, ListProperties
  <2>3. Reached' = Reached + 1
    <3>1. Reached' = ToPut - Len(queue') - 1
      BY <1>7, <2>1 DEF Reached
    <3> QED BY <1>a, <2>2, <3>1 DEF Reached
  <2>4. InLine'
    <3>1. \A i \in 1..Len(queue') : queue'[i] = Reached' + i
      <4> TAKE i \in 1..Len(queue')
      <4>1. i + 1 \in 1..Len(queue) /\ queue'[i] = queue[i + 1] /\ i \in Nat
        BY <1>a, <2>2
      <4>2. queue[i + 1] = Reached + (i + 1)
        BY <1>0, <4>1 DEF InLine
      <4> QED BY <1>a, <2>3, <4>1, <4>2
    <3>2. w_cmd' = Reached'
      <4>1. queue[1] = Reached + 1
        BY <1>0, <1>a, <2>2 DEF InLine
      <4> QED BY <2>2, <2>3, <4>1
    <3> QED BY <3>1, <3>2 DEF InLine
  <2>5. WorkIsDone'
    <3>1. Reached' - 1 = Reached
      BY <1>a, <2>3
    <3>2. Handled' = Handled
      BY <2>1 DEF Handled, history
    <3> QED BY <1>0, <2>1, <3>1, <3>2 DEF WorkIsDone
  <2>6. AcksFollow' /\ CloudHasTheRest' /\ skipped' = {}
    <3>1. AcksFollow' /\ skipped' = {}
      BY <1>0, <2>1, AcksRest DEF cloudVars, ackVars, history
    <3>2. CloudHasTheRest'
      BY <1>0, <1>a, <1>7, <2>1, CloudRests DEF cloudVars
    <3> QED BY <3>1, <3>2
  <2> QED BY <1>0, <1>7, <2>1, <2>4, <2>5, <2>6 DEF QuietInv
<1>9. CASE Send \/ SendGivesUp
  <2>1. /\ w_pc = "send" /\ w_cmd \in Seqs /\ w_cmd = Reached
    BY <1>0, <1>9
       DEF Send, SendGivesUp, SendRaises, WellFormed, WorkerShape, InLine
  <2>2. /\ UNCHANGED skipped
        /\ \/ w_pc' = "save" /\ w_cmd' = w_cmd /\ UNCHANGED dropped
              /\ typed' = Append(typed, w_cmd)
           \/ w_pc' = "get" /\ dropped' = dropped \union {w_cmd}
              /\ typed' \in {typed, Append(typed, w_cmd)}
        /\ UNCHANGED <<sharedVars, cloudVars, ackVars, published, connected, inflight,
                       saved, queue>>
    BY <1>9
       DEF Send, SendGivesUp, SendRaises, AllLinesOut, streamVars
  <2>3. Handled' = Handled \union {Reached}
    <3>1. ToSet(Append(typed, w_cmd)) = ToSet(typed) \union {w_cmd}
      BY <1>0, <2>1, TypedGrows DEF WellFormed
    <3> QED BY <2>1, <2>2, <3>1 DEF Handled
  <2>4. InLine' /\ Reached' = Reached
    <3>1. Reached' = Reached
      BY <1>7, <2>2 DEF Reached
    <3> QED BY <1>0, <2>1, <2>2, <3>1, LineRests
  <2>5. WorkIsDone'
    <3>1. 1..(Reached - 1) \subseteq Handled /\ saved <= Reached - 1
      BY <1>0, <2>1 DEF WorkIsDone
    <3>2. 1..Reached \subseteq Handled'
      BY <1>a, <2>3, <3>1
    <3>3. saved <= Reached
      BY <1>a, <3>1
    <3> QED BY <2>2, <2>4, <3>1, <3>2, <3>3 DEF WorkIsDone
  <2>6. AcksFollow' /\ CloudHasTheRest' /\ skipped' = {}
    <3>1. AcksFollow' /\ skipped' = {}
      BY <1>0, <2>2, AcksRest DEF cloudVars, ackVars
    <3>2. CloudHasTheRest'
      BY <1>0, <1>a, <1>7, <2>2, CloudRests DEF cloudVars
    <3> QED BY <3>1, <3>2
  <2> QED BY <1>0, <1>7, <2>2, <2>4, <2>5, <2>6 DEF QuietInv
<1>10. CASE SendFails
  <2>1. /\ w_pc = "send" /\ w_cmd \in Seqs /\ w_cmd = Reached
        /\ typed' \in {typed, Append(typed, w_cmd)}
        /\ UNCHANGED <<sharedVars, cloudVars, ackVars, published, connected, inflight,
                       w_pc, w_cmd, saved, queue, skipped, dropped>>
    BY <1>0, <1>10
       DEF SendFails, SendRaises, AllLinesOut, streamVars, WellFormed, WorkerShape, InLine
  <2>2. Handled \subseteq Handled'
    <3>1. ToSet(Append(typed, w_cmd)) = ToSet(typed) \union {w_cmd}
      BY <1>0, <2>1, TypedGrows DEF WellFormed
    <3> QED BY <2>1, <3>1 DEF Handled
  <2>3. InLine' /\ Reached' = Reached
    <3>1. Reached' = Reached
      BY <1>7, <2>1 DEF Reached
    <3> QED BY <1>0, <2>1, <3>1, LineRests
  <2>4. WorkIsDone'
    BY <1>0, <2>1, <2>2, <2>3 DEF WorkIsDone
  <2>5. AcksFollow' /\ CloudHasTheRest' /\ skipped' = {}
    <3>1. AcksFollow' /\ skipped' = {}
      BY <1>0, <2>1, AcksRest DEF cloudVars, ackVars
    <3>2. CloudHasTheRest'
      BY <1>0, <1>a, <1>7, <2>1, CloudRests DEF cloudVars
    <3> QED BY <3>1, <3>2
  <2> QED BY <1>0, <1>7, <2>1, <2>3, <2>4, <2>5 DEF QuietInv
<1>11. CASE Save
  <2>1. /\ w_pc = "save" /\ w_cmd = Reached
        /\ \/ saved' = w_cmd /\ w_pc' = "mark"
           \/ saved' = saved /\ w_pc' = "dead"
        /\ UNCHANGED <<sharedVars, cloudVars, ackVars, published, connected, inflight,
                       w_cmd, queue, history>>
    BY <1>0, <1>11 DEF Save, SavedSeq, InLine, streamVars
  <2>2. InLine' /\ Reached' = Reached
    <3>1. Reached' = Reached
      BY <1>7, <2>1 DEF Reached
    <3> QED BY <1>0, <2>1, <3>1, LineRests
  <2>3. saved <= Reached - 1 /\ 1..Reached \subseteq Handled
    BY <1>0, <2>1 DEF WorkIsDone
  <2>4. saved <= saved' /\ saved' <= Reached /\ saved' \in Int
    BY <1>a, <2>1, <2>3
  <2>5. WorkIsDone'
    BY <2>1, <2>2, <2>3, <2>4 DEF WorkIsDone, Handled, history
  <2>6. AcksFollow'
    <3>1. /\ cloud_applied \in Nat /\ ack_pending \in Nat /\ ack_seq \in Nat
      BY <1>0 DEF WellFormed, AckShape
    <3>2. UNCHANGED <<cloud_applied, ack_pending, ack_seq, ack_pc>>
      BY <2>1 DEF cloudVars, ackVars
    <3> QED BY <1>0, <1>a, <2>4, <3>1, <3>2 DEF AcksFollow
  <2>7. CloudHasTheRest'
    <3>1. \A s \in published : s \in Nat
      BY <1>a
    <3>2. UNCHANGED <<published, queued, connected, pending, batch, inflight>>
          /\ Upcoming' = Upcoming
      BY <1>7, <2>1 DEF cloudVars
    <3> QED BY <1>0, <1>a, <2>4, <3>1, <3>2 DEF CloudHasTheRest
  <2>8. skipped' = {}
    BY <1>0, <2>1 DEF history
  <2> QED BY <1>0, <1>7, <2>1, <2>2, <2>5, <2>6, <2>7, <2>8 DEF QuietInv
<1>12. CASE MarkApplied
  <2>1. /\ w_pc = "mark" /\ w_pc' = "status" /\ w_cmd = Reached /\ saved = Reached
        /\ ack_pending' = Max({ack_pending, w_cmd})
        /\ UNCHANGED <<sharedVars, cloudVars, ack_seq, ack_pc, published, connected,
                       inflight, saved, queue, history>>
    BY <1>0, <1>12
       DEF MarkApplied, Mark, InLine, WorkIsDone, streamVars
  <2>2. InLine' /\ Reached' = Reached
    <3>1. Reached' = Reached
      BY <1>7, <2>1 DEF Reached
    <3> QED BY <1>0, <2>1, <3>1, LineRests
  <2>3. WorkIsDone'
    BY <1>0, <2>1, <2>2 DEF WorkIsDone, Handled, history
  <2>4. AcksFollow'
    <3>1. /\ cloud_applied \in Nat /\ ack_pending \in Nat /\ ack_seq \in Nat
      BY <1>0 DEF WellFormed, AckShape
    <3>2. w_cmd = saved
      BY <2>1
    <3>3. /\ Max({ack_pending, saved}) \in {ack_pending, saved}
          /\ Max({ack_pending, saved}) >= saved
      <4>1. ack_pending \in Int /\ saved \in Int
        BY <1>a, <3>1
      <4> QED BY <4>1, MaxOfTwo
    <3>4. ack_pending' = saved
      BY <1>0, <1>a, <2>1, <3>1, <3>2, <3>3 DEF AcksFollow
    <3>5. UNCHANGED <<cloud_applied, ack_seq, ack_pc, saved>>
      BY <2>1 DEF cloudVars
    <3> QED BY <1>0, <1>a, <3>1, <3>4, <3>5 DEF AcksFollow
  <2>5. CloudHasTheRest' /\ skipped' = {}
    <3>1. CloudHasTheRest'
      BY <1>0, <1>a, <1>7, <2>1, CloudRests DEF cloudVars
    <3> QED BY <1>0, <2>1, <3>1 DEF history
  <2> QED BY <1>0, <1>7, <2>1, <2>2, <2>3, <2>4, <2>5 DEF QuietInv
<1>13. CASE WorkerStatus
  <2>1. /\ w_pc = "status" /\ w_pc' \in {"get", "dead"}
        /\ UNCHANGED <<sharedVars, cloudVars, ackVars, published, connected, inflight,
                       w_cmd, saved, queue, history>>
    BY <1>13 DEF WorkerStatus, streamVars
  <2>2. InLine' /\ Reached' = Reached
    <3>1. Reached' = Reached
      BY <1>7, <2>1 DEF Reached
    <3> QED BY <1>0, <2>1, <3>1, LineRests
  <2>3. WorkIsDone'
    BY <1>0, <2>1, <2>2 DEF WorkIsDone, Handled, history
  <2>4. AcksFollow' /\ CloudHasTheRest' /\ skipped' = {}
    <3>1. AcksFollow' /\ skipped' = {}
      BY <1>0, <2>1, AcksRest DEF cloudVars, ackVars, history
    <3>2. CloudHasTheRest'
      BY <1>0, <1>a, <1>7, <2>1, CloudRests DEF cloudVars
    <3> QED BY <3>1, <3>2
  <2> QED BY <1>0, <1>7, <2>1, <2>2, <2>3, <2>4 DEF QuietInv
<1>14. CASE Ack
  <2>1. UNCHANGED <<sharedVars, published, connected, inflight, w_pc, w_cmd, saved, queue, history>>
    BY <1>14 DEF Ack, streamVars, workerVars
  <2>2. InLine' /\ WorkIsDone' /\ skipped' = {}
    <3>1. Reached' = Reached
      BY <1>7, <2>1 DEF Reached
    <3> QED BY <1>0, <2>1, <3>1, LineRests, WorkRests DEF history
  <2>3. /\ cloud_applied \in Nat /\ ack_pending \in Nat /\ ack_seq \in Nat
    BY <1>0 DEF WellFormed, AckShape
  <2>4. AcksFollow'
    BY <1>0, <1>a, <1>14, <2>1, <2>3
       DEF Ack, Take, WriteState, Cleanup, WriteFails, AcksFollow, cloudVars
  <2>5. \A s \in queued \ queued' : s <= saved
    <3>1. \A s \in queued \ queued' : s \in Acknowledged
      BY <1>14 DEF Ack, Take, WriteState, Cleanup, WriteFails, cloudVars
    <3>2. \A s \in Acknowledged : s <= ack_seq
      <4>1. last_cleared \in Nat
        BY <1>0 DEF WellFormed, AckShape
      <4> QED BY <2>3, <4>1 DEF Acknowledged
    <3>3. ack_seq <= saved
      BY <1>0 DEF AcksFollow
    <3>4. \A s \in queued : s \in Nat
      BY <1>a, <1>b
    <3> QED BY <1>a, <2>3, <3>1, <3>2, <3>3, <3>4
  <2>6. CloudHasTheRest'
    BY <1>0, <1>7, <2>1, <2>5 DEF CloudHasTheRest
  <2> QED BY <1>0, <1>7, <2>1, <2>2, <2>4, <2>6 DEF QuietInv
<1>15. CASE Crash
  <2>1. /\ saved' = saved /\ next_seq' = saved + 1 /\ w_pc' = "get"
        /\ pending' = {} /\ batch' = {} /\ timer' = FALSE
        /\ pc' = [t \in Threads |-> "idle"] /\ ready' = [t \in Threads |-> <<>>]
        /\ queue' = <<>> /\ connected' = FALSE
        /\ ack_pending' = 0 /\ ack_seq' = 0 /\ ack_pc' = "wait"
        /\ UNCHANGED <<cloudVars, published, history>>
    BY <1>15 DEF Crash, StoredSeq, RestartAckPublisher
  <2>2. /\ pc'[L] = "idle" /\ pc'[H] = "idle" /\ ready'[L] = <<>> /\ ready'[H] = <<>>
        /\ Len(queue') = 0 /\ Len(ready'[L]) = 0
    BY <2>1 DEF Threads
  <2>3. Upcoming' = saved + 1 /\ ToPut' = saved + 1
    <3>1. Upcoming' = saved + 1
      BY <2>1, <2>2 DEF Upcoming, At
    <3> QED BY <1>a, <2>2, <3>1 DEF ToPut
  <2>4. LoneShape'
    <3>1. saved + 1 \in 1..(MaxSeq + 1)
      BY <1>0, <1>b DEF WellFormed, WorkerShape
    <3> QED BY <2>1, <2>2, <2>3, <3>1 DEF LoneShape
  <2>5. Reached' = saved
    BY <1>a, <2>2, <2>3 DEF Reached
  <2>6. InLine'
    BY <2>1, <2>2 DEF InLine
  <2>7. WorkIsDone'
    <3>1. 1..saved \subseteq Handled
      BY <1>0, <1>a DEF WorkIsDone
    <3> QED BY <1>a, <2>1, <2>5, <3>1 DEF WorkIsDone, Handled, history
  <2>8. AcksFollow'
    BY <1>0, <1>a, <2>1 DEF AcksFollow, cloudVars
  <2>9. CloudHasTheRest' /\ skipped' = {}
    BY <1>0, <2>1 DEF CloudHasTheRest, cloudVars, history
  <2> QED BY <1>0, <2>4, <2>6, <2>7, <2>8, <2>9 DEF QuietInv
<1>16. CASE Environment
  <2>1. UNCHANGED <<sharedVars, cloud_applied, ackVars, w_pc, w_cmd, saved, queue, history>>
    BY <1>16
       DEF Environment, StreamDrops, Publish, cloudVars, workerVars
  <2>2. InLine' /\ WorkIsDone' /\ AcksFollow' /\ skipped' = {}
    <3>1. Reached' = Reached
      BY <1>7, <2>1 DEF Reached
    <3> QED BY <1>0, <2>1, <3>1, LineRests, WorkRests, AcksRest DEF ackVars, history
  <2>3. CloudHasTheRest'
    <3>1. UNCHANGED <<pending, batch, saved>> /\ Upcoming' = Upcoming
      BY <1>7, <2>1
    <3>2. CASE StreamDrops
      BY <1>0, <3>1, <3>2 DEF StreamDrops, CloudHasTheRest, cloudVars
    <3>3. ASSUME NEW s \in Seqs, Publish(s) PROVE CloudHasTheRest'
      BY <1>0, <3>1, <3>3 DEF Publish, CloudHasTheRest
    <3> QED BY <1>16, <3>2, <3>3 DEF Environment
  <2> QED BY <1>0, <1>7, <2>1, <2>2, <2>3 DEF QuietInv
<1>17. CASE UNCHANGED vars
  <2>1. /\ UNCHANGED <<sharedVars, cloudVars, ackVars, workerVars, queue, history>>
        /\ UNCHANGED <<published, queued, connected, inflight, saved>>
    BY <1>17 DEF vars, cloudVars, streamVars, workerVars
  <2>2. InLine' /\ WorkIsDone' /\ AcksFollow' /\ skipped' = {}
    BY <1>0, <1>7, <2>1, ListenerRests
  <2>3. CloudHasTheRest'
    BY <1>0, <1>a, <1>7, <2>1, CloudRests
  <2> QED BY <1>0, <1>7, <2>1, <2>2, <2>3 DEF QuietInv
<1> QED BY <1>1, <1>2, <1>3, <1>4, <1>5, <1>6, <1>8, <1>9, <1>10, <1>11, <1>12,
           <1>13, <1>14, <1>15, <1>16, <1>17
        DEF Next, Listener, Heartbeat, Worker, Within

\* The line holds in every reachable state.
THEOREM CommandsStayInLine ==
    ASSUME ~RecoveryOn
    PROVE  Spec => []QuietInv
<1>1. QuietInv /\ [Next]_vars => QuietInv'
  BY StepQuiet
<1> QED BY <1>1, InitQuiet, PTL DEF Spec

\* What the bridge says is applied has been handled, however often the process
\* is killed and whatever sends and writes fail.
THEOREM AppliedIsHandled ==
    ASSUME ~RecoveryOn
    PROVE  Spec => []AppliedMeansHandled
<1>1. QuietInv => AppliedMeansHandled
  <2> SUFFICES ASSUME QuietInv PROVE AppliedMeansHandled
    OBVIOUS
  <2>1. Reached \in Int /\ saved \in Nat
    BY LineIsOfNumbers DEF QuietInv
  <2> QED BY <2>1 DEF QuietInv, AcksFollow, WorkIsDone, AppliedMeansHandled
<1> QED BY <1>1, CommandsStayInLine, PTL

\* No command is deleted from the cloud before it was handled.
THEOREM PrunedIsHandled ==
    ASSUME ~RecoveryOn
    PROVE  Spec => []PruningIsSafe
<1>1. QuietInv => PruningIsSafe
  <2> SUFFICES ASSUME QuietInv, NEW s \in published \ queued PROVE s \in Handled
    BY DEF PruningIsSafe
  <2>1. s <= saved /\ s \in Seqs
    BY DEF QuietInv, CloudHasTheRest, WellFormed, CloudShape
  <2>2. Reached \in Int /\ saved \in Nat
    BY LineIsOfNumbers DEF QuietInv
  <2>3. 1..saved \subseteq Handled
    BY <2>2 DEF QuietInv, WorkIsDone
  <2> QED BY <2>1, <2>2, <2>3, MaxSeqAssumption DEF Seqs
<1> QED BY <1>1, CommandsStayInLine, PTL

\* A command that was published is handled, on its way through the threads, or
\* still to be had from Firebase: no hand-over and no restart forgets it.
THEOREM NoCommandIsForgotten ==
    ASSUME ~RecoveryOn
    PROVE  Spec => []NothingForgotten
<1>1. QuietInv => NothingForgotten
  <2> SUFFICES ASSUME QuietInv PROVE NothingForgotten
    OBVIOUS
  <2>0. published \subseteq Seqs
    BY DEF QuietInv, WellFormed, CloudShape
  <2> SUFFICES ASSUME NEW s \in published, s \notin Handled,
                      ~(s \in queued /\ (connected => s \in inflight))
               PROVE  s \in InMemory
    <3>1. \A s \in published : s \in (queued \intersect (IF connected THEN inflight ELSE Seqs))
                                 <=> s \in queued /\ (connected => s \in inflight)
      BY <2>0
    <3> QED BY <3>1 DEF NothingForgotten
  <2>1. /\ Upcoming \in Nat /\ ToPut \in Int /\ Reached \in Int /\ saved \in Nat
        /\ Len(queue) \in Nat /\ Len(ready[L]) \in Nat /\ Reached < Upcoming
        /\ queue \in Seq(Seqs) /\ ready[L] \in Seq(Seqs)
    BY LineIsOfNumbers DEF QuietInv
  <2>2. s \in Nat /\ s >= 1
    BY <2>0, MaxSeqAssumption DEF Seqs
  <2>3. s > saved /\ s > (IF w_pc = "send" THEN Reached - 1 ELSE Reached)
    BY <2>1, <2>2 DEF QuietInv, WorkIsDone
  <2>4. s \in queued /\ connected /\ s \notin inflight
    BY <2>1, <2>2, <2>3 DEF QuietInv, CloudHasTheRest
  <2>5. s \in pending \union batch \/ s < Upcoming
    BY <2>4 DEF QuietInv, CloudHasTheRest
  <2>6. CASE s \in pending \union batch
    BY <2>6 DEF InMemory
  <2>7. CASE s < Upcoming /\ s <= Reached
    <3>1. w_pc = "send" /\ s = Reached
      BY <2>1, <2>2, <2>3, <2>7
    <3>2. w_cmd = s
      BY <3>1 DEF QuietInv, InLine
    <3> QED BY <3>1, <3>2 DEF InMemory, Released, InHand
  <2>8. CASE s < Upcoming /\ Reached < s /\ s <= Reached + Len(queue)
    <3>1. s - Reached \in 1..Len(queue) /\ Reached + (s - Reached) = s
      BY <2>1, <2>2, <2>8
    <3>2. queue[s - Reached] = s
      BY <3>1 DEF QuietInv, InLine
    <3>3. s \in ToSet(queue)
      BY <2>1, <3>1, <3>2, ListProperties DEF ToSet
    <3> QED BY <3>3 DEF InMemory, Released
  <2>9. CASE s < Upcoming /\ Reached + Len(queue) < s
    <3> DEFINE n == Len(ready[L])
               k == Len(queue)
               t == ToPut
               u == Upcoming
               r == Reached
               j == s - r - k
    <3>a. /\ r = t - k - 1 /\ t = u - n
      BY DEF Reached, ToPut
    <3>b. n \in Int /\ k \in Int /\ t \in Int /\ u \in Int /\ r \in Int /\ s < u /\ r + k < s
      BY <2>1, <2>9
    <3>c. j = s - r - k
      OBVIOUS
    <3> HIDE DEF n, k, t, u, r, j
    <3>d. j \in 1..n /\ t + j - 1 = s
      BY <2>2, <3>a, <3>b, <3>c
    <3>1. j \in 1..Len(ready[L]) /\ ToPut + j - 1 = s
      BY <3>d DEF n, t
    <3>2. ready[L][j] = s
      BY <3>1 DEF QuietInv, LoneShape
    <3>3. s \in ToSet(ready[L])
      BY <2>1, <3>1, <3>2, ListProperties DEF ToSet
    <3> QED BY <3>3 DEF InMemory, Released
  <2> QED BY <2>1, <2>2, <2>5, <2>6, <2>7, <2>8, <2>9
<1> QED BY <1>1, CommandsStayInLine, PTL

\* Neither the state file nor the acknowledged number ever goes back.
THEOREM ProgressIsKept ==
    ASSUME ~RecoveryOn
    PROVE  Spec => ProgressNeverGoesBack
<1>1. QuietInv /\ [Next]_vars =>
          [saved' >= saved /\ cloud_applied' >= cloud_applied]_<<saved, cloud_applied>>
  <2> SUFFICES ASSUME QuietInv, [Next]_vars
               PROVE  \/ saved' >= saved /\ cloud_applied' >= cloud_applied
                      \/ UNCHANGED <<saved, cloud_applied>>
    OBVIOUS
  <2>1. /\ saved \in Nat /\ Reached \in Int /\ cloud_applied \in Nat
    BY LineIsOfNumbers DEF QuietInv, WellFormed, AckShape
  <2>2. CASE Save
    <3>1. /\ w_cmd = Reached /\ saved <= Reached - 1 /\ UNCHANGED cloud_applied
          /\ saved' = w_cmd \/ UNCHANGED saved
      BY <2>2 DEF Save, SavedSeq, QuietInv, InLine, WorkIsDone, cloudVars
    <3> QED BY <2>1, <3>1
  <2>3. CASE Ack
    <3>1. UNCHANGED saved
      BY <2>3 DEF Ack, workerVars
    <3>2. cloud_applied' >= cloud_applied
      BY <2>1, <2>3
         DEF Ack, Take, WriteState, Cleanup, WriteFails, cloudVars, QuietInv, AcksFollow
    <3> QED BY <2>1, <3>1, <3>2
  <2>4. CASE Crash
    BY <2>4 DEF Crash, StoredSeq, cloudVars
  <2>5. CASE Listener
    BY <2>5
       DEF Listener, HandleSnapshot, HandleEvent, Within, Put, Status, cloudVars, workerVars
  <2>6. CASE Heartbeat
    BY <2>6
       DEF Heartbeat, Beat, RecoverGap, Skip, Within, Put, Status, cloudVars, workerVars
  <2>7. CASE Get \/ Send \/ SendFails \/ SendGivesUp \/ MarkApplied \/ WorkerStatus
    BY <2>7
       DEF Get, Send, SendFails, SendGivesUp, SendRaises, MarkApplied, WorkerStatus,
           cloudVars
  <2>8. CASE Environment
    BY <2>8 DEF Environment, StreamDrops, Publish, cloudVars, workerVars
  <2>9. CASE UNCHANGED vars
    BY <2>9 DEF vars, cloudVars, workerVars
  <2> QED BY <2>2, <2>3, <2>4, <2>5, <2>6, <2>7, <2>8, <2>9 DEF Next, Worker
<1> QED BY <1>1, CommandsStayInLine, PTL DEF Spec, ProgressNeverGoesBack

-----------------------------------------------------------------------------
(* ... and no send is given up *)

\* What was saved is what was typed last, or the number before it, until the
\* typed number is saved or is typed again.  What went out in part is the next.
TypedIsNext ==
    /\ dropped = {} /\ give_ups = 0
    /\ w_pc \in {"send", "save"} => saved = Reached - 1
    /\ w_pc \in {"get", "mark", "status"} => saved = Reached
    /\ typed # <<>> => Last(typed) \in {saved, saved + 1}
    /\ w_pc = "save" => typed # <<>> /\ Last(typed) = saved + 1
    /\ w_pc \in {"mark", "status"} => typed # <<>> /\ Last(typed) = saved
    /\ half \in {0, saved + 1}
    /\ w_pc = "save" => half = 0

\* The last command is due once more: the process died before it was saved, or
\* sending it failed when all of it was out.
Due == typed # <<>> /\ Last(typed) # saved /\ w_pc \notin {"save", "dead"}

Repeats == Len(typed) - Cardinality(ToSet(typed))

\* Every repetition, the one that is due included, was paid for with a kill or
\* with a send that failed.
RepeatsArePaid ==
    /\ crashes \in Nat /\ serial_faults \in Nat
    /\ Repeats + (IF Due THEN 1 ELSE 0) <= crashes + serial_faults

\* The inductive invariant of what was typed.
KeepInv == QuietInv /\ TypedIsNext /\ TypedInOrder /\ RepeatsArePaid

\* The list of what was typed, and its last member.
LEMMA TypedProperties ==
    ASSUME WorkerShape
    PROVE  /\ typed \in Seq(Seqs) /\ Len(typed) \in Nat /\ DOMAIN typed = 1..Len(typed)
           /\ \A i \in DOMAIN typed : typed[i] \in Seqs /\ typed[i] \in Nat
           /\ typed # <<>> =>
                 /\ Len(typed) \in DOMAIN typed /\ Last(typed) = typed[Len(typed)]
                 /\ Last(typed) \in Nat
           /\ IsFiniteSet(ToSet(typed)) /\ Cardinality(ToSet(typed)) \in Nat
<1>1. /\ typed \in Seq(Seqs) /\ Len(typed) \in Nat /\ DOMAIN typed = 1..Len(typed)
      /\ \A i \in DOMAIN typed : typed[i] \in Seqs
      /\ typed # <<>> => Len(typed) > 0
  BY DEF WorkerShape
<1>2. \A i \in DOMAIN typed : typed[i] \in Nat
  BY <1>1, MaxSeqAssumption DEF Seqs
<1>3. typed # <<>> =>
          /\ Len(typed) \in DOMAIN typed /\ Last(typed) = typed[Len(typed)]
          /\ Last(typed) \in Nat
  BY <1>1, <1>2 DEF Last
<1>4. IsFiniteSet(Seqs)
  BY FS_Interval, MaxSeqAssumption DEF Seqs
<1>5. ToSet(typed) \in SUBSET Seqs
  BY <1>1 DEF ToSet
<1>6. IsFiniteSet(ToSet(typed)) /\ Cardinality(ToSet(typed)) \in Nat
  BY <1>4, <1>5, FS_Subset, FS_CardinalityType
<1> QED BY <1>1, <1>2, <1>3, <1>6

\* One more number, not below the last one, keeps the list in order; it repeats
\* one exactly when it is the last one again.
LEMMA TypeOneMore ==
    ASSUME WorkerShape, TypedInOrder, NEW s \in Seqs, typed # <<>> => Last(typed) <= s,
           typed' = Append(typed, s)
    PROVE  /\ typed' # <<>> /\ Last(typed') = s
           /\ TypedInOrder'
           /\ Repeats' = Repeats + (IF typed # <<>> /\ Last(typed) = s THEN 1 ELSE 0)
<1>1. /\ typed \in Seq(Seqs) /\ Len(typed) \in Nat /\ DOMAIN typed = 1..Len(typed)
      /\ \A i \in DOMAIN typed : typed[i] \in Nat
      /\ typed # <<>> => /\ Len(typed) \in DOMAIN typed /\ Last(typed) = typed[Len(typed)]
                         /\ Last(typed) \in Nat
      /\ IsFiniteSet(ToSet(typed)) /\ Cardinality(ToSet(typed)) \in Nat
  BY TypedProperties
<1>2. /\ DOMAIN typed' = 1..(Len(typed) + 1) /\ Len(typed') = Len(typed) + 1
      /\ \A i \in 1..Len(typed) : typed'[i] = typed[i]
      /\ typed'[Len(typed) + 1] = s
      /\ typed' # <<>>
  BY <1>1
<1>3. Last(typed') = s
  BY <1>2 DEF Last
<1>4. s \in Nat
  BY MaxSeqAssumption DEF Seqs
<1>5. \A i \in DOMAIN typed : typed[i] <= Last(typed) /\ typed[i] <= s
  <2> TAKE i \in DOMAIN typed
  <2>1. typed # <<>> /\ i \in Nat /\ i <= Len(typed)
    BY <1>1
  <2>2. typed[i] <= typed[Len(typed)]
    BY <1>1, <2>1 DEF TypedInOrder
  <2>3. typed[i] \in Nat /\ Last(typed) \in Nat /\ typed[i] <= Last(typed) /\ Last(typed) <= s
    BY <1>1, <2>1, <2>2
  <2> QED BY <1>4, <2>3
<1>6. TypedInOrder'
  <2> SUFFICES ASSUME NEW i \in DOMAIN typed', NEW j \in DOMAIN typed', i < j
               PROVE  typed'[i] <= typed'[j]
    BY DEF TypedInOrder
  <2>1. i \in 1..Len(typed) /\ j \in Nat
    BY <1>1, <1>2
  <2>2. CASE j = Len(typed) + 1
    BY <1>1, <1>2, <1>5, <2>1, <2>2
  <2>3. CASE j # Len(typed) + 1
    <3>1. j \in 1..Len(typed)
      BY <1>1, <1>2, <2>3
    <3>2. typed[i] <= typed[j]
      BY <1>1, <2>1, <3>1 DEF TypedInOrder
    <3> QED BY <1>2, <2>1, <3>1, <3>2
  <2> QED BY <2>2, <2>3
<1>7. s \in ToSet(typed) <=> typed # <<>> /\ Last(typed) = s
  <2>1. ASSUME s \in ToSet(typed) PROVE typed # <<>> /\ Last(typed) = s
    <3>1. PICK i \in DOMAIN typed : s = typed[i]
      BY <2>1 DEF ToSet
    <3>2. typed # <<>>
      BY <1>1, <3>1
    <3>3. s <= Last(typed) /\ Last(typed) <= s /\ Last(typed) \in Nat
      BY <1>1, <1>5, <3>1, <3>2
    <3> QED BY <1>4, <3>2, <3>3
  <2>2. ASSUME typed # <<>>, Last(typed) = s PROVE s \in ToSet(typed)
    <3>1. Len(typed) \in DOMAIN typed /\ s = typed[Len(typed)]
      BY <1>1, <2>2
    <3> QED BY <3>1 DEF ToSet
  <2> QED BY <2>1, <2>2
<1>8. Cardinality(ToSet(typed'))
        = IF s \in ToSet(typed) THEN Cardinality(ToSet(typed)) ELSE Cardinality(ToSet(typed)) + 1
  <2>1. ToSet(typed') = ToSet(typed) \union {s}
    <3>1. ToSet(Append(typed, s)) = ToSet(typed) \union {s}
      BY TypedGrows
    <3> QED BY <3>1
  <2> QED BY <1>1, <2>1, FS_AddElement
<1>9. Repeats' = Repeats + (IF typed # <<>> /\ Last(typed) = s THEN 1 ELSE 0)
  <2>1. Repeats' = Len(typed') - Cardinality(ToSet(typed'))
    BY DEF Repeats
  <2> QED BY <1>1, <1>2, <1>7, <1>8, <2>1 DEF Repeats
<1> QED BY <1>2, <1>3, <1>6, <1>9

\* Only the worker and a kill touch what the worker has done.
LEMMA OthersDoNotType ==
    ASSUME Listener \/ Heartbeat \/ Ack \/ Environment \/ UNCHANGED vars
    PROVE  UNCHANGED <<w_pc, w_cmd, saved, typed, half, dropped, crashes, give_ups,
                       serial_faults>>
<1>1. CASE Listener
  BY <1>1
     DEF Listener, HandleSnapshot, HandleEvent, Within, Put, Status, CloudFault,
         workerVars, history, faults
<1>2. CASE Heartbeat
  BY <1>2
     DEF Heartbeat, Beat, RecoverGap, Skip, Within, Put, Status, CloudFault,
         workerVars, history, faults
<1>3. CASE Ack
  BY <1>3 DEF Ack, CloudFault, workerVars, history, faults
<1>4. CASE Environment
  BY <1>4 DEF Environment, StreamDrops, Publish, workerVars, history, faults
<1>5. CASE UNCHANGED vars
  BY <1>5 DEF vars, workerVars, history, faults
<1> QED BY <1>1, <1>2, <1>3, <1>4, <1>5

\* ... and nobody but they moves what the worker has reached.
LEMMA ReachedRests ==
    ASSUME ~RecoveryOn, QuietInv,
           Listener \/ Heartbeat \/ Ack \/ Environment \/ UNCHANGED vars
    PROVE  Reached' = Reached
<1>0. /\ LoneShape /\ SharedInv /\ SharedTypeOK
      /\ ToPut \in Int /\ Len(queue) \in Nat
      /\ queue \in Seq(Seqs) /\ ready[L] \in Seq(Seqs)
  BY LineIsOfNumbers DEF QuietInv, WellFormed, SharedInv
<1>1. CASE Put(L) /\ ready[L] # <<>>
  <2>1. /\ pc[L] = "put" /\ queue' = Append(queue, Head(ready[L]))
        /\ ready' = [ready EXCEPT ![L] = Tail(@)]
        /\ UNCHANGED <<next_seq, pending, timer, pc, batch>>
    BY <1>1 DEF Put, At, buffer
  <2>2. ToPut' = ToPut + 1
    BY <1>0, <1>1, <2>1, LonePuts
  <2>3. Len(queue') = Len(queue) + 1
    <3>1. Head(ready[L]) \in Seqs
      BY <1>0, <1>1, ListProperties
    <3> QED BY <1>0, <2>1, <3>1, ListProperties
  <2>4. Reached' = ToPut' - Len(queue') - 1
    BY DEF Reached
  <2> QED BY <1>0, <2>2, <2>3, <2>4 DEF Reached
<1>2. ASSUME ~(Put(L) /\ ready[L] # <<>>) PROVE ToPut' = ToPut /\ queue' = queue
  <2>1. CASE HandleSnapshot
    BY <1>0, <2>1, LoneCall, LoneRests DEF HandleSnapshot
  <2>2. ASSUME NEW e \in Seqs, HandleEvent(e) PROVE ToPut' = ToPut /\ queue' = queue
    BY <1>0, <2>2, LoneCall DEF HandleEvent
  <2>3. CASE Within(Insert) \/ Within(Drain(L))
    BY <1>0, <2>3, LoneInserts, LoneDrains DEF Within
  <2>4. CASE Put(L) \/ Status(L) \/ Status(H) \/ Beat
    <3>1. /\ UNCHANGED <<next_seq, pending, timer, batch, ready, queue>>
      BY <1>2, <2>4 DEF Put, Status, Beat, buffer
    <3>2. /\ pc'[H] \in {"idle", "status", "dead"}
          /\ \/ pc'[L] = pc[L]
             \/ /\ pc[L] \in {"put", "status"} /\ ready[L] = <<>>
                /\ pc'[L] \in {"idle", "status", "dead"}
      <4>1. /\ pc \in [Threads -> Places] /\ L \in Threads /\ H \in Threads /\ L # H
        BY <1>0, SharedTypes
      <4> QED BY <1>0, <1>2, <2>4, <4>1 DEF Put, Status, Beat, At, Goto, LoneShape
    <3> QED BY <1>0, <3>1, <3>2, LoneMoves
  <2>5. ~RecoverGap /\ ~Within(Drain(H)) /\ ~Put(H)
    BY <1>0, HeartbeatStaysOut
  <2>6. CASE Ack \/ Environment \/ UNCHANGED vars
    <3>1. UNCHANGED <<sharedVars, queue>>
      BY <2>6 DEF Ack, Environment, StreamDrops, Publish, vars
    <3> QED BY <1>0, <3>1, LoneRests
  <2> QED BY <2>1, <2>2, <2>3, <2>4, <2>5, <2>6 DEF Listener, Heartbeat, Within
<1> QED BY <1>1, <1>2 DEF Reached

\* Nothing is typed and nothing is due at the start.
LEMMA InitKeeps == Init => KeepInv
<1> SUFFICES ASSUME Init PROVE KeepInv
  OBVIOUS
<1>1. /\ QuietInv /\ typed = <<>> /\ DOMAIN typed = {} /\ Len(typed) = 0
      /\ Len(queue) = 0
      /\ w_pc = "get" /\ saved = 0 /\ half = 0 /\ dropped = {} /\ give_ups = 0
      /\ crashes = 0 /\ serial_faults = 0
  BY InitQuiet DEF Init
<1>a. Reached = 0
  <2>1. NewSharedBuffer(1) /\ 1 \in 1..(MaxSeq + 1)
    BY MaxSeqAssumption DEF Init
  <2>2. ToPut = 1
    BY <2>1, NewLone
  <2> QED BY <1>1, <2>2 DEF Reached
<1>2. TypedIsNext
  BY <1>1, <1>a DEF TypedIsNext
<1>3. TypedInOrder
  BY <1>1 DEF TypedInOrder
<1>4. RepeatsArePaid
  <2>1. ToSet(typed) = {}
    BY <1>1 DEF ToSet
  <2>2. Cardinality(ToSet(typed)) = 0
    BY <2>1, FS_EmptySet
  <2> QED BY <1>1, <2>2 DEF RepeatsArePaid, Repeats, Due
<1> QED BY <1>1, <1>2, <1>3, <1>4 DEF KeepInv

\* Every step keeps it: typing the command that is due repeats it, a kill may
\* make one due, and saving a number settles it.
LEMMA StepKeeps ==
    ASSUME ~RecoveryOn, MaxGiveUps = 0
    PROVE  KeepInv /\ [Next]_vars => KeepInv'
<1> SUFFICES ASSUME KeepInv, [Next]_vars PROVE KeepInv'
  OBVIOUS
<1>0. /\ QuietInv /\ QuietInv' /\ TypedIsNext /\ TypedInOrder /\ RepeatsArePaid
      /\ WorkerShape
  BY StepQuiet DEF KeepInv, QuietInv, WellFormed
<1>a. /\ Reached \in Int /\ saved \in Nat /\ ToPut \in Int
      /\ Len(queue) \in Nat /\ queue \in Seq(Seqs)
      /\ Len(typed) \in Nat /\ Cardinality(ToSet(typed)) \in Nat /\ Repeats \in Int
      /\ typed # <<>> => Last(typed) \in Nat
      /\ crashes \in Nat /\ serial_faults \in Nat
  BY <1>0, LineIsOfNumbers, TypedProperties DEF QuietInv, Repeats, RepeatsArePaid
<1>1. CASE Listener \/ Heartbeat \/ Ack \/ Environment \/ UNCHANGED vars
  <2>1. /\ UNCHANGED <<w_pc, saved, typed, half, dropped, crashes, give_ups, serial_faults>>
        /\ Reached' = Reached
    BY <1>0, <1>1, OthersDoNotType, ReachedRests
  <2>2. TypedIsNext' /\ TypedInOrder'
    BY <1>0, <2>1 DEF TypedIsNext, TypedInOrder
  <2>3. RepeatsArePaid'
    BY <1>0, <2>1 DEF RepeatsArePaid, Repeats, Due
  <2> QED BY <1>0, <2>2, <2>3 DEF KeepInv
<1>b. ASSUME UNCHANGED <<sharedVars, queue>> PROVE Reached' = Reached
  <2>1. ToPut' = ToPut
    BY <1>0, <1>b, LoneRests DEF QuietInv
  <2> QED BY <1>b, <2>1 DEF Reached
<1>2. CASE Get
  <2>1. /\ w_pc = "get" /\ w_pc' = "send" /\ queue # <<>> /\ queue' = Tail(queue)
        /\ UNCHANGED <<sharedVars, saved, typed, half, dropped, crashes, give_ups,
                       serial_faults>>
    BY <1>2 DEF Get, history, faults
  <2>2. Reached' = Reached + 1
    <3>1. ToPut' = ToPut
      BY <1>0, <2>1, LoneRests DEF QuietInv
    <3>2. Len(queue') = Len(queue) - 1
      BY <1>a, <2>1, ListProperties
    <3>3. Reached' = ToPut' - Len(queue') - 1
      BY DEF Reached
    <3> QED BY <1>a, <3>1, <3>2, <3>3 DEF Reached
  <2>3. TypedIsNext' /\ TypedInOrder'
    BY <1>0, <1>a, <2>1, <2>2 DEF TypedIsNext, TypedInOrder
  <2>4. RepeatsArePaid'
    BY <1>0, <2>1 DEF RepeatsArePaid, Repeats, Due
  <2> QED BY <1>0, <2>3, <2>4 DEF KeepInv
<1>3. CASE Send
  <2>1. /\ w_pc = "send" /\ w_pc' = "save" /\ typed' = Append(typed, w_cmd) /\ half' = 0
        /\ UNCHANGED <<sharedVars, queue, saved, dropped, crashes, give_ups, serial_faults>>
    BY <1>3 DEF Send, AllLinesOut, faults
  <2>2. w_cmd \in Seqs /\ w_cmd = saved + 1
    BY <1>0, <1>a, <2>1 DEF QuietInv, InLine, TypedIsNext, WorkerShape
  <2>3. /\ typed' # <<>> /\ Last(typed') = saved + 1 /\ TypedInOrder'
        /\ Repeats' = Repeats + (IF typed # <<>> /\ Last(typed) = saved + 1 THEN 1 ELSE 0)
    <3>1. typed # <<>> => Last(typed) <= w_cmd
      BY <1>0, <1>a, <2>2 DEF TypedIsNext
    <3> QED BY <1>0, <2>1, <2>2, <3>1, TypeOneMore
  <2>4. TypedIsNext'
    <3>1. Reached' = Reached
      BY <1>b, <2>1
    <3> QED BY <1>0, <2>1, <2>3, <3>1 DEF TypedIsNext
  <2>5. RepeatsArePaid'
    <3>1. ~Due' /\ (Due <=> typed # <<>> /\ Last(typed) = saved + 1)
      BY <1>0, <1>a, <2>1 DEF Due, TypedIsNext
    <3> QED BY <1>0, <1>a, <2>1, <2>3, <3>1 DEF RepeatsArePaid
  <2> QED BY <1>0, <2>3, <2>4, <2>5 DEF KeepInv
<1>4. CASE SendFails
  <2>1. /\ w_pc = "send" /\ serial_faults' = serial_faults + 1
        /\ \/ half' \in {half, w_cmd} /\ UNCHANGED typed
           \/ half' = 0 /\ typed' = Append(typed, w_cmd)
        /\ UNCHANGED <<sharedVars, queue, w_pc, saved, dropped, crashes, give_ups>>
    BY <1>4 DEF SendFails, SendRaises, AllLinesOut
  <2>2. w_cmd \in Seqs /\ w_cmd = saved + 1
    BY <1>0, <1>a, <2>1 DEF QuietInv, InLine, TypedIsNext, WorkerShape
  <2>3. Reached' = Reached
    BY <1>b, <2>1
  <2>4. CASE half' \in {half, w_cmd} /\ UNCHANGED typed
    <3>1. TypedIsNext' /\ TypedInOrder'
      BY <1>0, <2>1, <2>2, <2>3, <2>4 DEF TypedIsNext, TypedInOrder
    <3>2. Repeats' = Repeats /\ Due' = Due
      BY <2>1, <2>4 DEF Repeats, Due
    <3>3. RepeatsArePaid'
      BY <1>0, <1>a, <2>1, <3>2 DEF RepeatsArePaid
    <3> QED BY <1>0, <3>1, <3>3 DEF KeepInv
  <2>5. CASE half' = 0 /\ typed' = Append(typed, w_cmd)
    <3>1. /\ typed' # <<>> /\ Last(typed') = saved + 1 /\ TypedInOrder'
          /\ Repeats' = Repeats + (IF typed # <<>> /\ Last(typed) = saved + 1 THEN 1 ELSE 0)
      <4>1. typed # <<>> => Last(typed) <= w_cmd
        BY <1>0, <1>a, <2>2 DEF TypedIsNext
      <4> QED BY <1>0, <2>2, <2>5, <4>1, TypeOneMore
    <3>2. TypedIsNext'
      BY <1>0, <1>a, <2>1, <2>3, <2>5, <3>1 DEF TypedIsNext
    <3>3. RepeatsArePaid'
      <4>1. Due <=> typed # <<>> /\ Last(typed) = saved + 1
        BY <1>0, <1>a, <2>1 DEF Due, TypedIsNext
      <4>2. Due'
        BY <1>a, <2>1, <3>1 DEF Due
      <4> QED BY <1>0, <1>a, <2>1, <3>1, <4>1, <4>2 DEF RepeatsArePaid
    <3> QED BY <1>0, <3>1, <3>2, <3>3 DEF KeepInv
  <2> QED BY <2>1, <2>4, <2>5
<1>5. ~SendGivesUp
  BY <1>0 DEF SendGivesUp, TypedIsNext
<1>6. CASE Save
  <2>1. /\ w_pc = "save"
        /\ \/ saved' = w_cmd /\ w_pc' = "mark"
           \/ saved' = saved /\ w_pc' = "dead"
        /\ UNCHANGED <<sharedVars, queue, history, crashes, give_ups, serial_faults>>
    BY <1>6 DEF Save, SavedSeq, CloudFault, faults
  <2>2. /\ typed # <<>> /\ Last(typed) = saved + 1 /\ half = 0
        /\ w_cmd = Reached /\ saved = Reached - 1
    BY <1>0, <2>1 DEF QuietInv, InLine, TypedIsNext
  <2>3. /\ Reached' = Reached
        /\ UNCHANGED <<typed, half, dropped>>
    BY <1>b, <2>1 DEF history
  <2>4. TypedIsNext' /\ TypedInOrder'
    BY <1>0, <1>a, <2>1, <2>2, <2>3 DEF TypedIsNext, TypedInOrder
  <2>5. RepeatsArePaid'
    <3>1. ~Due /\ ~Due'
      BY <1>a, <2>1, <2>2, <2>3 DEF Due
    <3> QED BY <1>0, <2>1, <2>3, <3>1 DEF RepeatsArePaid, Repeats
  <2> QED BY <1>0, <2>4, <2>5 DEF KeepInv
<1>7. CASE MarkApplied \/ WorkerStatus
  <2>1. /\ \/ w_pc = "mark" /\ w_pc' = "status"
           \/ w_pc = "status" /\ w_pc' \in {"get", "dead"}
        /\ UNCHANGED <<sharedVars, queue, saved, history, crashes, give_ups, serial_faults>>
    BY <1>7 DEF MarkApplied, WorkerStatus, CloudFault, faults
  <2>2. /\ Reached' = Reached
        /\ UNCHANGED <<typed, half, dropped>>
    BY <1>b, <2>1 DEF history
  <2>3. TypedIsNext' /\ TypedInOrder'
    BY <1>0, <2>1, <2>2 DEF TypedIsNext, TypedInOrder
  <2>4. RepeatsArePaid'
    <3>1. ~Due /\ ~Due'
      BY <1>0, <2>1, <2>2 DEF Due, TypedIsNext
    <3> QED BY <1>0, <2>1, <2>2, <3>1 DEF RepeatsArePaid, Repeats
  <2> QED BY <1>0, <2>3, <2>4 DEF KeepInv
<1>8. CASE Crash
  <2>1. /\ saved' = saved /\ next_seq' = saved + 1 /\ w_pc' = "get"
        /\ pc'[L] = "idle" /\ ready'[L] = <<>> /\ queue' = <<>>
        /\ crashes' = crashes + 1
        /\ UNCHANGED <<typed, half, dropped, give_ups, serial_faults>>
    BY <1>8 DEF Crash, StoredSeq, history, Threads
  <2>2. Reached' = saved
    <3>1. Len(ready'[L]) = 0 /\ Len(queue') = 0
      BY <2>1
    <3>2. Upcoming' = saved + 1
      BY <2>1 DEF Upcoming, At
    <3> QED BY <1>a, <3>1, <3>2 DEF Reached, ToPut
  <2>3. TypedIsNext' /\ TypedInOrder'
    BY <1>0, <2>1, <2>2 DEF TypedIsNext, TypedInOrder
  <2>4. RepeatsArePaid'
    <3>1. Repeats <= crashes + serial_faults /\ Repeats' = Repeats
      BY <1>0, <1>a, <2>1 DEF RepeatsArePaid, Repeats
    <3> QED BY <1>a, <2>1, <3>1 DEF RepeatsArePaid
  <2> QED BY <1>0, <2>3, <2>4 DEF KeepInv
<1> QED BY <1>1, <1>2, <1>3, <1>4, <1>5, <1>6, <1>7, <1>8 DEF Next, Worker

\* It holds in every reachable state.
THEOREM WorkIsKept ==
    ASSUME ~RecoveryOn, MaxGiveUps = 0
    PROVE  Spec => []KeepInv
<1>1. KeepInv /\ [Next]_vars => KeepInv'
  BY StepKeeps
<1> QED BY <1>1, InitKeeps, PTL DEF Spec

\* Across failing sends, reconnections and kills, the Teensy gets the commands
\* in order of seq.
THEOREM NeverOutOfOrder ==
    ASSUME ~RecoveryOn, MaxGiveUps = 0
    PROVE  Spec => []TypedInOrder
<1>1. KeepInv => TypedInOrder
  BY DEF KeepInv
<1> QED BY <1>1, WorkIsKept, PTL

\* A kill, or a send that fails, costs at most one repetition, and nothing else
\* repeats a command.
THEOREM RepeatsAreCounted ==
    ASSUME ~RecoveryOn, MaxGiveUps = 0
    PROVE  Spec => []RepeatsHaveACause
<1>1. KeepInv => RepeatsHaveACause
  <2> SUFFICES ASSUME KeepInv PROVE RepeatsHaveACause
    OBVIOUS
  <2>1. Repeats \in Int /\ crashes \in Nat /\ serial_faults \in Nat
    BY TypedProperties DEF KeepInv, QuietInv, WellFormed, RepeatsArePaid, Repeats
  <2>2. Repeats <= crashes + serial_faults
    BY <2>1 DEF KeepInv, RepeatsArePaid
  <2> QED BY <2>2 DEF RepeatsHaveACause, Repeats
<1> QED BY <1>1, WorkIsKept, PTL

\* A command that went out in part is what the Teensy gets next.
THEOREM HalfIsFinished ==
    ASSUME ~RecoveryOn, MaxGiveUps = 0
    PROVE  Spec => HalfTypedComesFirst
<1>1. KeepInv /\ [Next]_vars =>
          [typed' # typed /\ half \notin dropped \union {0} => Last(typed') = half]_vars
  <2> SUFFICES ASSUME KeepInv, [Next]_vars, typed' # typed, half \notin dropped \union {0}
               PROVE  Last(typed') = half
    OBVIOUS
  <2>0. TypedIsNext /\ TypedInOrder /\ QuietInv /\ WorkerShape
    BY DEF KeepInv, QuietInv, WellFormed
  <2>1. ~(Listener \/ Heartbeat \/ Ack \/ Environment \/ UNCHANGED vars)
    BY OthersDoNotType
  <2>2. Send \/ SendFails
    BY <2>0, <2>1
       DEF Next, Worker, Get, SendGivesUp, SendRaises, Save, MarkApplied,
           WorkerStatus, Crash, TypedIsNext, history
  <2>3. w_pc = "send" /\ typed' = Append(typed, w_cmd) /\ half = saved + 1
    BY <2>0, <2>2 DEF Send, SendFails, SendRaises, AllLinesOut, TypedIsNext
  <2>4. w_cmd = saved + 1 /\ w_cmd \in Seqs
    <3>1. Reached \in Int /\ saved \in Nat
      BY <2>0, LineIsOfNumbers DEF QuietInv
    <3> QED BY <2>0, <2>3, <3>1 DEF QuietInv, InLine, TypedIsNext, WorkerShape
  <2>5. typed # <<>> => Last(typed) <= w_cmd
    <3>1. saved \in Nat
      BY <2>0, LineIsOfNumbers DEF QuietInv
    <3> QED BY <2>0, <2>4, <3>1 DEF TypedIsNext
  <2>6. Last(typed') = w_cmd
    BY <2>0, <2>3, <2>4, <2>5, TypeOneMore
  <2> QED BY <2>3, <2>4, <2>6
<1> QED BY <1>1, WorkIsKept, PTL DEF Spec, HalfTypedComesFirst

\* The bridge implements OrderedTyping: a send, failing in the end or not, types
\* the next command or the one that is due, a kill may make the last one due,
\* and every other step of every thread is invisible from the Teensy.
THEOREM KeepsThePromise ==
    ASSUME ~RecoveryOn, MaxGiveUps = 0
    PROVE  Spec => TypesAsPromised
<1>1. Init => Promise!Init
  BY DEF Init, Promise!Init
<1>2. KeepInv /\ [Next]_vars => [Promise!Next]_<<typed, Due>>
  <2> SUFFICES ASSUME KeepInv, [Next]_vars
               PROVE  Promise!Next \/ UNCHANGED <<typed, Due>>
    OBVIOUS
  <2>0. /\ TypedIsNext /\ TypedInOrder /\ QuietInv /\ WorkerShape
        /\ saved \in Nat /\ Reached \in Int
    BY LineIsOfNumbers DEF KeepInv, QuietInv, WellFormed
  <2>a. Due \in BOOLEAN /\ Due' \in BOOLEAN
    BY DEF Due
  <2>l. Promise!Last(typed) = Last(typed)
    BY DEF Last, Promise!Last
  <2>b. /\ \A s : Promise!Type(s) <=> /\ ~Due /\ (typed = <<>> \/ s > Last(typed))
                                     /\ typed' = Append(typed, s) /\ Due' \in BOOLEAN
        /\ Promise!Kill <=> ~Due /\ typed # <<>> /\ Due' = TRUE /\ typed' = typed
        /\ Promise!Retype <=>
              Due /\ typed' = Append(typed, Last(typed)) /\ Due' \in BOOLEAN
    BY <2>l DEF Due, Promise!Type, Promise!Kill, Promise!Retype
  <2>1. CASE Listener \/ Heartbeat \/ Ack \/ Environment \/ UNCHANGED vars
    BY <2>1, OthersDoNotType DEF Due
  <2>2. CASE Get \/ (SendFails /\ UNCHANGED typed)
    <3>1. UNCHANGED <<typed, saved>> /\ w_pc \notin {"save", "dead"}
          /\ w_pc' \notin {"save", "dead"}
      BY <2>2 DEF Get, SendFails, SendRaises, history
    <3> QED BY <3>1 DEF Due
  <2>3. CASE Send \/ (SendFails /\ typed' # typed)
    <3>1. w_pc = "send" /\ typed' = Append(typed, w_cmd)
      BY <2>3 DEF Send, SendFails, SendRaises, AllLinesOut
    <3>2. w_cmd \in Seqs /\ w_cmd = saved + 1
      BY <2>0, <3>1 DEF QuietInv, InLine, TypedIsNext, WorkerShape
    <3>4. CASE Due
      <4>1. typed # <<>> /\ Last(typed) = w_cmd
        BY <2>0, <3>2, <3>4 DEF Due, TypedIsNext
      <4>2. Promise!Retype
        BY <2>a, <2>b, <3>1, <3>4, <4>1
      <4> QED BY <4>2 DEF Promise!Next
    <3>5. CASE ~Due
      <4>1. typed = <<>> \/ w_cmd > Last(typed)
        BY <2>0, <3>1, <3>2, <3>5 DEF Due
      <4>2. Promise!Type(w_cmd)
        BY <2>a, <2>b, <3>1, <3>5, <4>1
      <4> QED BY <3>2, <4>2 DEF Promise!Next
    <3> QED BY <3>4, <3>5
  <2>4. ~SendGivesUp
    BY <2>0 DEF SendGivesUp, TypedIsNext
  <2>5. CASE Save \/ MarkApplied \/ WorkerStatus
    <3>1. UNCHANGED typed
      BY <2>5 DEF Save, MarkApplied, WorkerStatus, history
    <3>2. ~Due
      BY <2>0, <2>5 DEF Save, MarkApplied, WorkerStatus, Due, TypedIsNext
    <3>3. CASE Save
      <4>1. TypedIsNext'
        BY StepKeeps DEF KeepInv
      <4>2. w_pc' \in {"mark", "dead"}
        BY <3>3 DEF Save
      <4> QED BY <2>a, <3>1, <3>2, <4>1, <4>2 DEF Due, TypedIsNext
    <3>4. CASE MarkApplied \/ WorkerStatus
      <4>1. w_pc \in {"mark", "status"} /\ UNCHANGED <<typed, saved>>
        BY <3>4 DEF MarkApplied, WorkerStatus, history
      <4>2. ~Due'
        BY <2>0, <4>1 DEF Due, TypedIsNext
      <4> QED BY <2>a, <3>1, <3>2, <4>2
    <3> QED BY <2>5, <3>3, <3>4
  <2>6. CASE Crash
    <3>1. UNCHANGED typed /\ saved' = saved /\ w_pc' = "get"
      BY <2>6 DEF Crash, StoredSeq, history
    <3>2. Due => Due'
      BY <3>1 DEF Due
    <3>3. CASE ~Due /\ Due'
      <4>1. typed # <<>>
        BY <3>1, <3>3 DEF Due
      <4>2. Promise!Kill
        BY <2>a, <2>b, <3>1, <3>3, <4>1
      <4> QED BY <4>2 DEF Promise!Next
    <3> QED BY <2>a, <3>1, <3>2, <3>3
  <2> QED BY <2>1, <2>2, <2>3, <2>4, <2>5, <2>6 DEF Next, Worker
<1>3. [Promise!Next]_<<typed, Due>> =>
          [Promise!Next]_<<typed, typed # <<>> /\ Last(typed) # saved
                                    /\ w_pc \notin {"save", "dead"}>>
  BY DEF Due
<1> QED BY <1>1, <1>2, <1>3, WorkIsKept, PTL DEF Spec, TypesAsPromised, Promise!Spec
=============================================================================
