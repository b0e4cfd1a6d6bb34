--------------------------- MODULE CommandOrdering ---------------------------
(***************************************************************************)
(* PendingCommandBuffer driven by one caller at a time: any batch may be   *)
(* pushed, the heartbeat may call recover_stale_gap, and time passes.      *)
(* History variables record what went in and what came out.                *)
(***************************************************************************)
EXTENDS PendingCommandBuffer

CONSTANT Start   \* last_applied_seq + 1 when the buffer was created

ASSUME StartAssumption == Start \in 1..(MaxSeq + 1)

VARIABLES
    emitted,     \* commands handed to the dispatch queue, in order
    accepted,    \* seq -> payload of the first arrival the buffer took
    skipped      \* numbers the recovery gave up on

vars == <<bufferVars, emitted, accepted, skipped>>

Init ==
    /\ NewBuffer(Start)
    /\ emitted = <<>>
    /\ accepted = <<>>
    /\ skipped = {}

Arrive(batch) ==
    /\ Push(batch)
    /\ emitted' = emitted \o PushReady(batch)
    /\ accepted' = [s \in DOMAIN accepted \union DOMAIN Accept(batch) |->
                       IF s \in DOMAIN accepted THEN accepted[s] ELSE batch[s]]
    /\ UNCHANGED skipped

Recover ==
    \/ /\ SkipGap
       /\ emitted' = emitted \o SkipReady
       /\ skipped' = skipped \union next_seq..(Min(DOMAIN pending) - 1)
       /\ UNCHANGED accepted
    \/ /\ LeaveGap
       /\ UNCHANGED <<emitted, accepted, skipped>>

Clock ==
    /\ Tick
    /\ UNCHANGED <<emitted, accepted, skipped>>

Next ==
    \/ \E batch \in Batches : Arrive(batch)
    \/ Recover
    \/ Clock

Spec == Init /\ [][Next]_vars

\* The heartbeat thread calls recover_stale_gap every
\* bridge_heartbeat_interval_s for as long as the bridge runs.
FairSpec == Spec /\ WF_vars(Recover) /\ WF_vars(Clock)
-----------------------------------------------------------------------------
EmittedSeqs == {emitted[i][1] : i \in DOMAIN emitted}

TypeOK ==
    /\ next_seq \in Start..(MaxSeq + 1)
    /\ pending \in Batches
    /\ gap_age \in {NoGap} \union 0..MaxGapAge
    /\ emitted \in Seq(Seqs \X Payload)
    /\ accepted \in Batches
    /\ skipped \in SUBSET Seqs

\* Commands leave the buffer in strictly increasing order of seq, whatever
\* the order, the duplicates and the lateness of the events that brought
\* them: push and recover_stale_gap release nothing twice and nothing late.
EmittedInOrder ==
    \A i, j \in DOMAIN emitted : i < j => emitted[i][1] < emitted[j][1]

\* A command the buffer took is held or was released, never both, never
\* neither, and always as the version that arrived first (setdefault).
NoAcceptedCommandLost ==
    /\ DOMAIN accepted = EmittedSeqs \union DOMAIN pending
    /\ EmittedSeqs \intersect DOMAIN pending = {}
    /\ \A i \in DOMAIN emitted : accepted[emitted[i][1]] = emitted[i][2]
    /\ \A s \in DOMAIN pending : accepted[s] = pending[s]

\* Below next_seq every number was released or given up, and not both; what
\* is held waits strictly above it.  A skip passes over missing numbers only.
GapsAreAccountedFor ==
    /\ EmittedSeqs \union skipped = Start..(next_seq - 1)
    /\ EmittedSeqs \intersect skipped = {}
    /\ \A s \in DOMAIN pending : s > next_seq

\* Between calls the gap timer runs exactly while something is held back:
\* recover_stale_gap never starts timing late and never times a closed gap.
TimerRunsIffGap == gap_age # NoGap <=> DOMAIN pending # {}

\* With recovery on, a command that is held comes out in the end.
HeldCommandsComeOut ==
    \A s \in Seqs : s \in DOMAIN pending ~> s \in EmittedSeqs
=============================================================================
