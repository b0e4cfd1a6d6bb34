---------------------------- MODULE AckPublisher ----------------------------
(***************************************************************************)
(* How the bridge tells Firebase what it has applied: AckPublisher and     *)
(* FirebaseCommandSource.publish_applied_seq of                            *)
(* src/pi_keystream_bridge/firebase_stream.py.  The worker marks a number; *)
(* the publisher's own thread takes the highest one marked, writes it to   *)
(* the state, then deletes the commands up to it, as two separate writes.  *)
(***************************************************************************)
EXTENDS Integers, FiniteSetsExt

CONSTANT CleanupEnabled   \* queue_cleanup_enabled

ASSUME CleanupAssumption == CleanupEnabled \in BOOLEAN

VARIABLES
    queued,         \* cloud: numbers with a command under commands/
    cloud_applied,  \* cloud: last_applied_seq
    cloud_cleared,  \* cloud: last_cleared_seq
    last_cleared,   \* _last_cleared_seq of the running FirebaseCommandSource
    ack_pending,    \* _pending_seq
    ack_seq,        \* the number the thread is publishing, or 0
    ack_pc          \* "wait", "state" or "cleanup"

cloudVars == <<queued, cloud_applied, cloud_cleared>>
ackVars == <<last_cleared, ack_pending, ack_seq, ack_pc>>

\* A new process: _last_cleared_seq is read back from the cloud.
NewAckPublisher(cleared, applied) ==
    /\ last_cleared = Max({cleared, applied})
    /\ ack_pending = 0
    /\ ack_seq = 0
    /\ ack_pc = "wait"

RestartAckPublisher ==
    /\ last_cleared' = Max({cloud_cleared, cloud_applied})
    /\ ack_pending' = 0
    /\ ack_seq' = 0
    /\ ack_pc' = "wait"

\* Mutant of Mark: the number after it.
MarkNext(seq) ==
    /\ ack_pending' = Max({ack_pending, seq + 1})
    /\ UNCHANGED <<last_cleared, ack_seq, ack_pc>>

\* Mutant of Mark: a mark is lost while a publication is under way.
MarkWhenIdle(seq) ==
    /\ ack_pending' = IF ack_pc = "wait" THEN Max({ack_pending, seq}) ELSE ack_pending
    /\ UNCHANGED <<last_cleared, ack_seq, ack_pc>>

\* mark(seq), called by the worker under the lock.
Mark(seq) ==
    /\ ack_pending' = Max({ack_pending, seq})
    /\ UNCHANGED <<last_cleared, ack_seq, ack_pc>>

\* The thread wakes up and takes what is pending, under the lock.
Take ==
    /\ ack_pc = "wait"
    /\ ack_pending > 0
    /\ ack_seq' = ack_pending
    /\ ack_pending' = 0
    /\ ack_pc' = "state"
    /\ UNCHANGED <<cloudVars, last_cleared>>

\* Mutant of Acknowledged: one number too many.
AcknowledgedAndNext == (last_cleared + 1)..(ack_seq + 1)

\* The numbers the cleanup deletes.
Acknowledged == (last_cleared + 1)..ack_seq

\* publish_applied_seq, first write: the applied and the cleared number.
WriteState ==
    /\ ack_pc = "state"
    /\ cloud_applied' = ack_seq
    /\ cloud_cleared' = IF CleanupEnabled THEN ack_seq ELSE cloud_cleared
    /\ IF CleanupEnabled /\ Acknowledged # {}
       THEN ack_pc' = "cleanup" /\ UNCHANGED ack_seq
       ELSE ack_pc' = "wait" /\ ack_seq' = 0
    /\ UNCHANGED <<queued, last_cleared, ack_pending>>

\* Second write: the commands up to it are deleted.
Cleanup ==
    /\ ack_pc = "cleanup"
    /\ queued' = queued \ Acknowledged
    /\ last_cleared' = ack_seq
    /\ ack_pc' = "wait" /\ ack_seq' = 0
    /\ UNCHANGED <<cloud_applied, cloud_cleared, ack_pending>>

\* Either write may raise: the number that was taken is logged and dropped.
WriteFails ==
    /\ ack_pc \in {"state", "cleanup"}
    /\ ack_pc' = "wait" /\ ack_seq' = 0
    /\ UNCHANGED <<cloudVars, last_cleared, ack_pending>>
=============================================================================
