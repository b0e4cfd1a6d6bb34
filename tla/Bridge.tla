------------------------------- MODULE Bridge -------------------------------
(***************************************************************************)
(* The Raspberry Pi bridge, BridgeController of                            *)
(* src/pi_keystream_bridge/controller.py, with the parts it drives: the    *)
(* Firebase listener, the reordering buffer, the dispatch queue, the       *)
(* serial worker, the file that remembers the last applied number, the     *)
(* acknowledgements and the heartbeat.  Four threads interleave; the       *)
(* process may be killed between any two of their steps, and systemd       *)
(* starts it again (deploy/pi-keybridge.service).                          *)
(*                                                                         *)
(* Producers and Firebase are the environment: a command is written once,  *)
(* in any order, or never.  The listener and the heartbeat share the       *)
(* buffer without a lock, step by step as SharedBuffer has it.             *)
(***************************************************************************)
EXTENDS SharedBuffer, AckPublisher

CONSTANTS
    RecoveryOn,       \* missing_sequence_recovery_s > 0
    Delays,           \* numbers of the commands that are a delay
    MaxCrashes,       \* bound on the times the process is killed
    MaxReconnects,    \* bound on the times the event stream is reopened
    MaxSerialFaults,  \* bound on sends that fail and are tried again
    MaxGiveUps,       \* bound on sends that fail and are given up
    MaxCloudFaults    \* bound on failing writes to Firebase or to the disk

ASSUME RecoveryAssumption == RecoveryOn \in BOOLEAN
ASSUME DelaysAssumption == Delays \subseteq Seqs

VARIABLES
    published,   \* numbers producers have written
    connected,   \* the event stream has sent its first snapshot
    inflight,    \* events on the stream that are not handled yet
    w_pc, w_cmd,        \* worker: place, the command in its hands or 0
    queue,       \* the dispatch queue
    saved,       \* disk: last_applied_seq of the state file
    typed,       \* history: numbers whose lines all reached the Teensy
    half,        \* history: a number typed in part last, or 0
    skipped,     \* history: numbers the gap recovery logged as skipped
    dropped,     \* history: numbers a send gave up on
    crashes, reconnects, serial_faults, give_ups, cloud_faults   \* budgets used

streamVars == <<published, connected, inflight>>
workerVars == <<w_pc, w_cmd, saved>>
history == <<typed, half, skipped, dropped>>
faults == <<crashes, reconnects, serial_faults, give_ups, cloud_faults>>
vars == <<sharedVars, cloudVars, ackVars, streamVars, workerVars, queue, history, faults>>

Init ==
    /\ NewSharedBuffer(1)
    /\ queued = {} /\ cloud_applied = 0 /\ cloud_cleared = 0
    /\ NewAckPublisher(0, 0)
    /\ published = {}
    /\ connected = FALSE /\ inflight = {}
    /\ w_pc = "get" /\ w_cmd = 0
    /\ queue = <<>>
    /\ saved = 0
    /\ typed = <<>> /\ half = 0 /\ skipped = {} /\ dropped = {}
    /\ crashes = 0 /\ reconnects = 0 /\ serial_faults = 0
    /\ give_ups = 0 /\ cloud_faults = 0

CloudFault ==
    /\ cloud_faults < MaxCloudFaults
    /\ cloud_faults' = cloud_faults + 1
    /\ UNCHANGED <<crashes, reconnects, serial_faults, give_ups>>

-----------------------------------------------------------------------------
(* The environment *)

\* A producer writes a command; an open stream sends an event for it.
Publish(s) ==
    /\ s \notin published
    /\ published' = published \union {s}
    /\ queued' = queued \union {s}
    /\ inflight' = IF connected THEN inflight \union {s} ELSE inflight
    /\ UNCHANGED <<sharedVars, cloud_applied, cloud_cleared, ackVars, connected,
                   workerVars, queue, history, faults>>

\* The stream drops; the client library opens it again and starts over.
StreamDrops ==
    /\ connected
    /\ reconnects < MaxReconnects
    /\ reconnects' = reconnects + 1
    /\ connected' = FALSE
    /\ inflight' = {}
    /\ UNCHANGED <<sharedVars, cloudVars, ackVars, published, workerVars, queue,
                   history, crashes, serial_faults, give_ups, cloud_faults>>

-----------------------------------------------------------------------------
(* The Firebase listener: _handle_event and _handle_commands *)

\* The first event of a stream holds every command under commands/; it calls
\* nobody when there is none.
HandleSnapshot ==
    /\ ~connected
    /\ connected' = TRUE
    /\ \/ queued # {} /\ CallPush(queued)
       \/ queued = {} /\ At(L, "idle") /\ UNCHANGED sharedVars
    /\ UNCHANGED <<cloudVars, ackVars, published, inflight, workerVars, queue,
                   history, faults>>

HandleEvent(s) ==
    /\ s \in inflight
    /\ inflight' = inflight \ {s}
    /\ CallPush({s})
    /\ UNCHANGED <<cloudVars, ackVars, published, connected, workerVars, queue,
                   history, faults>>

\* A step inside push or recover_stale_gap.
Within(step) ==
    /\ step
    /\ UNCHANGED <<cloudVars, ackVars, streamVars, workerVars, queue, history, faults>>

\* Mutant of Put: the list is put from its end.
PutLast(t) ==
    /\ At(t, "put")
    /\ IF ready[t] = <<>>
       THEN /\ Goto(t, "status")
            /\ UNCHANGED <<ready, queue>>
       ELSE /\ queue' = Append(queue, Last(ready[t]))
            /\ ready' = [ready EXCEPT ![t] = Front(@)]
            /\ UNCHANGED pc
    /\ UNCHANGED <<buffer, batch, stale, lowest, cloudVars, ackVars, streamVars,
                   workerVars, history, faults>>

\* Mutant of Put: the heartbeat forgets what it was returned.
PutOfListener(t) ==
    /\ At(t, "put")
    /\ IF ready[t] = <<>>
       THEN /\ Goto(t, "status")
            /\ UNCHANGED <<ready, queue>>
       ELSE /\ queue' = IF t = L THEN Append(queue, Head(ready[t])) ELSE queue
            /\ ready' = [ready EXCEPT ![t] = Tail(@)]
            /\ UNCHANGED pc
    /\ UNCHANGED <<buffer, batch, stale, lowest, cloudVars, ackVars, streamVars,
                   workerVars, history, faults>>

\* A thread puts the commands it was returned one by one, then reports.
Put(t) ==
    /\ At(t, "put")
    /\ IF ready[t] = <<>>
       THEN /\ Goto(t, "status")
            /\ UNCHANGED <<ready, queue>>
       ELSE /\ queue' = Append(queue, Head(ready[t]))
            /\ ready' = [ready EXCEPT ![t] = Tail(@)]
            /\ UNCHANGED pc
    /\ UNCHANGED <<buffer, batch, stale, lowest, cloudVars, ackVars, streamVars,
                   workerVars, history, faults>>

\* _publish_bridge_status, called last in every round of three threads.
\* What it writes is left out; the write may raise, nothing catches the
\* exception, and the thread ends while the others go on.
Status(t) ==
    /\ At(t, "status")
    /\ \/ Goto(t, "idle") /\ UNCHANGED faults
       \/ Goto(t, "dead") /\ CloudFault
    /\ UNCHANGED <<buffer, batch, stale, lowest, ready, cloudVars, ackVars,
                   streamVars, workerVars, queue, history>>

-----------------------------------------------------------------------------
(* The heartbeat: _heartbeat_loop *)

\* With recovery off recover_stale_gap returns at once.
Beat ==
    /\ ~RecoveryOn
    /\ At(H, "idle")
    /\ Goto(H, "status")
    /\ UNCHANGED <<buffer, batch, stale, lowest, ready, cloudVars, ackVars,
                   streamVars, workerVars, queue, history, faults>>

\* The gap that is skipped is logged.
Skip ==
    /\ RecoverAssign
    /\ skipped' = skipped \union next_seq..(lowest - 1)
    /\ UNCHANGED <<cloudVars, ackVars, streamVars, workerVars, queue,
                   typed, half, dropped, faults>>

RecoverGap ==
    /\ RecoveryOn
    /\ \/ Within(RecoverNoGap \/ RecoverLook \/ RecoverTooYoung \/ RecoverMin)
       \/ Skip

-----------------------------------------------------------------------------
(* The worker: _worker_loop, _dispatch_command, SerialTransport.send *)

Get ==
    /\ w_pc = "get"
    /\ queue # <<>>
    /\ w_cmd' = Head(queue)
    /\ queue' = Tail(queue)
    /\ w_pc' = "send"
    /\ UNCHANGED <<sharedVars, cloudVars, ackVars, streamVars, saved, history, faults>>

\* Every line is written, or the delay has passed.
AllLinesOut ==
    /\ typed' = Append(typed, w_cmd)
    /\ half' = 0

Send ==
    /\ w_pc = "send"
    /\ AllLinesOut
    /\ w_pc' = "save"
    /\ UNCHANGED <<sharedVars, cloudVars, ackVars, streamVars, w_cmd, saved, queue,
                   skipped, dropped, faults>>

\* send raises: none or some of the lines are out, or all of them are and
\* flush, or the last write after its bytes had gone, is what failed.
SendRaises ==
    /\ w_pc = "send"
    /\ w_cmd \notin Delays
    /\ \/ half' \in {half, w_cmd} /\ UNCHANGED typed
       \/ AllLinesOut
    /\ UNCHANGED <<sharedVars, cloudVars, ackVars, streamVars, saved, queue,
                   skipped, crashes, reconnects, cloud_faults>>

\* Mutant of SendFails: the next command is fetched instead of a retry.
SendFailsOnce ==
    /\ SendRaises
    /\ serial_faults < MaxSerialFaults
    /\ serial_faults' = serial_faults + 1
    /\ w_pc' = "get" /\ w_cmd' = 0
    /\ UNCHANGED <<dropped, give_ups>>

\* SerialException: all of the lines are sent again.
SendFails ==
    /\ SendRaises
    /\ serial_faults < MaxSerialFaults
    /\ serial_faults' = serial_faults + 1
    /\ UNCHANGED <<w_pc, w_cmd, dropped, give_ups>>

\* Any other exception: the command is logged and forgotten.
SendGivesUp ==
    /\ SendRaises
    /\ give_ups < MaxGiveUps
    /\ give_ups' = give_ups + 1
    /\ dropped' = dropped \union {w_cmd}
    /\ w_pc' = "get" /\ w_cmd' = 0
    /\ UNCHANGED serial_faults

\* Mutant of SavedSeq: the number before it.
SeqBefore == w_cmd - 1

\* Mutant of SavedSeq: everything the buffer has released counts as applied.
SeqReleased == next_seq - 1

SavedSeq == w_cmd

\* LocalStateStore.save replaces the file in one step, or raises.
Save ==
    /\ w_pc = "save"
    /\ \/ saved' = SavedSeq /\ w_pc' = "mark" /\ UNCHANGED faults
       \/ CloudFault /\ w_pc' = "dead" /\ UNCHANGED saved
    /\ UNCHANGED <<sharedVars, cloudVars, ackVars, streamVars, w_cmd, queue, history>>

MarkApplied ==
    /\ w_pc = "mark"
    /\ Mark(w_cmd)
    /\ w_pc' = "status" /\ w_cmd' = 0
    /\ UNCHANGED <<sharedVars, cloudVars, streamVars, saved, queue, history, faults>>

WorkerStatus ==
    /\ w_pc = "status"
    /\ \/ w_pc' = "get" /\ UNCHANGED faults
       \/ w_pc' = "dead" /\ CloudFault
    /\ UNCHANGED <<sharedVars, cloudVars, ackVars, streamVars, w_cmd, saved, queue, history>>

-----------------------------------------------------------------------------
(* The acknowledgement thread *)

Ack ==
    /\ \/ (Take \/ WriteState \/ Cleanup) /\ UNCHANGED faults
       \/ WriteFails /\ CloudFault
    /\ UNCHANGED <<sharedVars, streamVars, workerVars, queue, history>>

-----------------------------------------------------------------------------
\* Mutant of StoredSeq: the state file does not survive the kill.
StoredNothing == 0

\* LocalStateStore.load in start().
StoredSeq == saved

\* The process dies and is started again: start() builds everything anew from
\* the state file and from the cloud.
Crash ==
    /\ crashes < MaxCrashes
    /\ crashes' = crashes + 1
    /\ saved' = StoredSeq
    /\ next_seq' = saved' + 1 /\ pending' = {} /\ timer' = FALSE
    /\ pc' = [t \in Threads |-> "idle"]
    /\ batch' = {} /\ stale' = FALSE /\ lowest' = 0
    /\ ready' = [t \in Threads |-> <<>>]
    /\ RestartAckPublisher
    /\ connected' = FALSE /\ inflight' = {}
    /\ w_pc' = "get" /\ w_cmd' = 0
    /\ queue' = <<>>
    /\ UNCHANGED <<cloudVars, published, history,
                   reconnects, serial_faults, give_ups, cloud_faults>>

Listener ==
    \/ HandleSnapshot
    \/ \E s \in Seqs : HandleEvent(s)
    \/ Within(Insert \/ Drain(L))
    \/ Put(L)
    \/ Status(L)

Heartbeat == Beat \/ RecoverGap \/ Within(Drain(H)) \/ Put(H) \/ Status(H)

Worker == Get \/ Send \/ SendFails \/ SendGivesUp \/ Save \/ MarkApplied \/ WorkerStatus

Environment == StreamDrops \/ \E s \in Seqs : Publish(s)

Next == Listener \/ Heartbeat \/ Worker \/ Ack \/ Crash \/ Environment

Spec == Init /\ [][Next]_vars

\* Each thread runs for as long as it lives; killing the process, dropping
\* the stream and publishing are nobody's duty.
FairSpec ==
    /\ Spec
    /\ WF_vars(Listener) /\ WF_vars(Heartbeat) /\ WF_vars(Worker) /\ WF_vars(Ack)

-----------------------------------------------------------------------------
\* The number the worker is about to send.
InHand == IF w_pc = "send" THEN {w_cmd} ELSE {}

\* What the buffer has released and the worker has not finished sending.
Released == ToSet(ready[L]) \union ToSet(ready[H]) \union ToSet(queue) \union InHand

\* Numbers the process holds between the stream and the Teensy.
InMemory == batch \union pending \union Released

Handled == ToSet(typed) \union skipped \union dropped

TypeOK ==
    /\ SharedTypeOK
    /\ {queued, published, inflight, skipped, dropped} \subseteq SUBSET Seqs
    /\ {cloud_applied, cloud_cleared, last_cleared, ack_pending, ack_seq,
        saved, half, w_cmd} \subseteq 0..MaxSeq
    /\ connected \in BOOLEAN
    /\ ack_pc \in {"wait", "state", "cleanup"}
    /\ w_pc \in {"get", "send", "save", "mark", "status", "dead"}
    /\ {queue, typed} \subseteq Seq(Seqs)

\* The Teensy receives the commands in order of seq, across reconnections,
\* failing sends and restarts: a later one never comes before an earlier one.
TypedInOrder ==
    \A i, j \in DOMAIN typed : i < j => typed[i] <= typed[j]

\* A command is typed twice only because the process was killed before its
\* number was saved, or because sending it failed when all of it was out;
\* each kill and each failure costs at most one repetition.
RepeatsHaveACause ==
    Len(typed) - Cardinality(ToSet(typed)) <= crashes + serial_faults

\* The bridge keeps the promise of OrderedTyping when no gap is ever skipped:
\* the command typed but not saved is the one that may be repeated.
Promise == INSTANCE OrderedTyping WITH
    out <- typed,
    again <- typed # <<>> /\ Last(typed) # saved /\ w_pc \notin {"save", "dead"}

TypesAsPromised == Promise!Spec

\* However the two threads race on the buffer, a number is typed at most once
\* for each time the stream was opened, and once more for each send that
\* failed: between the stream and the Teensy nothing is doubled.
TypingsHaveACause ==
    \A s \in Seqs :
        CountIn(typed, s) <= 1 + crashes + reconnects + serial_faults

\* What the bridge says is applied has been: the saved number is never ahead
\* of the typing, and the number in the cloud never ahead of the saved one.
AppliedMeansHandled ==
    /\ cloud_applied <= saved
    /\ 1..saved \subseteq Handled

\* A command that was published is handled, in memory, or still to be had
\* from Firebase: no hand-over between threads and no restart forgets it.
NothingForgotten ==
    published \subseteq Handled \union InMemory
        \union (queued \intersect (IF connected THEN inflight ELSE Seqs))

\* "Once your producer sees last_applied_seq advance, it can safely prune
\* older commands", as the bridge's own cleanup does: a command that is gone
\* from the cloud has been handled or is still in the bridge's hands.
PruningIsSafe ==
    published \ queued \subseteq Handled \union InMemory

\* The state file and the acknowledged number never go back: a restart never
\* starts earlier than one before it would have.
ProgressNeverGoesBack ==
    [][saved' >= saved /\ cloud_applied' >= cloud_applied]_<<saved, cloud_applied>>

\* After a command went out in part, the next thing the Teensy gets is all of
\* that command, also when the process was killed in between.
HalfTypedComesFirst ==
    [][typed' # typed /\ half \notin dropped \union {0} => Last(typed') = half]_vars

\* Nothing ends a thread: no write to Firebase or to the disk fails.
NoWriteFails == [](cloud_faults = 0)

\* What the buffer releases, to either thread, is typed or given up.
ReleasedIsHandled ==
    NoWriteFails =>
        [](\A s \in Seqs : s \in Released => <>(s \in ToSet(typed) \union dropped))

\* A number that is saved is acknowledged, or a higher one is, also when it is
\* marked while the acknowledgement of another one is under way.
SavedIsAcknowledged ==
    NoWriteFails =>
        [](\A s \in Seqs : w_pc = "mark" /\ w_cmd = s => <>(cloud_applied >= s))

\* A command whose predecessors are all published is typed, whatever fails
\* and restarts on the way.
PrefixIsTyped ==
    NoWriteFails =>
        [](\A s \in Seqs : 1..s \subseteq published => <>(s \in Handled))
=============================================================================
