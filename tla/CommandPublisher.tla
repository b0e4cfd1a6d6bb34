-------------------------- MODULE CommandPublisher --------------------------
(***************************************************************************)
(* How producers append commands to the queue in Firebase:                 *)
(* FirebaseCommandPublisher of src/xactimate_producer/publisher.py, called *)
(* by XactimateProducerService.publish_job, by the direct output and by    *)
(* the estimate export, and the push-test command of the bridge's own CLI, *)
(* which writes to the same queue without a reservation.                   *)
(*                                                                         *)
(* Every producer handles one request.  Each round trip to Firebase is a   *)
(* step; a producer may fail between any two.  The bridge is reduced to    *)
(* what producers see of it: it applies commands and deletes what it has   *)
(* applied.                                                                *)
(***************************************************************************)
EXTENDS Integers, FiniteSets, Functions

CONSTANTS
    Producers,  \* requests under way
    Jobs,       \* those that publish an estimate with publish_job
    Testers,    \* those that are a push-test
    Options,    \* per push-test: values of --start-seq, 0 if not given
    Stateless,  \* push-tests whose configuration has no state path
    Size        \* how many commands each one compiles to

ASSUME ProducersAssumption ==
    /\ Jobs \subseteq Producers
    /\ Testers \subseteq Producers
    /\ Jobs \intersect Testers = {}
    /\ Options \in [Testers -> SUBSET Nat]
    /\ Stateless \subseteq Testers
    /\ Size \in [Producers -> Nat \ {0}]

VARIABLES
    commands,        \* cloud: seq -> the producer whose command is there
    last_reserved,   \* cloud: producer/last_reserved_seq
    last_applied,    \* cloud: last_applied_seq
    last_published,  \* cloud: last_published_seq
    pc,
    max_published,   \* per producer: what it read from the commands, until used
    floor_seq,       \* per producer: floor_seq of its snapshot, until used
    start_seq,       \* per producer: where its commands go
    reserved,        \* history: the ranges reserved, <<producer, first, last>>
    written,         \* history: <<seq, producer>> of every command written
    before           \* history: producers that had finished when one began

cloud == <<commands, last_reserved, last_applied, last_published>>
locals == <<max_published, floor_seq, start_seq>>
vars == <<cloud, pc, locals, reserved, written, before>>

MaxOf(S) == CHOOSE x \in S \union {0} : \A y \in S : y <= x

Init ==
    /\ commands = [s \in {} |-> 0]
    /\ last_reserved = 0 /\ last_applied = 0 /\ last_published = 0
    /\ pc = [p \in Producers |-> "begin"]
    /\ max_published = [p \in Producers |-> 0]
    /\ floor_seq = [p \in Producers |-> 0]
    /\ start_seq = [p \in Producers |-> 0]
    /\ reserved = {}
    /\ written = {}
    /\ before = [p \in Producers |-> {}]

Move(p, from, to) == pc[p] = from /\ pc' = [pc EXCEPT ![p] = to]

\* The range that starts at first and holds the commands of p.
RangeOf(p, first) == first..(first + Size[p] - 1)

-----------------------------------------------------------------------------
(* FirebaseCommandPublisher *)

\* Firebase answers with an array instead of an object when more than half of
\* the indices from 0 on are there.
IsArray(S) == 2 * Cardinality(S) > MaxOf(S) + 1

\* _max_command_seq of the bridge's CLI sees nothing in an array.
MaxSeen(p) ==
    IF p \in Testers /\ IsArray(DOMAIN commands) THEN 0 ELSE MaxOf(DOMAIN commands)

\* A request comes in, and snapshot() reads the commands.
Begin(p) ==
    /\ Move(p, "begin", IF p \in Jobs THEN "state1" ELSE "state2")
    /\ max_published' = [max_published EXCEPT ![p] = MaxSeen(p)]
    /\ before' = [before EXCEPT ![p] = {q \in Producers : pc[q] = "done"}]
    /\ UNCHANGED <<cloud, floor_seq, start_seq, reserved, written>>

\* publish_commands, called by publish_job, takes a snapshot of its own.
ReadCommands(p) ==
    /\ Move(p, "commands", "state2")
    /\ max_published' = [max_published EXCEPT ![p] = MaxSeen(p)]
    /\ UNCHANGED <<cloud, floor_seq, start_seq, reserved, written, before>>

\* snapshot() reads the state.
ReadState(p) ==
    /\ p \notin Testers
    /\ Move(p, "state1", "reserve1") \/ Move(p, "state2", "reserve2")
    /\ floor_seq' = [floor_seq EXCEPT ![p] =
                        MaxOf({last_applied, max_published[p], last_reserved})]
    /\ max_published' = [max_published EXCEPT ![p] = 0]
    /\ UNCHANGED <<cloud, start_seq, reserved, written, before>>

\* Mutant of FirstFree: the highest number that is taken, not the one after it.
LastTaken(p) == MaxOf({last_reserved, floor_seq[p]})

\* Mutant of FirstFree: what the transaction reads is not looked at.
FirstAfterFloor(p) == floor_seq[p] + 1

\* Mutant of FirstFree: an empty queue starts over at 1.
FirstInQueue(p) == max_published[p] + 1

\* The transaction of reserve_sequence_range.
FirstFree(p) == MaxOf({last_reserved + 1, floor_seq[p] + 1})

\* publish_job reserves a range, and publish_commands, which it calls next,
\* reserves another one and writes there.
Reserve(p) ==
    /\ Move(p, "reserve1", "commands") \/ Move(p, "reserve2", "write")
    /\ start_seq' = [start_seq EXCEPT ![p] = FirstFree(p)]
    /\ floor_seq' = [floor_seq EXCEPT ![p] = 0]
    /\ last_reserved' = FirstFree(p) + Size[p] - 1
    /\ reserved' = reserved \union {<<p, FirstFree(p), FirstFree(p) + Size[p] - 1>>}
    /\ UNCHANGED <<commands, last_applied, last_published, max_published,
                   written, before>>

\* commands_ref.update: the commands of p, over what is there.
WriteCommands(p) ==
    /\ Move(p, "write", IF p \in Testers THEN "done" ELSE "note")
    /\ LET range == RangeOf(p, start_seq[p])
       IN  /\ commands' = [s \in DOMAIN commands \union range |->
                              IF s \in range THEN p ELSE commands[s]]
           /\ written' = written \union (range \X {p})
    /\ UNCHANGED <<last_reserved, last_applied, last_published, locals,
                   reserved, before>>

\* state_ref.update after it.
WriteState(p) ==
    /\ Move(p, "note", "done")
    /\ last_published' = start_seq[p] + Size[p] - 1
    /\ UNCHANGED <<commands, last_reserved, last_applied, locals, reserved,
                   written, before>>

\* A call to Firebase fails or the process ends: nothing is taken back.
Fail(p) ==
    /\ pc[p] \notin {"begin", "done", "failed"}
    /\ pc' = [pc EXCEPT ![p] = "failed"]
    /\ UNCHANGED <<cloud, locals, reserved, written, before>>

-----------------------------------------------------------------------------
(* push-test: _next_start_seq of src/pi_keystream_bridge/cli.py *)

\* The number after all that a push-test saw.
FirstSafe(p) ==
    MaxOf({max_published[p]} \union
          (IF p \in Stateless THEN {}
           ELSE {last_applied, last_reserved, last_published})) + 1

TesterReadState(p) ==
    /\ p \in Testers
    /\ Move(p, "state2", "write")
    /\ \E n \in Options[p] :
          start_seq' = [start_seq EXCEPT ![p] = IF n > 0 THEN n ELSE FirstSafe(p)]
    /\ max_published' = [max_published EXCEPT ![p] = 0]
    /\ UNCHANGED <<cloud, floor_seq, reserved, written, before>>

-----------------------------------------------------------------------------
\* The bridge has applied some command that is there, after giving up on any
\* that are missing before it, and deletes everything up to it.
BridgeApplies(s) ==
    /\ s \in DOMAIN commands
    /\ s > last_applied
    /\ last_applied' = s
    /\ commands' = Restrict(commands, {t \in DOMAIN commands : t > s})
    /\ UNCHANGED <<last_reserved, last_published, pc, locals, reserved, written,
                   before>>

Produce(p) ==
    \/ Begin(p) \/ ReadCommands(p) \/ ReadState(p) \/ Reserve(p)
    \/ WriteCommands(p) \/ WriteState(p) \/ TesterReadState(p) \/ Fail(p)

Next ==
    \/ \E p \in Producers : Produce(p)
    \/ \E s \in DOMAIN commands : BridgeApplies(s)

Spec == Init /\ [][Next]_vars

-----------------------------------------------------------------------------
PartialFunctions(S, T) == UNION {[D -> T] : D \in SUBSET S}

TypeOK ==
    /\ IsFiniteSet(DOMAIN commands) /\ DOMAIN commands \subseteq Nat \ {0}
    /\ Range(commands) \subseteq Producers
    /\ {last_reserved, last_applied, last_published} \subseteq Nat
    /\ pc \in [Producers -> {"begin", "state1", "reserve1", "commands", "state2",
                             "reserve2", "write", "note", "done", "failed"}]
    /\ {max_published, floor_seq, start_seq} \subseteq [Producers -> Nat]
    /\ \A p \in Producers : pc[p] \in {"write", "note", "done"} => start_seq[p] # 0
    /\ reserved \subseteq Producers \X (Nat \ {0}) \X Nat
    /\ written \subseteq (Nat \ {0}) \X Producers
    /\ before \in [Producers -> SUBSET Producers]

\* Two reservations never share a number, whoever made them and however their
\* snapshots and transactions interleaved.
RangesDisjoint ==
    \A r1, r2 \in reserved :
        r1 # r2 => (r1[2]..r1[3]) \intersect (r2[2]..r2[3]) = {}

\* "Commands must be immutable after they are written": no number is written
\* by two producers that reserve, while the first command is there or after
\* it is gone.  A push-test reserves nothing, and does collide.
CommandsImmutable ==
    \A w1, w2 \in written :
        w1[1] = w2[1] /\ {w1[2], w2[2]} \intersect Testers = {} => w1[2] = w2[2]

\* Whether q looks for what p wrote before it takes its numbers.  A push-test
\* may be told where to start, or have no state to look at; and of another
\* push-test it sees nothing when Firebase answers with an array.
LooksPast(q, p) ==
    q \in Testers =>
        Options[q] = {0} /\ q \notin Stateless /\ p \notin Testers

\* A request that came in after another one had finished is typed after it:
\* its numbers are higher, also when the queue has run empty in between, and
\* wherever push-tests have written.
JobsAppend ==
    \A p, q \in Producers :
        p \in before[q] /\ LooksPast(q, p) /\ pc[q] \in {"note", "done"} =>
            start_seq[q] >= start_seq[p] + Size[p]

\* "Keep seq contiguous so the Pi can enforce ordering": once every request
\* has finished there is no number missing below the highest one.
SequenceContiguous ==
    (\A p \in Producers : pc[p] = "done") =>
        \A s \in 1..last_published : \E w \in written : w[1] = s
=============================================================================
