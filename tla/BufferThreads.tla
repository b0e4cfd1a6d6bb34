---------------------------- MODULE BufferThreads ----------------------------
(***************************************************************************)
(* The two threads of SharedBuffer with the dispatch queue they put into:  *)
(* _handle_commands of the listener and _heartbeat_loop.  Events come in   *)
(* any order, each number any number of times.                             *)
(***************************************************************************)
EXTENDS SharedBuffer

CONSTANT MaxDeliveries   \* bound on the events that carry one number

ASSUME MaxDeliveriesAssumption == MaxDeliveries \in Nat

VARIABLES
    recovery_on, \* missing_sequence_recovery_s > 0: a setting, never changed
    queue,       \* the dispatch queue, everything ever put
    deliveries,  \* how many events carried each number
    taken        \* how often each number was put into the dictionary

vars == <<recovery_on, sharedVars, queue, deliveries, taken>>

Init ==
    /\ recovery_on \in BOOLEAN
    /\ NewSharedBuffer(1)
    /\ queue = <<>>
    /\ deliveries = [s \in Seqs |-> 0]
    /\ taken = [s \in Seqs |-> 0]

-----------------------------------------------------------------------------
\* An event reaches the listener.
Deliver(S) ==
    /\ \A s \in S : deliveries[s] < MaxDeliveries
    /\ CallPush(S)
    /\ deliveries' = [s \in Seqs |-> deliveries[s] + (IF s \in S THEN 1 ELSE 0)]
    /\ UNCHANGED <<queue, taken>>

Take ==
    /\ Insert
    /\ LET s == Min(batch)
       IN  taken' = [taken EXCEPT ![s] = @ + (IF IsTaken(s) THEN 1 ELSE 0)]
    /\ UNCHANGED <<queue, deliveries>>

\* Mutant of Put: the list is put from its end.
PutLast(t) ==
    /\ At(t, "put")
    /\ IF ready[t] = <<>>
       THEN /\ Goto(t, "idle")
            /\ UNCHANGED <<ready, queue>>
       ELSE /\ queue' = Append(queue, Last(ready[t]))
            /\ ready' = [ready EXCEPT ![t] = Front(@)]
            /\ UNCHANGED pc
    /\ UNCHANGED <<buffer, batch, stale, lowest, deliveries, taken>>

\* The caller's loop: one queue.put, or the end of the list.
Put(t) ==
    /\ At(t, "put")
    /\ IF ready[t] = <<>>
       THEN /\ Goto(t, "idle")
            /\ UNCHANGED <<ready, queue>>
       ELSE /\ queue' = Append(queue, Head(ready[t]))
            /\ ready' = [ready EXCEPT ![t] = Tail(@)]
            /\ UNCHANGED pc
    /\ UNCHANGED <<buffer, batch, stale, lowest, deliveries, taken>>

-----------------------------------------------------------------------------
Within(step) == step /\ UNCHANGED <<queue, deliveries, taken>>

Listener == Take \/ Within(Drain(L)) \/ Put(L)

Heartbeat == recovery_on /\ (Within(Recover \/ Drain(H)) \/ Put(H))

Next ==
    /\ \/ \E S \in (SUBSET Seqs) \ {{}} : Deliver(S)
       \/ Listener
       \/ Heartbeat
    /\ UNCHANGED recovery_on

Spec == Init /\ [][Next]_vars

-----------------------------------------------------------------------------
HandedOut(s) == CountIn(queue, s) + CountIn(ready[L], s) + CountIn(ready[H], s)

TypeOK ==
    /\ recovery_on \in BOOLEAN
    /\ SharedTypeOK
    /\ queue \in Seq(Seqs)
    /\ deliveries \in [Seqs -> 0..MaxDeliveries]
    /\ taken \in [Seqs -> 0..MaxDeliveries]

\* Whatever the switches, no command is lost or doubled between the two
\* drain loops and the two loops that put: each insertion into the dictionary
\* is still there or was handed out, exactly once.
TakenIsConserved ==
    \A s \in Seqs :
        taken[s] = HandedOut(s) + (IF s \in pending THEN 1 ELSE 0)

\* "The Pi keeps commands ordered by seq, even if events arrive out of
\* order": the dispatch queue receives them in that order.
QueueInOrder ==
    \A i, j \in DOMAIN queue : i < j => queue[i] < queue[j]

\* The two threads are what disturbs the order: a listener that is alone with
\* the buffer fills the queue in order from any events.
AloneInOrder == ~recovery_on => QueueInOrder

-----------------------------------------------------------------------------
(* The state that the listener's push, once begun, will end in: the buffer
   that CommandOrdering takes a call of push to leave behind in one step. *)
Command == "command"
Carry(S) == [s \in S |-> Command]

\* All that the drain loop will find held.
Held == pending \union {s \in batch : s >= next_seq}

DoneNext == Min({m \in Upcoming..(MaxSeq + 1) : m \notin Held})
DoneHeld == {s \in Held : s > DoneNext}
DoneQueue == queue \o ready[L] \o [i \in 1..(DoneNext - Upcoming) |-> Upcoming + i - 1]
DoneTimer == IF pc[L] \in {"idle", "put"} THEN timer ELSE DoneHeld # {}
DoneTaken == {s \in Seqs : taken[s] > 0} \union Held

Ordering == INSTANCE CommandOrdering WITH
    Payload <- {Command}, MaxGapAge <- 0, Start <- 1,
    next_seq <- DoneNext,
    pending <- Carry(DoneHeld),
    gap_age <- IF DoneTimer THEN 0 ELSE -1,
    emitted <- [i \in DOMAIN DoneQueue |-> <<DoneQueue[i], Command>>],
    accepted <- Carry(DoneTaken),
    skipped <- {}

\* With recovery off the listener's push, drain and puts are one step to all
\* who look at the buffer and the queue: each event acts as the call of push
\* that CommandOrdering makes of it, and the steps in between do not show.
AloneIsAtomic ==
    /\ ~recovery_on => Ordering!Init
    /\ [][~recovery_on => [Ordering!Next]_(Ordering!vars)]_vars
=============================================================================
