------------------------ MODULE PendingCommandBuffer ------------------------
(***************************************************************************)
(* The bridge's reordering buffer, PendingCommandBuffer of                 *)
(* src/pi_keystream_bridge/ordering.py: it holds the commands that arrived *)
(* ahead of a missing sequence number and releases the contiguous run that *)
(* starts at next_seq.  The heartbeat may give up on a missing number      *)
(* after the gap timer has run for max_gap_age_s.                          *)
(*                                                                         *)
(* A command is its sequence number and a payload: the payload tells one   *)
(* version of a command from another version under the same number.        *)
(* monotonic() - _gap_started_at_monotonic_s is kept as an age in ticks of *)
(* the clock, and stops counting at MaxGapAge, where only "old enough" is  *)
(* left to tell.                                                           *)
(***************************************************************************)
EXTENDS Integers, Sequences, FiniteSetsExt, Functions

CONSTANTS
    MaxSeq,      \* bound on the sequence numbers of the instance
    Payload,     \* what a command can carry
    MaxGapAge    \* missing_sequence_recovery_s in ticks; 0 turns recovery off

ASSUME MaxSeqAssumption == MaxSeq \in Nat
ASSUME MaxGapAgeAssumption == MaxGapAge \in Nat

VARIABLES
    next_seq,    \* the number the buffer waits for
    pending,     \* seq -> payload of the commands it holds
    gap_age      \* age of the gap timer, NoGap when it is not running

bufferVars == <<next_seq, pending, gap_age>>

Seqs == 1..MaxSeq
NoGap == -1

\* Commands as they arrive: a partial function from numbers to payloads.
Batches == UNION {[S -> Payload] : S \in SUBSET Seqs}

NewBuffer(start) ==
    /\ next_seq = start
    /\ pending = <<>>
    /\ gap_age = NoGap

-----------------------------------------------------------------------------
\* The first number from n on that is not in S: where a drain stops.
FirstMissing(n, S) ==
    CHOOSE m \in n..(MaxSeq + 1) : m \notin S /\ n..(m - 1) \subseteq S

\* The commands n..m-1 of held, in the order the drain loop pops them.
Run(n, m, held) == [i \in 1..(m - n) |-> <<n + i - 1, held[n + i - 1]>>]

\* Mutant of Accept: numbers already passed are taken in again.
AcceptLate(batch) ==
    [s \in DOMAIN pending \union DOMAIN batch |->
        IF s \in DOMAIN pending THEN pending[s] ELSE batch[s]]

\* Mutant of Accept: a later version replaces the one that is held.
AcceptLatest(batch) ==
    [s \in DOMAIN pending \union {t \in DOMAIN batch : t >= next_seq} |->
        IF s \in DOMAIN batch THEN batch[s] ELSE pending[s]]

\* What the buffer holds once a batch is in: numbers already passed are
\* dropped, and a number that is held keeps its first payload (setdefault).
Accept(batch) ==
    [s \in DOMAIN pending \union {t \in DOMAIN batch : t >= next_seq} |->
        IF s \in DOMAIN pending THEN pending[s] ELSE batch[s]]

\* Mutant of RefreshedAge: the timer survives the gap it timed.
AgeKept(n, S) ==
    IF S # {} /\ n \notin S /\ gap_age = NoGap THEN 0 ELSE gap_age

\* Mutant of RefreshedAge: an open gap ages with every call.
AgeRunsOn(n, S) ==
    IF S # {} /\ n \notin S THEN gap_age + 1 ELSE NoGap

\* Mutant of RefreshedAge: every call restarts the timer of an open gap.
AgeRestarted(n, S) ==
    IF S # {} /\ n \notin S THEN 0 ELSE NoGap

\* _refresh_gap_state: the timer is started when a gap is open and it is not
\* running, left alone when it runs, and cleared when no gap is open.
RefreshedAge(n, S) ==
    IF S # {} /\ n \notin S
    THEN IF gap_age = NoGap THEN 0 ELSE gap_age
    ELSE NoGap

\* _drain_ready from n, then _refresh_gap_state.
DrainFrom(n, held) ==
    LET m == FirstMissing(n, DOMAIN held)
        left == DOMAIN held \ n..(m - 1)
    IN  /\ next_seq' = m
        /\ pending' = Restrict(held, left)
        /\ gap_age' = RefreshedAge(m, left)

-----------------------------------------------------------------------------
\* push(commands) and the list it returns.
Push(batch) == DrainFrom(next_seq, Accept(batch))

PushReady(batch) ==
    LET held == Accept(batch)
    IN  Run(next_seq, FirstMissing(next_seq, DOMAIN held), held)

\* recover_stale_gap has waited long enough for the number that is missing.
GapIsStale ==
    /\ MaxGapAge > 0
    /\ DOMAIN pending # {}
    /\ next_seq \notin DOMAIN pending
    /\ gap_age >= MaxGapAge

\* Mutant of SkipGap: the highest number held is taken for the lowest.
SkipToHighest ==
    /\ GapIsStale
    /\ DrainFrom(Max(DOMAIN pending), pending)

\* recover_stale_gap: the gap is skipped up to the lowest number held ...
SkipGap ==
    /\ GapIsStale
    /\ DrainFrom(Min(DOMAIN pending), pending)

SkipReady ==
    LET n == Min(DOMAIN pending)
    IN  Run(n, FirstMissing(n, DOMAIN pending), pending)

\* ... or left alone: recovery is off, there is no gap, or it is too young.
LeaveGap ==
    /\ ~GapIsStale
    /\ gap_age' = IF MaxGapAge = 0 THEN gap_age
                  ELSE RefreshedAge(next_seq, DOMAIN pending)
    /\ UNCHANGED <<next_seq, pending>>

\* The monotonic clock advances while the gap timer runs.
Tick ==
    /\ gap_age \in 0..(MaxGapAge - 1)
    /\ gap_age' = gap_age + 1
    /\ UNCHANGED <<next_seq, pending>>
=============================================================================
