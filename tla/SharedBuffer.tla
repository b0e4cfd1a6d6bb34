----------------------------- MODULE SharedBuffer -----------------------------
(***************************************************************************)
(* PendingCommandBuffer as its two threads run it, without a lock: the     *)
(* Firebase listener L is in push, the heartbeat H in recover_stale_gap.   *)
(* The module PendingCommandBuffer takes a call as one step; here a thread *)
(* can be switched out where CPython switches threads, after a call and at *)
(* the back edge of a loop, and the statements between two such points are *)
(* one step.                                                               *)
(*                                                                         *)
(* A command is its number: its payload plays no part.  Of the times only  *)
(* the comparison is kept: when the heartbeat reads the clock, a running   *)
(* gap timer may be old enough or not.                                     *)
(***************************************************************************)
EXTENDS Integers, Sequences, FiniteSetsExt, SequencesExt

CONSTANT MaxSeq   \* bound on the sequence numbers of the instance

ASSUME MaxSeqAssumption == MaxSeq \in Nat

VARIABLES
    next_seq, pending, timer,  \* the buffer; timer: the gap timer is set
    pc,          \* where each thread is
    batch,       \* L: numbers of the event still to insert
    stale,       \* H: the timer was old enough when it read the clock
    lowest,      \* H: min(self._pending) as it read it, else 0
    ready        \* per thread: the list _drain_ready builds and returns

buffer == <<next_seq, pending, timer>>
sharedVars == <<buffer, pc, batch, stale, lowest, ready>>

Seqs == 1..MaxSeq
L == "listener"
H == "heartbeat"
Threads == {L, H}

NewSharedBuffer(start) ==
    /\ next_seq = start /\ pending = {} /\ timer = FALSE
    /\ pc = [t \in Threads |-> "idle"]
    /\ batch = {}
    /\ stale = FALSE
    /\ lowest = 0
    /\ ready = [t \in Threads |-> <<>>]

Goto(t, to) == pc' = [pc EXCEPT ![t] = to]
At(t, here) == pc[t] = here

GapOpen == pending # {} /\ next_seq \notin pending

-----------------------------------------------------------------------------
\* push is called; extract_commands has sorted what the event carries.
CallPush(S) ==
    /\ At(L, "idle")
    /\ batch' = S
    /\ Goto(L, "insert")
    /\ UNCHANGED <<buffer, stale, lowest, ready>>

\* Mutant of IsTaken: the number that is waited for is dropped as late.
IsTakenAhead(s) == s > next_seq /\ s \notin pending

\* One round of push's for loop: the test and the setdefault.
IsTaken(s) == s >= next_seq /\ s \notin pending

Insert ==
    /\ At(L, "insert")
    /\ LET s == Min(batch)
       IN  /\ pending' = IF IsTaken(s) THEN pending \union {s} ELSE pending
           /\ batch' = batch \ {s}
    /\ IF batch' = {} THEN Goto(L, "drain") ELSE UNCHANGED pc
    /\ UNCHANGED <<next_seq, timer, stale, lowest, ready>>

\* Mutant of DrainPop: the command is read and stays in the dictionary.
DrainPeek(t) ==
    /\ At(t, "drain")
    /\ next_seq \in pending
    /\ ready' = [ready EXCEPT ![t] = Append(@, next_seq)]
    /\ Goto(t, "advance")
    /\ UNCHANGED <<buffer, batch, stale, lowest>>

\* _drain_ready: the loop test and the pop; then append and the increment.
DrainPop(t) ==
    /\ At(t, "drain")
    /\ next_seq \in pending
    /\ pending' = pending \ {next_seq}
    /\ ready' = [ready EXCEPT ![t] = Append(@, next_seq)]
    /\ Goto(t, "advance")
    /\ UNCHANGED <<next_seq, timer, batch, stale, lowest>>

DrainAdvance(t) ==
    /\ At(t, "advance")
    /\ next_seq' = next_seq + 1
    /\ Goto(t, "drain")
    /\ UNCHANGED <<pending, timer, batch, stale, lowest, ready>>

DrainEnd(t) ==
    /\ At(t, "drain")
    /\ next_seq \notin pending
    /\ Goto(t, "refresh")
    /\ UNCHANGED <<buffer, batch, stale, lowest, ready>>

\* _refresh_gap_state up to the call of monotonic(), or to the return.  A
\* timer that is cleared is no longer the one the heartbeat found old.
Refresh(t) ==
    /\ At(t, "refresh")
    /\ timer' = (timer /\ GapOpen)
    /\ stale' = (stale /\ GapOpen)
    /\ Goto(t, IF GapOpen /\ ~timer THEN "stamp" ELSE "put")
    /\ UNCHANGED <<next_seq, pending, batch, lowest, ready>>

\* The time is read, and stored whatever has changed since the test.
Stamp(t) ==
    /\ At(t, "stamp")
    /\ timer' = TRUE
    /\ stale' = FALSE
    /\ Goto(t, "put")
    /\ UNCHANGED <<next_seq, pending, batch, lowest, ready>>

-----------------------------------------------------------------------------
\* recover_stale_gap: nothing is held or no gap is open ...
RecoverNoGap ==
    /\ At(H, "idle")
    /\ ~GapOpen
    /\ Goto(H, "refresh")
    /\ UNCHANGED <<buffer, batch, stale, lowest, ready>>

\* ... or a gap: the clock is read, and the call lets the listener in.
RecoverLook ==
    /\ At(H, "idle")
    /\ GapOpen
    /\ stale' \in {FALSE, timer}
    /\ Goto(H, "timed")
    /\ UNCHANGED <<buffer, batch, lowest, ready>>

\* The timer is not set, or too young: None is returned ...
RecoverTooYoung ==
    /\ At(H, "timed")
    /\ ~stale
    /\ timer' = TRUE
    /\ Goto(H, "put")
    /\ UNCHANGED <<next_seq, pending, batch, stale, lowest, ready>>

\* ... or old enough.  min(self._pending) raises ValueError when the listener
\* has emptied the dictionary, and nothing in _heartbeat_loop catches it.
RecoverMin ==
    /\ At(H, "timed")
    /\ stale
    /\ stale' = FALSE
    /\ IF pending = {}
       THEN /\ Goto(H, "dead")
            /\ UNCHANGED lowest
       ELSE /\ lowest' = Min(pending)
            /\ Goto(H, "assign")
    /\ UNCHANGED <<buffer, batch, ready>>

\* Mutant of RecoverAssign: the number before the one it skips to.
RecoverAssignBelow ==
    /\ At(H, "assign")
    /\ next_seq' = lowest - 2
    /\ lowest' = 0
    /\ Goto(H, "drain")
    /\ UNCHANGED <<pending, timer, batch, stale, ready>>

\* next_seq is set to what min returned, whatever has changed since then.
RecoverAssign ==
    /\ At(H, "assign")
    /\ next_seq' = lowest
    /\ lowest' = 0
    /\ Goto(H, "drain")
    /\ UNCHANGED <<pending, timer, batch, stale, ready>>

-----------------------------------------------------------------------------
Drain(t) ==
    DrainPop(t) \/ DrainAdvance(t) \/ DrainEnd(t) \/ Refresh(t) \/ Stamp(t)

Recover ==
    RecoverNoGap \/ RecoverLook \/ RecoverTooYoung \/ RecoverMin \/ RecoverAssign

\* The number the listener's drain loop tests next.
Upcoming == IF At(L, "advance") THEN next_seq + 1 ELSE next_seq

\* How often a number occurs in a list.
CountIn(list, s) == Cardinality({i \in DOMAIN list : list[i] = s})

SharedTypeOK ==
    /\ next_seq \in Nat
    /\ pending \in SUBSET Seqs
    /\ {timer, stale} \subseteq BOOLEAN
    /\ pc \in [Threads -> {"idle", "insert", "drain", "advance", "refresh", "stamp",
                           "put", "timed", "assign", "status", "dead"}]
    /\ batch \in SUBSET Seqs
    /\ lowest \in 0..MaxSeq
    /\ ready \in [Threads -> Seq(Seqs)]
=============================================================================
