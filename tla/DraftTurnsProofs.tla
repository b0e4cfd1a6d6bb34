--------------------------- MODULE DraftTurnsProofs ---------------------------
(***************************************************************************)
(* For any number of requests of either kind, of reviewers' threads and of *)
(* kills, and for plans of any length: the claim's lock and the event loop *)
(* keep turns apart, notes are not repeated, turns start in their order    *)
(* and are not run again, and only the save of a stale copy loses what was *)
(* answered for.                                                           *)
(*                                                                         *)
(* The invariant comes in layers, each proved with the ones before it at   *)
(* hand: who is where (ControlInv), who holds which copy (CopyInv), which  *)
(* ids are used (ItemsInv), how often a note is there (NotesInv), what is  *)
(* kept (KeptInv), what was taken out (GoneInv), and what the claim is     *)
(* shown as (StatusInv).                                                   *)
(***************************************************************************)
EXTENDS DraftTurns, OrderLemmas, SequenceTheorems

-----------------------------------------------------------------------------
(* Who is where *)

\* Where a coroutine goes on without having let go of the event loop.
KeepPlaces == {"save_note", "create", "store_audio", "hear", "unlink", "load",
               "reply", "refresh", "complete"}
TurnPlaces == {"hear", "transcribe", "unlink", "load", "plan", "room",
               "reply", "refresh", "complete"}
RequestPlaces == KeepPlaces \union TurnPlaces \union {"idle", "wait", "end"}
HandlerPlaces == {"idle", "loaded", "refresh", "publishing"}

IsMessage(o) == Kind[o] = "message"
InTurn(o) == pc[o] \in TurnPlaces \/ (pc[o] = "save_note" /\ ~IsMessage(o))
Submitting(o) == pc[o] \in {"create", "store_audio"} \/ (pc[o] = "save_note" /\ IsMessage(o))

PlacesInv ==
    /\ pc \in [Writers -> RequestPlaces \union HandlerPlaces]
    /\ \A o \in Requests : pc[o] \in RequestPlaces
    /\ \A h \in Handlers : pc[h] \in HandlerPlaces
    /\ op_status \in [Requests -> {"none", "queued", "running"} \union Ended]
    /\ requests \in 0..MaxRequests
    /\ waiting \in Seq(Requests)
    /\ {loop, holder} \subseteq Requests \union {Free}

\* The loop is with whoever keeps it, the lock with the turn under way, and
\* the latest request is the only one that is being submitted.
OwnersInv ==
    \A o \in Requests :
        /\ pc[o] \in KeepPlaces => loop = o
        /\ InTurn(o) => holder = o /\ op_status[o] = "running"
        /\ Submitting(o) => o = requests

\* What the place of a request says of its row in the store.
RowsInv ==
    \A o \in Requests :
        /\ o > requests => pc[o] = "idle" /\ op_status[o] = "none"
        /\ pc[o] = "create" \/ (pc[o] = "save_note" /\ IsMessage(o)) => op_status[o] = "none"
        /\ pc[o] = "create" => IsMessage(o)
        /\ pc[o] \in {"store_audio", "hear", "transcribe", "unlink"} => ~IsMessage(o)
        /\ pc[o] = "store_audio" => op_status[o] = "queued"
        /\ pc[o] = "wait" => op_status[o] \in {"queued", "running"}
        /\ op_status[o] = "queued" => pc[o] \in {"wait", "store_audio"}

\* The queue of the lock: who waits, in the order of submission.
QueueInv ==
    /\ \A o \in Requests : o \in Elements(waiting) <=> pc[o] = "wait"
    /\ \A i, j \in DOMAIN waiting : i < j => waiting[i] < waiting[j]

ControlInv == PlacesInv /\ OwnersInv /\ RowsInv /\ QueueInv /\ TurnsStartInOrder

TodoInv ==
    /\ todo \in [Requests -> Seq(Rooms)]
    /\ \A o \in Requests : pc[o] = "room" => todo[o] # <<>>

-----------------------------------------------------------------------------
(* Who holds which copy *)

CopyPlaces == {"save_note", "plan", "room", "reply", "refresh", "complete"}
HoldPlaces == TurnPlaces \union {"save_note", "create"}

\* What a copy is when nothing was saved since it was loaded.
Fresh(w) == IF pc[w] = "save_note" THEN WithMessage(draft, Note(w)) ELSE draft

CopyInv ==
    /\ draft \in Drafts
    /\ copy \in [Writers -> Drafts \union {NoDraft}]
    /\ stale \in [Writers -> SUBSET {"note", "turn", "review"}]
    /\ overwritten \in BOOLEAN
    /\ \A o \in Requests :
        /\ pc[o] \in CopyPlaces => copy[o] # NoDraft
        /\ copy[o] # NoDraft => pc[o] \in HoldPlaces
    /\ \A h \in Handlers : pc[h] \in {"loaded", "refresh"} => copy[h] # NoDraft
    /\ \A w \in Writers : copy[w] # NoDraft /\ stale[w] = {} => copy[w] = Fresh(w)
    /\ LockAndLoopExclude

-----------------------------------------------------------------------------
(* Which ids are used *)

\* Every id is used once, and the next uuid is a new one.
IdsBelow(items, n) ==
    /\ \A e, f \in items : e.id = f.id => e = f
    /\ \A e \in items : e.id < n

ItemsInv ==
    /\ next_id \in Nat
    /\ decided \in [ItemIds -> {"none"} \union Decisions]
    /\ removed \subseteq ItemIds
    /\ IdsBelow(draft.items, next_id)
    /\ \A w \in Writers : copy[w] # NoDraft => IdsBelow(copy[w].items, next_id)

-----------------------------------------------------------------------------
(* How often a note is there *)

Times(d, m) == Cardinality({i \in DOMAIN d.messages : d.messages[i] = m})

\* The note of o is not in the draft yet, as far as o's present run goes; or
\* it is in o's copy.
Unwritten(o) ==
    pc[o] = "idle" \/ (~IsMessage(o) /\ pc[o] \in {"store_audio", "wait", "hear", "transcribe"})
Writing(o) == pc[o] = "save_note"

EarlierRuns(o) == IF IsMessage(o) THEN 0 ELSE crashes

\* How often the note of o may be in the draft, and in w's copy.
Most(o) == EarlierRuns(o) + (IF Unwritten(o) \/ Writing(o) THEN 0 ELSE 1)
MostIn(w, o) == Most(o) + (IF w = o /\ Writing(o) THEN 1 ELSE 0)

NotesInv ==
    /\ crashes \in Nat
    /\ \A o \in Requests :
        /\ Times(draft, Note(o)) <= Most(o)
        /\ \A w \in Writers : copy[w] # NoDraft => Times(copy[w], Note(o)) <= MostIn(w, o)

-----------------------------------------------------------------------------
(* What is kept, and what the claim is shown as *)

NotedPlaces == {"unlink", "load", "plan", "room", "reply", "refresh", "complete"}
RepliedPlaces == {"refresh", "complete"}

MessagesAreKept ==
    \A o \in Requests :
        /\ IsMessage(o) /\ (op_status[o] # "none" \/ pc[o] = "create") => Kept(Note(o))
        /\ pc[o] \in NotedPlaces => Kept(Note(o))
        /\ pc[o] \in RepliedPlaces => Kept(Reply(o))
        /\ op_status[o] = "completed" => Kept(Note(o)) /\ Kept(Reply(o))

DecisionsAreKept ==
    \A id \in ItemIds \ removed :
        decided[id] # "none" => \E e \in draft.items : e.id = id /\ e.status = decided[id]

KeptInv == ~overwritten => MessagesAreKept /\ DecisionsAreKept

Drafting == {"ingesting", "planning_rooms"}

StatusInv ==
    /\ claim_status \in Drafting \union {"new", "review_pending", "approved_for_publish",
                                         "publishing", "published"}
    /\ audio \subseteq Requests
    /\ \A o \in Requests : pc[o] = "complete" => claim_status \notin Drafting
    /\ ShownAsDraftedIsDrafted

-----------------------------------------------------------------------------
(* Queues and writers *)

\* A number is put behind smaller ones, or taken from the front.
LEMMA QueueAppend ==
    ASSUME NEW S, NEW list \in Seq(S), NEW x \in S
    PROVE  /\ Append(list, x) \in Seq(S)
           /\ Elements(Append(list, x)) = Elements(list) \union {x}
           /\ \A i \in DOMAIN Append(list, x) :
                 \/ i \in DOMAIN list /\ Append(list, x)[i] = list[i] /\ i <= Len(list)
                 \/ i = Len(list) + 1 /\ Append(list, x)[i] = x
<1>1. /\ DOMAIN list = 1..Len(list) /\ Len(list) \in Nat
      /\ Append(list, x) \in Seq(S) /\ DOMAIN Append(list, x) = 1..(Len(list) + 1)
      /\ \A i \in 1..Len(list) : Append(list, x)[i] = list[i]
      /\ Append(list, x)[Len(list) + 1] = x
  OBVIOUS
<1>2. \A i \in 1..(Len(list) + 1) : i \in 1..Len(list) \/ i = Len(list) + 1
  BY <1>1
<1> HIDE DEF Elements
<1>3. Elements(Append(list, x)) = Elements(list) \union {x}
  <2>1. 1..Len(list) \subseteq 1..(Len(list) + 1) /\ Len(list) + 1 \in 1..(Len(list) + 1)
    BY <1>1
  <2> QED BY <1>1, <1>2, <2>1 DEF Elements
<1> QED BY <1>1, <1>2, <1>3

\* The rest of a queue is in order, and no longer has its first.
LEMMA QueueTail ==
    ASSUME NEW S, NEW list \in Seq(S), S \subseteq Nat, list # <<>>,
           \A i, j \in DOMAIN list : i < j => list[i] < list[j]
    PROVE  /\ Tail(list) \in Seq(S) /\ Head(list) \in S
           /\ Elements(list) = {Head(list)} \union Elements(Tail(list))
           /\ \A x \in Elements(Tail(list)) : Head(list) < x
           /\ \A i, j \in DOMAIN Tail(list) : i < j => Tail(list)[i] < Tail(list)[j]
<1>1. /\ DOMAIN list = 1..Len(list) /\ Len(list) \in Nat \ {0} /\ Head(list) = list[1]
      /\ Tail(list) \in Seq(S) /\ DOMAIN Tail(list) = 1..(Len(list) - 1) /\ Head(list) \in S
      /\ \A i \in 1..(Len(list) - 1) : Tail(list)[i] = list[i + 1]
  OBVIOUS
<1>2. \A i \in 1..(Len(list) - 1) : i + 1 \in 1..Len(list) /\ 1 < i + 1
  BY <1>1
<1>3. \A i \in 1..Len(list) : i = 1 \/ (i - 1 \in 1..(Len(list) - 1) /\ (i - 1) + 1 = i)
  BY <1>1
<1>4. Elements(list) = {Head(list)} \union Elements(Tail(list))
  <2>1. ASSUME NEW x \in Elements(list) PROVE x \in {Head(list)} \union Elements(Tail(list))
    <3>1. PICK i \in 1..Len(list) : x = list[i]
      BY <1>1 DEF Elements
    <3>2. CASE i = 1
      BY <1>1, <3>1, <3>2
    <3>3. CASE i - 1 \in 1..(Len(list) - 1) /\ (i - 1) + 1 = i
      <4>1. Tail(list)[i - 1] = x
        BY <1>1, <3>1, <3>3
      <4> QED BY <1>1, <3>3, <4>1 DEF Elements
    <3> QED BY <1>3, <3>2, <3>3
  <2>2. 1 \in 1..Len(list)
    BY <1>1
  <2> QED BY <1>1, <1>2, <2>1, <2>2 DEF Elements
<1>5. \A x \in Elements(Tail(list)) : Head(list) < x
  <2>1. 1 \in 1..Len(list)
    BY <1>1
  <2> QED BY <1>1, <1>2, <2>1 DEF Elements
<1>6. \A i, j \in DOMAIN Tail(list) : i < j => Tail(list)[i] < Tail(list)[j]
  <2> SUFFICES ASSUME NEW i \in 1..(Len(list) - 1), NEW j \in 1..(Len(list) - 1), i < j
               PROVE  list[i + 1] < list[j + 1]
    BY <1>1
  <2>1. i + 1 < j + 1
    OBVIOUS
  <2> QED BY <1>1, <1>2, <2>1
<1> QED BY <1>1, <1>4, <1>5, <1>6

\* Requests, handlers and Free are different numbers.
LEMMA WritersApart ==
    /\ MaxRequests \in Nat /\ Requests \subseteq Nat \ {0}
    /\ Requests \subseteq Writers /\ Handlers \subseteq Writers
    /\ Free \notin Requests
    /\ \A w \in Writers : w \in Requests \/ w \in Handlers
    /\ \A h \in Handlers : h \notin Requests
<1>1. MaxRequests \in Nat /\ MaxHandlers \in Nat
  BY BoundsAssumption
<1>2. \A o \in Requests : o \in Int /\ 1 <= o
  BY <1>1 DEF Requests
<1>3. \A h \in Handlers : h \in Int /\ h < 0
  BY <1>1 DEF Handlers
<1> QED BY <1>1, <1>2, <1>3 DEF Writers, Free

-----------------------------------------------------------------------------
(* Control *)

\* What most steps of a turn do: it goes on, with or without the loop.
TurnMoves(o, to) ==
    /\ InTurn(o) /\ OnLoop(o)
    /\ to \in TurnPlaces \/ (to = "save_note" /\ ~IsMessage(o))
    /\ to \in {"hear", "transcribe", "unlink"} => ~IsMessage(o)
    /\ Goto(o, to)
    /\ loop' = IF to \in KeepPlaces THEN o ELSE Free
    /\ UNCHANGED <<op_status, requests, holder, waiting>>

HandlerMoves(h, to) ==
    /\ to \in HandlerPlaces /\ Goto(h, to)
    /\ UNCHANGED <<op_status, requests, loop, holder, waiting>>

\* What a step does to places, rows and owners, in few kinds.
LEMMA ControlFrame ==
    ASSUME ControlInv, Next
    PROVE  \/ \E o \in Requests :
              \/ SubmitText(o) \/ SubmitVoice(o)
              \/ SaveNote(o) /\ IsMessage(o)
              \/ CreateOperation(o) \/ StoreAudio(o) \/ Begin(o)
              \/ \E to \in RequestPlaces : TurnMoves(o, to)
              \/ Complete(o) \/ Fail(o)
           \/ \E h \in Handlers, to \in HandlerPlaces : HandlerMoves(h, to)
           \/ Restart
<1>1. ASSUME NEW o \in Requests, Turn(o)
      PROVE  \/ SaveNote(o) /\ IsMessage(o)
             \/ CreateOperation(o) \/ StoreAudio(o) \/ Begin(o)
             \/ \E to \in RequestPlaces : TurnMoves(o, to)
             \/ Complete(o) \/ Fail(o)
  <2> USE DEF TurnMoves, InTurn, TurnPlaces, KeepPlaces, RequestPlaces, At, Keep, Await, tasks,
              store, Goto, ControlInv, RowsInv, IsMessage
  <2>1. CASE SaveNote(o) /\ ~IsMessage(o)
    <3>1. TurnMoves(o, "unlink")
      BY <2>1 DEF SaveNote
    <3> QED BY <3>1
  <2>2. CASE Hear(o)
    <3>1. TurnMoves(o, "transcribe")
      BY <2>2 DEF Hear
    <3> QED BY <3>1
  <2>3. CASE Transcribed(o)
    <3>1. TurnMoves(o, "save_note")
      BY <2>3 DEF Transcribed
    <3> QED BY <3>1
  <2>4. CASE Unlink(o)
    <3>1. TurnMoves(o, "load")
      BY <2>4 DEF Unlink
    <3> QED BY <3>1
  <2>5. CASE LoadDraft(o)
    <3>1. TurnMoves(o, "plan")
      BY <2>5 DEF LoadDraft
    <3> QED BY <3>1
  <2>6. CASE Planned(o)
    <3>1. TurnMoves(o, "room")
      BY <2>6 DEF Planned
    <3> QED BY <3>1
  <2>7. CASE PlanRoom(o)
    <3>1. TurnMoves(o, "room") \/ TurnMoves(o, "reply")
      BY <2>7 DEF PlanRoom, NextRoom
    <3> QED BY <3>1
  <2>8. CASE SaveReply(o)
    <3>1. TurnMoves(o, "refresh")
      BY <2>8 DEF SaveReply
    <3> QED BY <3>1
  <2>9. CASE RefreshStatuses(o)
    <3>1. TurnMoves(o, "complete")
      BY <2>9 DEF RefreshStatuses
    <3> QED BY <3>1
  <2> QED BY <1>1, <2>1, <2>2, <2>3, <2>4, <2>5, <2>6, <2>7, <2>8, <2>9 DEF Turn
<1>2. ASSUME NEW h \in Handlers, Handler(h)
      PROVE  \E to \in HandlerPlaces : HandlerMoves(h, to)
  <2>1. HandlerMoves(h, "loaded") \/ HandlerMoves(h, "refresh") \/ HandlerMoves(h, "idle")
        \/ HandlerMoves(h, "publishing")
    BY <1>2 DEF Handler, HandlerLoads, SaveReview, RefreshReview, StartPublish, EndPublish,
                HandlerMoves, HandlerPlaces, store, tasks
  <2> QED BY <2>1 DEF HandlerPlaces
<1> QED BY <1>1, <1>2 DEF Next, Submit

\* At the start nobody is anywhere.
LEMMA InitControl == Init => ControlInv
<1> SUFFICES ASSUME Init PROVE ControlInv
  OBVIOUS
<1>1. PlacesInv
  BY WritersApart DEF Init, PlacesInv, RequestPlaces, HandlerPlaces
<1>2. OwnersInv /\ RowsInv /\ TurnsStartInOrder
  BY WritersApart DEF Init, OwnersInv, RowsInv, TurnsStartInOrder, InTurn, Submitting, KeepPlaces,
                      TurnPlaces, Ended
<1>3. Elements(waiting) = {} /\ DOMAIN waiting = {}
  BY DEF Init, Elements
<1>4. QueueInv
  BY <1>3, WritersApart DEF Init, QueueInv
<1> QED BY <1>1, <1>2, <1>4 DEF ControlInv

\* Steps that move one writer and leave the queue and the rows alone.
LEMMA MovesKeepControl ==
    ASSUME ControlInv,
           \/ \E o \in Requests, to \in RequestPlaces : TurnMoves(o, to)
           \/ \E h \in Handlers, to \in HandlerPlaces : HandlerMoves(h, to)
    PROVE  ControlInv'
<1> USE DEF ControlInv
<1>1. CASE \E o \in Requests, to \in RequestPlaces : TurnMoves(o, to)
  <2>1. PICK o \in Requests, to \in RequestPlaces : TurnMoves(o, to)
    BY <1>1
  <2>2. /\ pc' \in [Writers -> RequestPlaces \union HandlerPlaces] /\ pc'[o] = to
        /\ \A w \in Writers \ {o} : pc'[w] = pc[w]
    BY <2>1, WritersApart DEF PlacesInv, TurnMoves, Goto
  <2>3. PlacesInv'
    BY <2>1, <2>2, WritersApart DEF PlacesInv, TurnMoves
  <2>4. OwnersInv'
    BY <2>1, <2>2, WritersApart DEF PlacesInv, OwnersInv, TurnMoves, InTurn, Submitting, OnLoop,
        TurnPlaces, KeepPlaces, IsMessage
  <2>5. RowsInv'
    BY <2>1, <2>2, WritersApart DEF PlacesInv, OwnersInv, RowsInv, TurnMoves, InTurn, TurnPlaces,
        IsMessage
  <2>6. QueueInv'
    BY <2>1, <2>2, WritersApart DEF QueueInv, TurnMoves, InTurn, TurnPlaces
  <2>7. TurnsStartInOrder'
    BY <2>1 DEF TurnsStartInOrder, TurnMoves
  <2> QED BY <2>3, <2>4, <2>5, <2>6, <2>7
<1>2. CASE \E h \in Handlers, to \in HandlerPlaces : HandlerMoves(h, to)
  <2>1. PICK h \in Handlers, to \in HandlerPlaces : HandlerMoves(h, to)
    BY <1>2
  <2>2. /\ pc' \in [Writers -> RequestPlaces \union HandlerPlaces] /\ pc'[h] = to
        /\ \A w \in Writers \ {h} : pc'[w] = pc[w]
    BY <2>1, WritersApart DEF PlacesInv, HandlerMoves, Goto
  <2>3. \A o \in Requests : pc'[o] = pc[o]
    BY <2>2, WritersApart
  <2>4. PlacesInv'
    BY <2>1, <2>2, <2>3, WritersApart DEF PlacesInv, HandlerMoves
  <2>5. OwnersInv'
    BY <2>1, <2>3 DEF OwnersInv, HandlerMoves, InTurn, Submitting, IsMessage
  <2>6. RowsInv' /\ QueueInv' /\ TurnsStartInOrder'
    BY <2>1, <2>3 DEF RowsInv, QueueInv, TurnsStartInOrder, HandlerMoves, IsMessage
  <2> QED BY <2>4, <2>5, <2>6
<1> QED BY <1>1, <1>2

\* A submission: it is the latest request, and it keeps the loop until its row
\* is there and it waits.
LEMMA SubmissionsKeepControl ==
    ASSUME ControlInv, NEW o \in Requests,
           SubmitText(o) \/ SubmitVoice(o) \/ (SaveNote(o) /\ IsMessage(o))
    PROVE  ControlInv'
<1> USE DEF ControlInv
<1>1. /\ UNCHANGED <<holder, waiting>>
      /\ pc[o] \in {"idle", "save_note"} /\ OnLoop(o)
      /\ loop' = o /\ requests' = o /\ o \in {requests, requests + 1}
      /\ \/ pc'[o] = "save_note" /\ IsMessage(o) /\ op_status' = op_status /\ op_status[o] = "none"
         \/ pc'[o] = "create" /\ IsMessage(o) /\ op_status' = op_status /\ op_status[o] = "none"
         \/ pc'[o] = "store_audio" /\ ~IsMessage(o) /\ op_status' = [op_status EXCEPT ![o] = "queued"]
      /\ pc' = [pc EXCEPT ![o] = pc'[o]]
  BY WritersApart DEF SubmitText, SubmitVoice, SaveNote, NewRequest, store, history, At, Goto, Keep,
      PlacesInv, OwnersInv, RowsInv, Submitting, IsMessage
<1>2. /\ pc' \in [Writers -> RequestPlaces \union HandlerPlaces]
      /\ pc'[o] \in {"save_note", "create", "store_audio"}
      /\ \A w \in Writers \ {o} : pc'[w] = pc[w]
  BY <1>1, WritersApart DEF PlacesInv, RequestPlaces, KeepPlaces
<1>3. PlacesInv'
  BY <1>1, <1>2, WritersApart DEF PlacesInv, RequestPlaces, KeepPlaces, Requests
<1>4. \A p \in Requests \ {o} :
          /\ op_status'[p] = op_status[p] /\ pc'[p] = pc[p] /\ ~Submitting(p)
          /\ pc[p] \notin KeepPlaces
          /\ p > o => p > requests
  <2> SUFFICES ASSUME NEW p \in Requests, p # o
               PROVE  /\ op_status'[p] = op_status[p] /\ pc'[p] = pc[p] /\ pc[p] \notin KeepPlaces
                      /\ p > o => p > requests
    BY DEF Submitting, KeepPlaces
  <2> QED BY <1>1, <1>2, WritersApart DEF PlacesInv, OwnersInv, OnLoop
<1>5. OwnersInv'
  BY <1>1, <1>2, <1>3, <1>4, WritersApart DEF PlacesInv, OwnersInv, InTurn, Submitting, IsMessage,
      TurnPlaces, KeepPlaces
<1>6. op_status'[o] \in {"none", "queued"} /\ (op_status'[o] = "queued" => pc'[o] = "store_audio")
  BY <1>1 DEF PlacesInv
<1>7. RowsInv'
  <2> SUFFICES ASSUME NEW p \in Requests
               PROVE  /\ p > requests' => pc'[p] = "idle" /\ op_status'[p] = "none"
                      /\ pc'[p] = "create" \/ (pc'[p] = "save_note" /\ IsMessage(p)) => op_status'[p] = "none"
                      /\ pc'[p] = "create" => IsMessage(p)
                      /\ pc'[p] \in {"store_audio", "hear", "transcribe", "unlink"} => ~IsMessage(p)
                      /\ pc'[p] = "store_audio" => op_status'[p] = "queued"
                      /\ pc'[p] = "wait" => op_status'[p] \in {"queued", "running"}
                      /\ op_status'[p] = "queued" => pc'[p] \in {"wait", "store_audio"}
    BY DEF RowsInv, IsMessage
  <2>1. CASE p = o
    BY <1>1, <1>2, <1>6, <2>1, WritersApart DEF PlacesInv
  <2>2. CASE p # o
    BY <1>1, <1>4, <2>2 DEF RowsInv
  <2> QED BY <2>1, <2>2
<1>8. QueueInv'
  BY <1>1, <1>2, <1>4 DEF QueueInv
<1>9. TurnsStartInOrder'
  <2> SUFFICES ASSUME NEW p \in Requests, NEW q \in Requests, p < q,
                      op_status'[q] \in {"running"} \union Ended
               PROVE  op_status'[p] # "queued"
    BY DEF TurnsStartInOrder
  <2>1. q # o
    BY <1>6 DEF Ended
  <2>2. op_status[q] = op_status'[q] /\ q <= requests
    BY <1>4, <2>1, WritersApart DEF RowsInv, PlacesInv, Ended
  <2>3. p # o \/ op_status'[o] = "none"
    BY <1>1, <2>1, <2>2, <1>4, WritersApart DEF PlacesInv
  <2> QED BY <1>4, <2>2, <2>3 DEF TurnsStartInOrder
<1> QED BY <1>3, <1>5, <1>7, <1>8, <1>9

\* The submission ends: the operation asks for the lock.
LEMMA SchedulingKeepsControl ==
    ASSUME ControlInv, NEW o \in Requests, CreateOperation(o) \/ StoreAudio(o)
    PROVE  ControlInv'
<1> USE DEF ControlInv
<1>1. /\ pc[o] \in {"create", "store_audio"} /\ o = requests
      /\ waiting' = Append(waiting, o) /\ loop' = Free /\ UNCHANGED <<requests, holder>>
      /\ pc' = [pc EXCEPT ![o] = "wait"]
      /\ op_status' = [op_status EXCEPT ![o] = "queued"]
  <2>1. pc[o] \in {"create", "store_audio"} /\ o = requests
    BY DEF CreateOperation, StoreAudio, At, OwnersInv, Submitting
  <2>2. CASE CreateOperation(o)
    BY <2>1, <2>2 DEF CreateOperation, Schedule, Goto, Await
  <2>3. CASE StoreAudio(o)
    <3>1. op_status' = op_status /\ op_status[o] = "queued"
      BY <2>3 DEF StoreAudio, At, RowsInv
    <3> QED BY <2>1, <2>3, <3>1 DEF StoreAudio, Schedule, Goto, Await, PlacesInv
  <2> QED BY <2>2, <2>3
<1>2. /\ pc' \in [Writers -> RequestPlaces \union HandlerPlaces] /\ pc'[o] = "wait"
      /\ \A w \in Writers \ {o} : pc'[w] = pc[w]
  BY <1>1, WritersApart DEF PlacesInv, RequestPlaces
<1>3. /\ waiting' \in Seq(Requests) /\ Elements(waiting') = Elements(waiting) \union {o}
      /\ \A i \in DOMAIN waiting' :
            \/ i \in DOMAIN waiting /\ waiting'[i] = waiting[i] /\ i <= Len(waiting)
            \/ i = Len(waiting) + 1 /\ waiting'[i] = o
  BY <1>1, QueueAppend DEF PlacesInv
<1>4. PlacesInv'
  BY <1>1, <1>2, <1>3, WritersApart DEF PlacesInv, RequestPlaces
<1>5. \A p \in Requests \ {o} : op_status'[p] = op_status[p] /\ pc'[p] = pc[p] /\ pc[p] \notin KeepPlaces
  BY <1>1, <1>2, WritersApart DEF PlacesInv, OwnersInv, KeepPlaces
<1>6. op_status'[o] = "queued"
  BY <1>1 DEF PlacesInv
<1>7. OwnersInv'
  BY <1>1, <1>2, <1>5 DEF OwnersInv, InTurn, Submitting, IsMessage, TurnPlaces, KeepPlaces
<1>8. RowsInv'
  BY <1>1, <1>2, <1>5, <1>6, WritersApart DEF RowsInv, PlacesInv, IsMessage
<1>9. QueueInv'
  <2>1. \A p \in Requests : p \in Elements(waiting') <=> pc'[p] = "wait"
    BY <1>2, <1>3, <1>5 DEF QueueInv
  <2>2. \A i \in DOMAIN waiting : waiting[i] < o
    <3> TAKE i \in DOMAIN waiting
    <3>1. waiting[i] \in Requests /\ waiting[i] \in Elements(waiting)
      BY DEF PlacesInv, Elements
    <3>2. pc[waiting[i]] = "wait"
      BY <3>1 DEF QueueInv
    <3>3. waiting[i] # o /\ ~(waiting[i] > requests)
      BY <1>1, <3>1, <3>2 DEF RowsInv, KeepPlaces
    <3>4. \A p \in Requests : p \in Int
      BY WritersApart
    <3>5. o = requests
      BY <1>1
    <3> QED BY <3>1, <3>3, <3>4, <3>5
  <2>3. DOMAIN waiting = 1..Len(waiting) /\ Len(waiting) \in Nat
    BY DEF PlacesInv
  <2>4. \A i, j \in DOMAIN waiting' : i < j => waiting'[i] < waiting'[j]
    BY <1>3, <2>2, <2>3 DEF QueueInv
  <2> QED BY <2>1, <2>4 DEF QueueInv
<1>10. TurnsStartInOrder'
  <2> SUFFICES ASSUME NEW p \in Requests, NEW q \in Requests, p < q,
                      op_status'[q] \in {"running"} \union Ended
               PROVE  op_status'[p] # "queued"
    BY DEF TurnsStartInOrder
  <2>1. q # o
    BY <1>6 DEF Ended
  <2>2. op_status[q] = op_status'[q] /\ q <= requests
    BY <1>5, <2>1, WritersApart DEF RowsInv, PlacesInv, Ended
  <2>3. p # o
    BY <1>1, <2>1, <2>2, WritersApart
  <2> QED BY <1>5, <2>2, <2>3 DEF TurnsStartInOrder
<1> QED BY <1>4, <1>7, <1>8, <1>9, <1>10

\* The first in the queue gets the lock: what is still queued came later.
LEMMA BeginKeepsControl ==
    ASSUME ControlInv, NEW o \in Requests, Begin(o)
    PROVE  ControlInv'
<1> USE DEF ControlInv
<1>1. /\ pc[o] = "wait" /\ OnLoop(o) /\ holder = Free /\ waiting # <<>> /\ o = Head(waiting)
      /\ waiting' = Tail(waiting) /\ holder' = o /\ loop' = o /\ requests' = requests
      /\ pc' = [pc EXCEPT ![o] = pc'[o]]
      /\ \/ pc'[o] = "load" /\ IsMessage(o)
         \/ pc'[o] = "hear" /\ ~IsMessage(o)
      /\ op_status' = [op_status EXCEPT ![o] = "running"]
  BY WritersApart DEF Begin, At, Goto, Keep, PlacesInv, IsMessage
<1>2. /\ pc' \in [Writers -> RequestPlaces \union HandlerPlaces] /\ pc'[o] \in {"load", "hear"}
      /\ \A w \in Writers \ {o} : pc'[w] = pc[w]
  BY <1>1, WritersApart DEF PlacesInv, RequestPlaces, KeepPlaces
<1>3. /\ waiting' \in Seq(Requests)
      /\ Elements(waiting) = {o} \union Elements(waiting')
      /\ \A x \in Elements(waiting') : o < x
      /\ \A i, j \in DOMAIN waiting' : i < j => waiting'[i] < waiting'[j]
  <2>1. Requests \subseteq Nat
    BY WritersApart
  <2> QED BY <1>1, <2>1, QueueTail DEF PlacesInv, QueueInv
<1>4. PlacesInv'
  BY <1>1, <1>2, <1>3, WritersApart DEF PlacesInv, RequestPlaces, KeepPlaces
<1>5. \A p \in Requests \ {o} :
          op_status'[p] = op_status[p] /\ pc'[p] = pc[p] /\ pc[p] \notin KeepPlaces /\ ~InTurn(p)
  <2> SUFFICES ASSUME NEW p \in Requests, p # o
               PROVE  op_status'[p] = op_status[p] /\ pc'[p] = pc[p] /\ pc[p] \notin KeepPlaces /\ ~InTurn(p)
    OBVIOUS
  <2>1. pc[p] \notin KeepPlaces
    BY <1>1, WritersApart DEF OwnersInv, OnLoop, KeepPlaces
  <2>2. ~InTurn(p)
    BY <1>1, WritersApart DEF OwnersInv
  <2> QED BY <1>1, <1>2, <2>1, <2>2, WritersApart DEF PlacesInv
<1>6. op_status'[o] = "running" /\ o <= requests
  BY <1>1, WritersApart DEF PlacesInv, RowsInv
<1>7. OwnersInv'
  BY <1>1, <1>2, <1>5, <1>6 DEF OwnersInv, InTurn, Submitting, IsMessage, TurnPlaces, KeepPlaces
<1>8. RowsInv'
  BY <1>1, <1>2, <1>5, <1>6, WritersApart DEF RowsInv, PlacesInv, IsMessage
<1>9. \A p \in Requests : p \in Elements(waiting') <=> pc'[p] = "wait"
  <2>1. o \notin Elements(waiting')
    BY <1>3, WritersApart
  <2> QED BY <1>2, <1>3, <1>5, <2>1 DEF QueueInv
<1>10. QueueInv'
  BY <1>3, <1>9 DEF QueueInv
<1>11. TurnsStartInOrder'
  <2> SUFFICES ASSUME NEW p \in Requests, NEW q \in Requests, p < q,
                      op_status'[q] \in {"running"} \union Ended
               PROVE  op_status'[p] # "queued"
    BY DEF TurnsStartInOrder
  <2>1. CASE p = o
    BY <1>6, <2>1
  <2>2. CASE p # o /\ q # o
    BY <1>5, <2>2 DEF TurnsStartInOrder
  <2>3. CASE p # o /\ q = o
    <3>1. SUFFICES ASSUME op_status[p] = "queued" PROVE FALSE
      BY <1>5, <2>3
    <3>2. pc[p] = "wait"
      BY <1>5, <2>3, <3>1 DEF RowsInv, KeepPlaces
    <3>3. p \in Elements(waiting')
      BY <1>3, <2>3, <3>2 DEF QueueInv
    <3>4. o < p /\ p < o /\ o \in Int /\ p \in Int
      BY <1>3, <2>3, <3>3, WritersApart
    <3> QED BY <3>4
  <2> QED BY <2>1, <2>2, <2>3
<1> QED BY <1>4, <1>7, <1>8, <1>10, <1>11

\* The turn ends and gives the lock back.
LEMMA EndKeepsControl ==
    ASSUME ControlInv, NEW o \in Requests, Complete(o) \/ Fail(o)
    PROVE  ControlInv'
<1> USE DEF ControlInv
<1>1. /\ InTurn(o) /\ OnLoop(o) /\ op_status[o] = "running"
      /\ UNCHANGED <<requests, waiting>> /\ loop' = Free /\ holder' = Free
      /\ pc' = [pc EXCEPT ![o] = "end"]
      /\ \E status \in Ended : op_status' = [op_status EXCEPT ![o] = status]
  BY DEF Complete, Fail, End, Ended, At, Goto, Await, InTurn, TurnPlaces, OwnersInv
<1>2. /\ pc' \in [Writers -> RequestPlaces \union HandlerPlaces] /\ pc'[o] = "end"
      /\ \A w \in Writers \ {o} : pc'[w] = pc[w]
  BY <1>1, WritersApart DEF PlacesInv, RequestPlaces
<1>3. PlacesInv'
  BY <1>1, <1>2, WritersApart DEF PlacesInv, RequestPlaces
<1>4. \A p \in Requests \ {o} :
          op_status'[p] = op_status[p] /\ pc'[p] = pc[p] /\ pc[p] \notin KeepPlaces /\ ~InTurn(p)
  BY <1>1, <1>2, WritersApart DEF PlacesInv, OwnersInv, OnLoop
<1>5. op_status'[o] \in Ended /\ o <= requests
  BY <1>1, WritersApart DEF PlacesInv, RowsInv
<1>6. OwnersInv'
  BY <1>1, <1>2, <1>4 DEF OwnersInv, InTurn, Submitting, IsMessage, TurnPlaces, KeepPlaces
<1>7. RowsInv'
  BY <1>1, <1>2, <1>4, <1>5, WritersApart DEF RowsInv, PlacesInv, IsMessage, Ended
<1>8. QueueInv'
  BY <1>1, <1>2, <1>4 DEF QueueInv, InTurn, TurnPlaces
<1>9. TurnsStartInOrder'
  BY <1>1, <1>4, <1>5 DEF TurnsStartInOrder, Ended
<1> QED BY <1>3, <1>6, <1>7, <1>8, <1>9

\* What is resumed: the operations that the store calls unfinished, in order.
LEMMA IncompleteProperties ==
    ASSUME PlacesInv
    PROVE  /\ Incomplete \in Seq(Requests)
           /\ Elements(Incomplete) = {o \in Requests : op_status[o] \in {"queued", "running"}}
           /\ \A i, j \in DOMAIN Incomplete : i < j => Incomplete[i] < Incomplete[j]
<1> DEFINE S == {o \in Requests : op_status[o] \in {"queued", "running"}}
<1>1. IsFiniteSet(Requests)
  BY FS_Interval, BoundsAssumption DEF Requests
<1>2. IsFiniteSet(S) /\ S \subseteq Requests
  BY <1>1, FS_Subset
<1>3. Orders(Earlier, S)
  <2>1. \A p \in Requests : p \in Int
    BY WritersApart
  <2>2. \A p, q \in Requests : <<p, q>> \in Earlier <=> p < q
    BY DEF Earlier
  <2> HIDE DEF S
  <2> QED BY <1>2, <2>1, <2>2 DEF Orders
<1>4. Incomplete = Arranged(S, Earlier)
  BY DEF Incomplete, OperationsIn
<1> HIDE DEF S
<1>5. /\ Incomplete \in Seq(S) /\ Elements(Incomplete) = S
      /\ \A i, j \in DOMAIN Incomplete : i < j => <<Incomplete[i], Incomplete[j]>> \in Earlier
  BY <1>2, <1>3, <1>4, ArrangedEnumerates
<1>6. \A i, j \in DOMAIN Incomplete : i < j => Incomplete[i] < Incomplete[j]
  BY <1>5 DEF Earlier
<1>7. Incomplete \in Seq(Requests)
  BY <1>2, <1>5
<1> QED BY <1>5, <1>6, <1>7 DEF S

\* A kill leaves only the rows; what they call unfinished waits again.
LEMMA RestartKeepsControl ==
    ASSUME ControlInv, Restart
    PROVE  ControlInv'
<1> USE DEF ControlInv
<1>1. /\ waiting' = Incomplete /\ loop' = Free /\ holder' = Free
      /\ UNCHANGED <<op_status, requests>>
      /\ pc' \in [Writers -> {"wait", "end", "idle"}]
  BY DEF Restart, store
<1>2. /\ waiting' \in Seq(Requests)
      /\ Elements(waiting') = {o \in Requests : op_status[o] \in {"queued", "running"}}
      /\ \A i, j \in DOMAIN waiting' : i < j => waiting'[i] < waiting'[j]
  BY <1>1, IncompleteProperties
<1>3. ToSet(Incomplete) = Elements(waiting')
  BY <1>1 DEF ToSet, Elements
<1>4. \A w \in Writers :
          pc'[w] = IF w \in Elements(waiting') THEN "wait"
                   ELSE IF w \in 1..requests THEN "end" ELSE "idle"
  BY <1>3 DEF Restart
<1>5. \A h \in Handlers : pc'[h] = "idle"
  <2> TAKE h \in Handlers
  <2>1. h \in Int /\ h < 0
    BY BoundsAssumption DEF Handlers
  <2>2. h \notin Elements(waiting') /\ h \notin 1..requests /\ h \in Writers
    BY <1>2, <2>1, WritersApart DEF PlacesInv
  <2> QED BY <1>4, <2>2
<1>6. \A o \in Requests :
          /\ pc'[o] \in {"wait", "end", "idle"}
          /\ pc'[o] = "wait" <=> op_status[o] \in {"queued", "running"}
          /\ o > requests => pc'[o] = "idle"
  <2> TAKE o \in Requests
  <2>1. o \in Writers /\ (o \in Elements(waiting') <=> op_status[o] \in {"queued", "running"})
    BY <1>2, WritersApart
  <2>2. o > requests => o \notin 1..requests /\ op_status[o] = "none"
    BY WritersApart DEF PlacesInv, RowsInv
  <2> QED BY <1>4, <2>1, <2>2
<1>7. PlacesInv'
  <2>1. pc' \in [Writers -> RequestPlaces \union HandlerPlaces]
    BY <1>1 DEF RequestPlaces
  <2> QED BY <1>1, <1>2, <1>5, <1>6, <2>1 DEF PlacesInv, RequestPlaces, HandlerPlaces
<1>8. OwnersInv'
  BY <1>1, <1>6 DEF OwnersInv, InTurn, Submitting, IsMessage, TurnPlaces, KeepPlaces
<1>9. RowsInv'
  BY <1>1, <1>6 DEF RowsInv, IsMessage
<1>10. QueueInv'
  BY <1>1, <1>2, <1>6 DEF QueueInv
<1>11. TurnsStartInOrder'
  BY <1>1 DEF TurnsStartInOrder
<1> QED BY <1>7, <1>8, <1>9, <1>10, <1>11

\* Every step keeps places, rows, owners and the queue consistent.
LEMMA StepControl == ControlInv /\ [Next]_vars => ControlInv'
<1> SUFFICES ASSUME ControlInv, [Next]_vars PROVE ControlInv'
  OBVIOUS
<1>1. CASE Next
  BY <1>1, ControlFrame, MovesKeepControl, SubmissionsKeepControl, SchedulingKeepsControl,
     BeginKeepsControl, EndKeepsControl, RestartKeepsControl
<1>2. CASE UNCHANGED vars
  BY <1>2 DEF vars, store, tasks, ControlInv, PlacesInv, OwnersInv, RowsInv, QueueInv,
              TurnsStartInOrder, InTurn, Submitting, IsMessage
<1> QED BY <1>1, <1>2

\* Place, row, loop, lock and queue agree, for any number of requests and
\* through kills: what the order of turns and every later layer rest on.
THEOREM ControlIsInvariant == Spec => []ControlInv
BY InitControl, StepControl, PTL DEF Spec

\* Turns start in the order of their submission, through kills and restarts.
THEOREM StartInOrder == Spec => []TurnsStartInOrder
<1>1. ControlInv => TurnsStartInOrder
  BY DEF ControlInv
<1> QED BY <1>1, ControlIsInvariant, PTL

\* An operation that has ended keeps the status it ended with: no restart, and
\* no second Begin, runs it again.
THEOREM EndedIsFinal == Spec => EndedStaysEnded
<1>1. ControlInv /\ [Next]_vars =>
          [\A o \in Requests : op_status[o] \in Ended => op_status'[o] = op_status[o]]_vars
  <2> SUFFICES ASSUME ControlInv, Next
               PROVE  \A o \in Requests : op_status[o] \in Ended => op_status'[o] = op_status[o]
    OBVIOUS
  <2>1. \/ op_status' = op_status
        \/ \E p \in Requests, status \in {"queued", "running"} \union Ended :
              op_status[p] \notin Ended /\ op_status' = [op_status EXCEPT ![p] = status]
    <3>1. CASE \E p \in Requests : SubmitText(p) \/ SubmitVoice(p)
      <4>1. PICK p \in Requests : SubmitText(p) \/ SubmitVoice(p)
        BY <3>1
      <4>2. op_status[p] = "none"
        BY <4>1, WritersApart DEF SubmitText, SubmitVoice, NewRequest, ControlInv, PlacesInv, RowsInv
      <4> QED BY <4>1, <4>2 DEF SubmitText, SubmitVoice, Ended, store
    <3>2. CASE \E p \in Requests : CreateOperation(p)
      BY <3>2 DEF CreateOperation, At, ControlInv, RowsInv, Ended
    <3>3. CASE \E p \in Requests : Begin(p)
      BY <3>3 DEF Begin, At, ControlInv, RowsInv, Ended
    <3>4. CASE \E p \in Requests : Complete(p) \/ Fail(p)
      BY <3>4 DEF Complete, Fail, End, At, ControlInv, OwnersInv, InTurn, TurnPlaces, Ended
    <3> QED BY <3>1, <3>2, <3>3, <3>4, ControlFrame DEF TurnMoves, HandlerMoves, SaveNote, StoreAudio,
                Restart, store
  <2> QED BY <2>1 DEF ControlInv, PlacesInv
<1> QED BY <1>1, ControlIsInvariant, PTL DEF Spec, EndedStaysEnded

-----------------------------------------------------------------------------
(* Rooms that are left, and copies of the draft *)

\* At the start there is nothing to plan.
LEMMA InitTodo == Init => TodoInv
BY WritersApart DEF Init, TodoInv

\* A turn that plans a room has one left to plan.
LEMMA StepTodo == ControlInv /\ TodoInv /\ [Next]_vars => TodoInv'
<1> SUFFICES ASSUME ControlInv, TodoInv, [Next]_vars PROVE TodoInv'
  OBVIOUS
<1>1. pc \in [Writers -> RequestPlaces \union HandlerPlaces] /\ Requests \subseteq Writers
  BY WritersApart DEF ControlInv, PlacesInv
<1>2. CASE \E o \in Requests : Planned(o)
  <2>1. PICK o \in Requests : Planned(o)
    BY <1>2
  <2>2. PICK p \in Plans : todo' = [todo EXCEPT ![o] = p]
    BY <2>1 DEF Planned
  <2>3. p \in Seq(Rooms) /\ p # <<>>
    <3>1. PICK n \in 1..MaxPlan : p \in [1..n -> Rooms]
      BY DEF Plans
    <3>2. n \in Nat /\ n # 0
      BY BoundsAssumption
    <3> QED BY <3>1, <3>2
  <2> QED BY <1>1, <2>1, <2>2, <2>3 DEF Planned, Goto, TodoInv
<1>3. CASE \E o \in Requests : PlanRoom(o)
  <2>1. PICK o \in Requests : PlanRoom(o)
    BY <1>3
  <2>2. /\ todo[o] \in Seq(Rooms) /\ todo[o] # <<>> /\ todo' = [todo EXCEPT ![o] = Tail(todo[o])]
        /\ pc'[o] = "room" => todo'[o] # <<>>
        /\ pc' = [pc EXCEPT ![o] = pc'[o]]
    BY <1>1, <2>1 DEF PlanRoom, At, TodoInv, NextRoom, Goto
  <2>3. Tail(todo[o]) \in Seq(Rooms)
    BY <2>2
  <2> QED BY <1>1, <2>2, <2>3 DEF TodoInv
<1>4. CASE \E o \in Requests : Complete(o) \/ Fail(o)
  <2>1. PICK o \in Requests : todo' = [todo EXCEPT ![o] = <<>>] /\ pc' = [pc EXCEPT ![o] = "end"]
    BY <1>4 DEF Complete, Fail, End, Goto
  <2> QED BY <1>1, <2>1 DEF TodoInv
<1>5. CASE Restart
  <2>1. \A w \in Writers : pc'[w] # "room"
    BY <1>5 DEF Restart
  <2> QED BY <1>1, <1>5, <2>1 DEF Restart, TodoInv
<1>6. CASE todo' = todo /\ \E w \in Writers, to \in {"save_note", "store_audio", "create", "unlink",
           "wait", "load", "hear", "transcribe", "plan", "refresh", "complete", "loaded", "idle",
           "publishing"} : pc' = [pc EXCEPT ![w] = to]
  BY <1>1, <1>6 DEF TodoInv
<1>7. CASE UNCHANGED vars
  BY <1>7 DEF vars, tasks, TodoInv
<1>8. ASSUME NEW o \in Requests,
             \/ SubmitText(o) \/ SubmitVoice(o) \/ SaveNote(o) \/ CreateOperation(o) \/ StoreAudio(o)
             \/ Begin(o) \/ Hear(o) \/ Transcribed(o) \/ Unlink(o) \/ LoadDraft(o) \/ SaveReply(o)
             \/ RefreshStatuses(o)
      PROVE  TodoInv'
  <2>1. todo' = todo /\ \E to \in {"save_note", "store_audio", "create", "unlink",
           "wait", "load", "hear", "transcribe", "plan", "refresh", "complete"} :
                             pc' = [pc EXCEPT ![o] = to]
    BY <1>8 DEF SubmitText, SubmitVoice, SaveNote, CreateOperation, StoreAudio, Schedule, Begin, Hear,
        Transcribed, Unlink, LoadDraft, SaveReply, RefreshStatuses, Goto
  <2> QED BY <1>1, <1>6, <2>1
<1>9. ASSUME NEW h \in Handlers, Handler(h) PROVE TodoInv'
  <2>1. todo' = todo /\ \E to \in {"loaded", "refresh", "idle", "publishing"} :
                             pc' = [pc EXCEPT ![h] = to]
    BY <1>9 DEF Handler, HandlerLoads, SaveReview, RefreshReview, StartPublish, EndPublish, Goto, tasks
  <2> QED BY <1>6, <2>1, WritersApart
<1> QED BY <1>2, <1>3, <1>4, <1>5, <1>7, <1>8, <1>9 DEF Next, Submit, Turn

\* Drafts, and what appending a message or replacing the items makes of them.
LEMMA DraftFacts ==
    ASSUME NEW d \in Drafts
    PROVE  /\ d # NoDraft /\ d.messages \in Messages /\ d.items \in SUBSET Items
           /\ \A o \in Requests :
                 /\ Note(o) \in {"user", "assistant"} \X Requests
                 /\ Reply(o) \in {"user", "assistant"} \X Requests
           /\ \A m \in {"user", "assistant"} \X Requests :
                 /\ WithMessage(d, m) \in Drafts
                 /\ WithMessage(d, m).messages = Append(d.messages, m)
                 /\ WithMessage(d, m).items = d.items
           /\ \A items \in SUBSET Items :
                 /\ WithItems(d, items) \in Drafts
                 /\ WithItems(d, items).messages = d.messages
                 /\ WithItems(d, items).items = items
<1>1. d # NoDraft /\ d.messages \in Messages /\ d.items \in SUBSET Items
  BY NoDraftAssumption DEF Drafts
<1>2. \A o \in Requests :
         /\ Note(o) \in {"user", "assistant"} \X Requests
         /\ Reply(o) \in {"user", "assistant"} \X Requests
  BY DEF Note, Reply
<1>3. ASSUME NEW m \in {"user", "assistant"} \X Requests
      PROVE  /\ WithMessage(d, m) \in Drafts
             /\ WithMessage(d, m).messages = Append(d.messages, m)
             /\ WithMessage(d, m).items = d.items
  <2>1. Append(d.messages, m) \in Messages
    BY <1>1 DEF Messages
  <2> QED BY <2>1 DEF Drafts, WithMessage
<1>4. ASSUME NEW items \in SUBSET Items
      PROVE  /\ WithItems(d, items) \in Drafts
             /\ WithItems(d, items).messages = d.messages
             /\ WithItems(d, items).items = items
  BY <1>4 DEF Drafts, WithItems
<1> QED BY <1>1, <1>2, <1>3, <1>4

\* What the planner and a reviewer make of line items are line items.
LEMMA ItemOperations ==
    ASSUME NEW items \in SUBSET Items
    PROVE  /\ \A room \in Rooms : PlannerResults(items, room) \subseteq SUBSET Items
           /\ \A r \in Reviews(items) :
                 /\ r.items \in SUBSET Items
                 /\ r.as \in Decisions /\ r.ids \subseteq IdsOf(items)
<1>1. ASSUME NEW room \in Rooms PROVE PlannerResults(items, room) \subseteq SUBSET Items
  <2> DEFINE kept == {items, ClearSection(items, room)}
                     \union {RemoveLineItem(items, room, code) : code \in Codes}
  <2>1. kept \subseteq SUBSET Items
    BY DEF ClearSection, RemoveLineItem
  <2>2. ASSUME NEW k \in SUBSET Items, next_id \in ItemIds
        PROVE  AddItem(k, room, next_id) \in SUBSET Items
    BY <2>2 DEF AddItem, Items, Codes
  <2> HIDE DEF kept
  <2>3. PlannerResults(items, room) =
            kept \union (IF next_id \in ItemIds THEN {AddItem(k, room, next_id) : k \in kept} ELSE {})
    BY DEF PlannerResults, kept
  <2> QED BY <2>1, <2>2, <2>3
<1>2. ASSUME NEW r \in Reviews(items)
      PROVE  r.items \in SUBSET Items /\ r.as \in Decisions /\ r.ids \subseteq IdsOf(items)
  <2>1. CASE \E id \in IdsOf(items), d \in Decisions :
                 r = [items |-> SetItemStatus(items, id, d), ids |-> {id}, as |-> d]
    BY <2>1 DEF SetItemStatus, Items
  <2>2. CASE \E id \in IdsOf(items) :
                 r = [items |-> ResolveItem(items, id), ids |-> {id}, as |-> "accepted"]
    <3>1. \A e \in Items :
              [e EXCEPT !.code = "resolved", !.status = "accepted"] \in Items
      BY DEF Items, Codes, Decisions
    <3>2. \A id : ResolveItem(items, id) \in SUBSET Items
      BY <3>1 DEF ResolveItem
    <3> QED BY <2>2, <3>2 DEF Decisions
  <2>3. CASE r = [items |-> AcceptAll(items), ids |-> IdsOf(items), as |-> "accepted"]
    BY <2>3 DEF AcceptAll, Items, Decisions
  <2> QED BY <2>1, <2>2, <2>3 DEF Reviews
<1> QED BY <1>1, <1>2

\* One writer moves on, and the other writers stay where they are.
OneMoves(w) == pc' = [pc EXCEPT ![w] = pc'[w]]

\* Nobody moves but the writer whose step it is.
LEMMA OthersStay ==
    ASSUME ControlInv, ControlInv', NEW w \in Writers, OneMoves(w)
    PROVE  /\ \A v \in Writers \ {w} : pc'[v] = pc[v]
           /\ pc' \in [Writers -> RequestPlaces \union HandlerPlaces]
BY DEF ControlInv, PlacesInv, OneMoves

\* A copy that was just loaded is fresh, and one that is dropped is none.
LEMMA LoadKeepsCopies ==
    ASSUME ControlInv, ControlInv', CopyInv,
           NEW w \in Writers, NEW d \in Drafts \union {NoDraft},
           OneMoves(w), Load(w, d), UNCHANGED <<draft, overwritten>>,
           w \in Requests => /\ pc'[w] \in CopyPlaces => d # NoDraft
                             /\ d # NoDraft => pc'[w] \in HoldPlaces,
           w \in Handlers => (pc'[w] \in {"loaded", "refresh"} => d # NoDraft),
           d # NoDraft => d = IF pc'[w] = "save_note" THEN WithMessage(draft, Note(w)) ELSE draft
    PROVE  CopyInv'
<1>1. \A v \in Writers \ {w} : pc'[v] = pc[v]
  BY OthersStay
<1>2. /\ copy' \in [Writers -> Drafts \union {NoDraft}]
      /\ copy'[w] = d /\ \A v \in Writers \ {w} : copy'[v] = copy[v]
      /\ stale' \in [Writers -> SUBSET {"note", "turn", "review"}]
      /\ stale'[w] = {} /\ \A v \in Writers \ {w} : stale'[v] = stale[v]
  BY DEF Load, CopyInv
<1>3. \A v \in Writers : v \in Requests \/ v \in Handlers
  BY WritersApart
<1>4. ASSUME NEW o \in Requests
      PROVE  /\ pc'[o] \in CopyPlaces => copy'[o] # NoDraft
             /\ copy'[o] # NoDraft => pc'[o] \in HoldPlaces
             /\ "turn" \notin stale'[o]
             /\ pc'[o] = "save_note" => "note" \notin stale'[o]
  BY <1>1, <1>2, WritersApart DEF CopyInv, LockAndLoopExclude, At
<1>5. \A h \in Handlers : pc'[h] \in {"loaded", "refresh"} => copy'[h] # NoDraft
  BY <1>1, <1>2, WritersApart DEF CopyInv
<1>6. ASSUME NEW v \in Writers, copy'[v] # NoDraft, stale'[v] = {}
      PROVE  copy'[v] = IF pc'[v] = "save_note" THEN WithMessage(draft', Note(v)) ELSE draft'
  BY <1>1, <1>2, <1>6 DEF CopyInv, Fresh
<1>7. \A v \in Writers : copy'[v] # NoDraft /\ stale'[v] = {} => copy'[v] = Fresh(v)'
  BY <1>6 DEF Fresh, WithMessage, Note
<1> QED BY <1>2, <1>4, <1>5, <1>7 DEF CopyInv, LockAndLoopExclude, At

\* A save marks the copies that others hold.  It is seen by a turn only as the
\* save of a note or of a review, and by a note about to be saved only as the
\* latter: the lock keeps two turns apart, the loop turns and submissions.
LEMMA SaveKeepsCopies ==
    ASSUME ControlInv, ControlInv', CopyInv,
           NEW w \in Writers, NEW d \in Drafts, NEW change \in {"note", "turn", "review"},
           OneMoves(w), Save(w, d, change), pc'[w] # "save_note",
           w \in Requests => OnLoop(w) /\ pc'[w] \in HoldPlaces,
           change # "review" => w \in Requests,
           change = "turn" => InTurn(w)
    PROVE  CopyInv'
<1>1. \A v \in Writers \ {w} : pc'[v] = pc[v]
  BY OthersStay
<1>2. /\ copy' \in [Writers -> Drafts \union {NoDraft}]
      /\ copy'[w] = d /\ \A v \in Writers \ {w} : copy'[v] = copy[v]
      /\ stale' \in [Writers -> SUBSET {"note", "turn", "review"}]
      /\ stale'[w] = {}
      /\ \A v \in Writers \ {w} :
            stale'[v] = IF copy[v] = NoDraft THEN {} ELSE stale[v] \union {change}
      /\ draft' = d /\ d # NoDraft
  BY DraftFacts DEF Save, CopyInv
<1>3. overwritten' \in BOOLEAN
  BY DEF Save, CopyInv
<1>4. ASSUME NEW o \in Requests, o # w, change # "review"
      PROVE  pc[o] \notin KeepPlaces
  BY <1>4, WritersApart DEF ControlInv, OwnersInv, OnLoop
<1>5. ASSUME NEW o \in Requests, o # w, change = "turn"
      PROVE  copy[o] = NoDraft
  <2>1. ~InTurn(o)
    BY <1>5 DEF ControlInv, OwnersInv
  <2>2. pc[o] \notin HoldPlaces
    BY <1>4, <1>5, <2>1 DEF HoldPlaces, InTurn, KeepPlaces
  <2> QED BY <2>2 DEF CopyInv
<1>6. ASSUME NEW o \in Requests
      PROVE  /\ pc'[o] \in CopyPlaces => copy'[o] # NoDraft
             /\ copy'[o] # NoDraft => pc'[o] \in HoldPlaces
  BY <1>1, <1>2, WritersApart DEF CopyInv
<1>7. ASSUME NEW o \in Requests
      PROVE  /\ "turn" \notin stale'[o]
             /\ pc'[o] = "save_note" => "note" \notin stale'[o]
  <2>1. CASE o = w
    BY <1>2, <2>1
  <2>2. CASE o # w
    <3>1. /\ "turn" \notin stale[o] /\ (pc[o] = "save_note" => "note" \notin stale[o])
          /\ pc'[o] = pc[o]
      BY <1>1, <2>2, WritersApart DEF CopyInv, LockAndLoopExclude, At
    <3>2. pc[o] = "save_note" => change = "review"
      BY <1>4, <2>2 DEF KeepPlaces
    <3>3. stale'[o] = IF copy[o] = NoDraft THEN {} ELSE stale[o] \union {change}
      BY <1>2, <2>2, WritersApart
    <3> QED BY <1>5, <2>2, <3>1, <3>2, <3>3
  <2> QED BY <2>1, <2>2
<1>8. \A h \in Handlers : pc'[h] \in {"loaded", "refresh"} => copy'[h] # NoDraft
  BY <1>1, <1>2, WritersApart DEF CopyInv
<1>9. \A v \in Writers : copy'[v] # NoDraft /\ stale'[v] = {} => v = w
  BY <1>2
<1>10. \A v \in Writers : copy'[v] # NoDraft /\ stale'[v] = {} => copy'[v] = Fresh(v)'
  BY <1>2, <1>9 DEF Fresh
<1> QED BY <1>2, <1>3, <1>6, <1>7, <1>8, <1>10 DEF CopyInv, LockAndLoopExclude, At

\* Steps that neither load nor save.
Rests(w) ==
    /\ OneMoves(w) /\ UNCHANGED <<draft, copy, stale, overwritten>>
    /\ "save_note" \notin {pc[w], pc'[w]}
    /\ pc'[w] \in CopyPlaces => pc[w] \in CopyPlaces
    /\ pc[w] \in HoldPlaces => pc'[w] \in HoldPlaces
    /\ pc'[w] \in {"loaded", "refresh"} => pc[w] \in {"loaded", "refresh"}

\* Steps that leave draft and copies alone keep what is said of them.
LEMMA RestKeepsCopies ==
    ASSUME ControlInv, ControlInv', CopyInv, NEW w \in Writers, Rests(w)
    PROVE  CopyInv'
<1>1. /\ \A v \in Writers \ {w} : pc'[v] = pc[v]
      /\ UNCHANGED <<draft, copy, stale, overwritten>>
  BY OthersStay DEF Rests
<1>2. \A v \in Writers : pc'[v] = "save_note" <=> pc[v] = "save_note"
  BY <1>1 DEF Rests
<1>3. ASSUME NEW v \in Writers
      PROVE  /\ pc'[v] \in CopyPlaces => pc[v] \in CopyPlaces
             /\ pc[v] \in HoldPlaces => pc'[v] \in HoldPlaces
             /\ pc'[v] \in {"loaded", "refresh"} => pc[v] \in {"loaded", "refresh"}
  BY <1>1 DEF Rests
<1>4. \A v \in Writers : Fresh(v)' = Fresh(v)
  BY <1>1, <1>2 DEF Fresh, WithMessage, Note
<1>5. LockAndLoopExclude'
  BY <1>1, <1>2, WritersApart DEF CopyInv, LockAndLoopExclude, At
<1> QED BY <1>1, <1>3, <1>4, <1>5, WritersApart DEF CopyInv

-----------------------------------------------------------------------------
(* Which steps load, save or rest *)

\* A note is appended to the copy that was just loaded.
NoteLoads(o) ==
    /\ pc[o] \in {"idle", "transcribe"} /\ pc'[o] = "save_note"
    /\ pc[o] = "idle" <=> IsMessage(o)
    /\ Load(o, WithMessage(draft, Note(o))) /\ UNCHANGED <<draft, overwritten>>

NoteSaves(o) ==
    /\ pc[o] = "save_note" /\ pc'[o] = IF IsMessage(o) THEN "create" ELSE "unlink"
    /\ Save(o, copy[o], "note")

TurnLoads(o) ==
    /\ pc[o] = "load" /\ pc'[o] = "plan"
    /\ Load(o, draft) /\ UNCHANGED <<draft, overwritten>>

TurnForgets(o) ==
    /\ pc[o] \in {"create"} \union TurnPlaces /\ pc'[o] \in {"wait", "end"}
    /\ pc'[o] = "wait" => IsMessage(o)
    /\ Forget(o) /\ UNCHANGED <<draft, overwritten>>

HandlerForgets(h) ==
    /\ pc'[h] \in {"idle", "publishing"}
    /\ Forget(h) /\ UNCHANGED <<draft, overwritten>>

\* From place to place without a look at the draft.
TurnRests(o) ==
    /\ Rests(o)
    /\ <<pc[o], pc'[o]>> \in
          {<<"plan", "room">>, <<"refresh", "complete">>} \union
          (IF IsMessage(o) THEN {<<"wait", "load">>}
           ELSE {<<"idle", "store_audio">>, <<"store_audio", "wait">>, <<"wait", "hear">>,
                 <<"hear", "transcribe">>, <<"unlink", "load">>})

CopySteps(o) ==
    \/ NoteLoads(o) \/ NoteSaves(o) \/ TurnLoads(o) \/ TurnForgets(o) \/ TurnRests(o)
    \/ PlanRoom(o) \/ SaveReply(o)

HandlerCopySteps(h) ==
    \/ HandlerLoads(h) \/ SaveReview(h) \/ HandlerForgets(h) \/ Rests(h)

\* What a step of a request does to the draft and the copies.
LEMMA RequestFrame ==
    ASSUME ControlInv, NEW o \in Requests, Submit(o) \/ Turn(o)
    PROVE  /\ OneMoves(o) /\ OnLoop(o) /\ CopySteps(o) /\ crashes' = crashes
           /\ PlanRoom(o) \/ UNCHANGED <<decided, removed, next_id>>
<1> USE DEF CopySteps, NoteLoads, NoteSaves, TurnLoads, TurnForgets, TurnRests, Rests, OneMoves,
            Goto, At, traced, store, history
<1>1. o \in Writers /\ pc \in [Writers -> RequestPlaces \union HandlerPlaces]
  BY WritersApart DEF ControlInv, PlacesInv
<1>2. /\ o = requests + 1 => pc[o] = "idle"
      /\ pc[o] = "create" => IsMessage(o)
      /\ pc[o] \in {"store_audio", "hear", "transcribe", "unlink"} => ~IsMessage(o)
  BY WritersApart DEF ControlInv, PlacesInv, RowsInv
<1>3. Kind[o] = "message" <=> IsMessage(o)
  BY DEF IsMessage
<1>4. Kind[o] = "voice_turn" <=> ~IsMessage(o)
  BY KindAssumption DEF IsMessage
<1> HIDE DEF IsMessage
<1>5. CASE SubmitText(o)
  BY <1>1, <1>2, <1>3, <1>5 DEF SubmitText, NewRequest
<1>6. CASE SubmitVoice(o)
  BY <1>1, <1>2, <1>4, <1>6 DEF SubmitVoice, NewRequest, CopyPlaces, HoldPlaces, TurnPlaces
<1>7. CASE SaveNote(o)
  BY <1>1, <1>3, <1>7 DEF SaveNote
<1>8. CASE CreateOperation(o)
  BY <1>1, <1>2, <1>8 DEF CreateOperation, Schedule
<1>9. CASE StoreAudio(o)
  BY <1>1, <1>2, <1>9 DEF StoreAudio, Schedule, CopyPlaces, HoldPlaces, TurnPlaces
<1>10. CASE Begin(o)
  BY <1>1, <1>3, <1>10 DEF Begin, CopyPlaces, HoldPlaces, TurnPlaces
<1>11. CASE Hear(o)
  BY <1>1, <1>2, <1>11 DEF Hear, CopyPlaces, HoldPlaces, TurnPlaces
<1>12. CASE Transcribed(o)
  BY <1>1, <1>2, <1>12 DEF Transcribed
<1>13. CASE Unlink(o)
  BY <1>1, <1>2, <1>13 DEF Unlink, CopyPlaces, HoldPlaces, TurnPlaces
<1>14. CASE LoadDraft(o)
  BY <1>1, <1>14 DEF LoadDraft
<1>15. CASE Planned(o)
  BY <1>1, <1>15 DEF Planned, CopyPlaces, HoldPlaces, TurnPlaces
<1>16. CASE PlanRoom(o)
  BY <1>1, <1>16 DEF PlanRoom, NextRoom
<1>17. CASE SaveReply(o)
  BY <1>1, <1>17 DEF SaveReply
<1>18. CASE RefreshStatuses(o)
  BY <1>1, <1>18 DEF RefreshStatuses, CopyPlaces, HoldPlaces, TurnPlaces
<1>19. CASE Complete(o) \/ Fail(o)
  BY <1>1, <1>19 DEF Complete, Fail, End, TurnPlaces
<1> QED BY <1>5, <1>6, <1>7, <1>8, <1>9, <1>10, <1>11, <1>12, <1>13, <1>14, <1>15, <1>16, <1>17,
           <1>18, <1>19 DEF Submit, Turn

\* What a step of a reviewer's thread does to the draft and the copies.
LEMMA HandlerFrame ==
    ASSUME ControlInv, NEW h \in Handlers, Handler(h)
    PROVE  /\ OneMoves(h) /\ HandlerCopySteps(h) /\ crashes' = crashes
           /\ SaveReview(h) \/ UNCHANGED <<decided, removed, next_id>>
<1>1. h \in Writers /\ pc \in [Writers -> RequestPlaces \union HandlerPlaces]
  BY WritersApart DEF ControlInv, PlacesInv
<1>2. CASE EndPublish(h)
  BY <1>1, <1>2 DEF EndPublish, HandlerCopySteps, Rests, OneMoves, Goto, At, traced, history,
                    CopyPlaces, HoldPlaces, TurnPlaces
<1> QED BY <1>1, <1>2 DEF Handler, HandlerCopySteps, HandlerLoads, SaveReview, RefreshReview,
           StartPublish, HandlerForgets, OneMoves, Goto, history

\* What a turn saves: items of its planner, or its reply.
LEMMA RoomIsSaved ==
    ASSUME ControlInv, TodoInv, CopyInv, NEW o \in Requests, PlanRoom(o)
    PROVE  /\ copy[o] \in Drafts /\ todo[o] \in Seq(Rooms) /\ Head(todo[o]) \in Rooms
           /\ \E items \in PlannerResults(copy[o].items, Head(todo[o])) :
                 /\ items \in SUBSET Items
                 /\ Save(o, WithItems(copy[o], items), "turn")
                 /\ removed' = removed \union (IdsOf(copy[o].items) \ IdsOf(items))
                 /\ next_id' = IF next_id \in IdsOf(items) THEN next_id + 1 ELSE next_id
           /\ pc[o] = "room" /\ pc'[o] \in {"room", "reply"} /\ UNCHANGED decided
<1>1. pc[o] = "room" /\ todo[o] \in Seq(Rooms) /\ todo[o] # <<>>
  BY DEF PlanRoom, At, TodoInv
<1>2. copy[o] \in Drafts
  BY <1>1, WritersApart DEF CopyInv, CopyPlaces
<1>3. pc'[o] \in {"room", "reply"}
  BY WritersApart DEF PlanRoom, NextRoom, Goto, ControlInv, PlacesInv
<1>4. Head(todo[o]) \in Rooms
  BY <1>1
<1>5. copy[o].items \in SUBSET Items
  BY <1>2, DraftFacts
<1>6. PlannerResults(copy[o].items, Head(todo[o])) \subseteq SUBSET Items
  BY <1>4, <1>5, ItemOperations
<1>7. /\ \E items \in PlannerResults(copy[o].items, Head(todo[o])) :
                 /\ Save(o, WithItems(copy[o], items), "turn")
                 /\ removed' = removed \union (IdsOf(copy[o].items) \ IdsOf(items))
                 /\ next_id' = IF next_id \in IdsOf(items) THEN next_id + 1 ELSE next_id
      /\ UNCHANGED decided
  BY DEF PlanRoom
<1> QED BY <1>1, <1>2, <1>3, <1>4, <1>6, <1>7

\* ... its reply is behind its messages, or was there.
LEMMA ReplyIsSaved ==
    ASSUME ControlInv, CopyInv, NEW o \in Requests, SaveReply(o)
    PROVE  /\ copy[o] \in Drafts
           /\ \E d \in Drafts :
                 /\ d = WithMessage(copy[o], Reply(o))
                    \/ (d = copy[o] /\ copy[o].messages # <<>> /\ Last(copy[o].messages) = Reply(o))
                 /\ d.items = copy[o].items /\ Save(o, d, "turn")
           /\ pc[o] = "reply" /\ pc'[o] = "refresh" /\ UNCHANGED <<decided, removed, next_id>>
<1>1. pc[o] = "reply" /\ pc'[o] = "refresh" /\ UNCHANGED <<decided, removed, next_id>>
  BY WritersApart DEF SaveReply, At, Goto, ControlInv, PlacesInv, history
<1>2. copy[o] \in Drafts
  BY <1>1, WritersApart DEF CopyInv, CopyPlaces
<1>3. PICK d \in Replied(copy[o], o) : Save(o, d, "turn")
  BY DEF SaveReply
<1>4. d = WithMessage(copy[o], Reply(o))
      \/ (d = copy[o] /\ copy[o].messages # <<>> /\ Last(copy[o].messages) = Reply(o))
  BY <1>3 DEF Replied
<1>5. d \in Drafts /\ d.items = copy[o].items
  BY <1>2, <1>4, DraftFacts
<1> QED BY <1>1, <1>2, <1>3, <1>4, <1>5

\* What a thread saves: the items of a review.
LEMMA ReviewIsSaved ==
    ASSUME ControlInv, CopyInv, NEW h \in Handlers, SaveReview(h)
    PROVE  /\ copy[h] \in Drafts
           /\ \E r \in Reviews(copy[h].items) :
                 /\ r.items \in SUBSET Items /\ r.ids \subseteq IdsOf(copy[h].items) /\ r.as \in Decisions
                 /\ Save(h, WithItems(copy[h], r.items), "review")
                 /\ decided' = [id \in ItemIds |-> IF id \in r.ids THEN r.as ELSE decided[id]]
           /\ pc[h] = "loaded" /\ pc'[h] = "refresh" /\ UNCHANGED <<removed, next_id>>
<1>1. pc[h] = "loaded" /\ pc'[h] = "refresh" /\ UNCHANGED <<removed, next_id>>
  BY WritersApart DEF SaveReview, At, Goto, ControlInv, PlacesInv
<1>2. copy[h] \in Drafts
  BY <1>1, WritersApart DEF CopyInv
<1>3. copy[h].items \in SUBSET Items
  BY <1>2, DraftFacts
<1>4. PICK r \in Reviews(copy[h].items) :
                 /\ Save(h, WithItems(copy[h], r.items), "review")
                 /\ decided' = [id \in ItemIds |-> IF id \in r.ids THEN r.as ELSE decided[id]]
  BY DEF SaveReview
<1>5. r.items \in SUBSET Items /\ r.ids \subseteq IdsOf(copy[h].items) /\ r.as \in Decisions
  BY <1>3, ItemOperations
<1> QED BY <1>1, <1>2, <1>4, <1>5

\* At the start there are no copies.
LEMMA InitCopies == Init => CopyInv
<1> SUFFICES ASSUME Init PROVE CopyInv
  OBVIOUS
<1>1. draft \in Drafts
  <2>1. <<>> \in Messages
    BY DEF Messages
  <2> QED BY <2>1 DEF Init, EmptyDraft, Drafts
<1> QED BY <1>1, WritersApart DEF Init, CopyInv, LockAndLoopExclude, At, CopyPlaces

\* Every step keeps fresh copies fresh, and turns from each other's saves.
LEMMA StepCopies == ControlInv /\ TodoInv /\ CopyInv /\ [Next]_vars => CopyInv'
<1> SUFFICES ASSUME ControlInv, TodoInv, CopyInv, [Next]_vars PROVE CopyInv'
  OBVIOUS
<1>1. ControlInv'
  BY StepControl
<1>2. ASSUME NEW o \in Requests, Submit(o) \/ Turn(o) PROVE CopyInv'
  <2>1. OneMoves(o) /\ OnLoop(o) /\ CopySteps(o) /\ o \in Writers /\ o \notin Handlers
    BY <1>2, RequestFrame, WritersApart
  <2>2. CASE NoteLoads(o)
    <3>1. WithMessage(draft, Note(o)) \in Drafts
      BY DraftFacts DEF CopyInv
    <3>2. pc'[o] \in HoldPlaces /\ WithMessage(draft, Note(o)) # NoDraft
      BY <2>2, <3>1, DraftFacts DEF NoteLoads, HoldPlaces
    <3> QED BY <1>1, <2>1, <2>2, <3>1, <3>2, LoadKeepsCopies DEF NoteLoads
  <2>3. CASE TurnLoads(o)
    <3>1. draft \in Drafts /\ draft # NoDraft
      BY DraftFacts DEF CopyInv
    <3>2. pc'[o] \in HoldPlaces
      BY <2>3 DEF TurnLoads, HoldPlaces, TurnPlaces
    <3> QED BY <1>1, <2>1, <2>3, <3>1, <3>2, LoadKeepsCopies DEF TurnLoads
  <2>4. CASE TurnForgets(o)
    <3>1. pc'[o] \notin CopyPlaces
      BY <2>4 DEF TurnForgets, CopyPlaces
    <3> QED BY <1>1, <2>1, <2>4, <3>1, LoadKeepsCopies DEF TurnForgets, Forget
  <2>5. CASE NoteSaves(o)
    <3>1. copy[o] \in Drafts
      BY <2>1, <2>5 DEF NoteSaves, CopyInv, CopyPlaces
    <3>2. pc'[o] \in HoldPlaces /\ pc'[o] # "save_note"
      BY <2>5 DEF NoteSaves, HoldPlaces, TurnPlaces
    <3> QED BY <1>1, <2>1, <2>5, <3>1, <3>2, SaveKeepsCopies DEF NoteSaves
  <2>6. CASE TurnRests(o)
    BY <1>1, <2>1, <2>6, RestKeepsCopies DEF TurnRests
  <2>7. CASE PlanRoom(o)
    <3>1. PICK items \in SUBSET Items : Save(o, WithItems(copy[o], items), "turn")
      BY <2>7, RoomIsSaved
    <3>2. WithItems(copy[o], items) \in Drafts
      BY <2>7, RoomIsSaved, DraftFacts
    <3>3. pc[o] = "room" /\ pc'[o] \in {"room", "reply"}
      BY <2>7, RoomIsSaved
    <3>4. InTurn(o) /\ pc'[o] \in HoldPlaces /\ pc'[o] # "save_note"
      BY <3>3 DEF InTurn, HoldPlaces, TurnPlaces
    <3> QED BY <1>1, <2>1, <3>1, <3>2, <3>4, SaveKeepsCopies
  <2>8. CASE SaveReply(o)
    <3>1. PICK d \in Drafts : Save(o, d, "turn")
      BY <2>8, ReplyIsSaved
    <3>2. pc[o] = "reply" /\ pc'[o] = "refresh"
      BY <2>8, ReplyIsSaved
    <3>3. InTurn(o) /\ pc'[o] \in HoldPlaces /\ pc'[o] # "save_note"
      BY <3>2 DEF InTurn, HoldPlaces, TurnPlaces
    <3> QED BY <1>1, <2>1, <3>1, <3>3, SaveKeepsCopies
  <2> QED BY <2>1, <2>2, <2>3, <2>4, <2>5, <2>6, <2>7, <2>8 DEF CopySteps
<1>3. ASSUME NEW h \in Handlers, Handler(h) PROVE CopyInv'
  <2>1. OneMoves(h) /\ HandlerCopySteps(h) /\ h \in Writers /\ h \notin Requests
    BY <1>3, HandlerFrame, WritersApart
  <2>2. pc[h] \in HandlerPlaces /\ pc'[h] \in HandlerPlaces
    BY <1>1 DEF ControlInv, PlacesInv
  <2>3. CASE HandlerLoads(h)
    <3>1. draft \in Drafts /\ draft # NoDraft
      BY DraftFacts DEF CopyInv
    <3>2. Load(h, draft) /\ UNCHANGED <<draft, overwritten>>
      BY <2>3 DEF HandlerLoads, store
    <3>3. pc'[h] # "save_note"
      BY <2>2 DEF HandlerPlaces
    <3> QED BY <1>1, <2>1, <3>1, <3>2, <3>3, LoadKeepsCopies
  <2>4. CASE SaveReview(h)
    <3>1. PICK items \in SUBSET Items : Save(h, WithItems(copy[h], items), "review")
      BY <2>4, ReviewIsSaved
    <3>2. WithItems(copy[h], items) \in Drafts
      BY <2>4, ReviewIsSaved, DraftFacts
    <3>3. pc'[h] # "save_note"
      BY <2>2 DEF HandlerPlaces
    <3> QED BY <1>1, <2>1, <3>1, <3>2, <3>3, SaveKeepsCopies
  <2>5. CASE HandlerForgets(h)
    <3>1. pc'[h] \notin {"loaded", "refresh"}
      BY <2>5 DEF HandlerForgets
    <3> QED BY <1>1, <2>1, <2>5, <3>1, LoadKeepsCopies DEF HandlerForgets, Forget
  <2>6. CASE Rests(h)
    BY <1>1, <2>1, <2>6, RestKeepsCopies
  <2> QED BY <2>1, <2>3, <2>4, <2>5, <2>6 DEF HandlerCopySteps
<1>4. CASE Restart
  <2>1. /\ \A w \in Writers : copy'[w] = NoDraft /\ stale'[w] = {}
                              /\ pc'[w] \in {"wait", "end", "idle"}
        /\ UNCHANGED <<draft, overwritten>>
        /\ copy' \in [Writers -> Drafts \union {NoDraft}]
        /\ stale' \in [Writers -> SUBSET {"note", "turn", "review"}]
    BY <1>4 DEF Restart, store
  <2> QED BY <2>1, WritersApart DEF CopyInv, LockAndLoopExclude, At, CopyPlaces
<1>5. CASE UNCHANGED vars
  BY <1>5 DEF vars, store, traced, CopyInv, LockAndLoopExclude, At, Fresh, WithMessage, Note
<1> QED BY <1>2, <1>3, <1>4, <1>5 DEF Next

-----------------------------------------------------------------------------
(* Ids *)

\* The planner keeps items as they are, drops some, and adds one under the
\* next uuid.
LEMMA PlannerKeepsIds ==
    ASSUME NEW items \in SUBSET Items, next_id \in Nat, IdsBelow(items, next_id), NEW room \in Rooms,
           NEW new \in PlannerResults(items, room)
    PROVE  /\ IdsBelow(new, IF next_id \in IdsOf(new) THEN next_id + 1 ELSE next_id)
           /\ \A e \in items : e.id \in IdsOf(new) => e \in new
<1> DEFINE kept == {items, ClearSection(items, room)}
                   \union {RemoveLineItem(items, room, code) : code \in Codes}
<1>1. \A e \in Items : e.id \in Nat
  BY IdsAssumption DEF Items
<1>2. \A k \in kept : k \subseteq items
  BY DEF ClearSection, RemoveLineItem
<1>3. new \in kept \/ \E k \in kept : new = AddItem(k, room, next_id)
  BY DEF PlannerResults
<1> HIDE DEF kept
<1>4. \A e \in items : e.id < next_id /\ e.id \in Nat
  BY <1>1 DEF IdsBelow
<1>5. CASE new \subseteq items
  <2>1. next_id \notin IdsOf(new)
    BY <1>4, <1>5 DEF IdsOf
  <2>2. IdsBelow(new, next_id)
    BY <1>5 DEF IdsBelow
  <2>3. \A e \in items : e.id \in IdsOf(new) => e \in new
    BY <1>5 DEF IdsBelow, IdsOf
  <2> QED BY <2>1, <2>2, <2>3
<1>6. CASE ~(new \subseteq items)
  <2>1. PICK k \in kept : new = AddItem(k, room, next_id)
    BY <1>2, <1>3, <1>6
  <2> DEFINE added == [id |-> next_id, room |-> room, code |-> "planned", status |-> "pending_review"]
  <2>2. k \subseteq items /\ new = k \union {added}
    BY <1>2, <1>6, <2>1 DEF AddItem
  <2>3. added.id = next_id
    OBVIOUS
  <2> HIDE DEF added
  <2>4. next_id \in IdsOf(new)
    BY <2>2, <2>3 DEF IdsOf
  <2>5. \A e, f \in new : e.id = f.id => e = f
    <3> SUFFICES ASSUME NEW e \in new, NEW f \in new, e.id = f.id PROVE e = f
      OBVIOUS
    <3>1. CASE e \in items /\ f \in items
      BY <3>1 DEF IdsBelow
    <3>2. CASE e = added \/ f = added
      <4>1. \A x \in items : x.id # next_id
        BY <1>4
      <4> QED BY <2>2, <2>3, <3>2, <4>1
    <3> QED BY <2>2, <3>1, <3>2
  <2>6. \A e \in new : e.id < next_id + 1
    <3>1. \A e \in items : e.id < next_id + 1
      BY <1>4
    <3>2. next_id < next_id + 1
      OBVIOUS
    <3> QED BY <2>2, <2>3, <3>1, <3>2
  <2>7. \A e \in items : e.id \in IdsOf(new) => e \in new
    <3> SUFFICES ASSUME NEW e \in items, NEW f \in new, e.id = f.id PROVE e \in new
      BY DEF IdsOf
    <3>1. f # added
      BY <1>4, <2>3
    <3>2. f \in items
      BY <2>2, <3>1
    <3> QED BY <3>2 DEF IdsBelow
  <2> QED BY <2>4, <2>5, <2>6, <2>7 DEF IdsBelow
<1> QED BY <1>5, <1>6

\* A review leaves ids alone; what it names has the decision, and what it does
\* not name is as it was.
LEMMA ReviewKeepsIds ==
    ASSUME NEW items \in SUBSET Items, NEW n, IdsBelow(items, n), NEW r \in Reviews(items)
    PROVE  /\ IdsBelow(r.items, n)
           /\ \A id \in r.ids : \E e \in r.items : e.id = id /\ e.status = r.as
           /\ \A e \in items : e.id \notin r.ids => e \in r.items
<1>1. ASSUME NEW id \in IdsOf(items), NEW d \in Decisions,
             r = [items |-> SetItemStatus(items, id, d), ids |-> {id}, as |-> d]
      PROVE  /\ IdsBelow(r.items, n)
             /\ \A i \in r.ids : \E e \in r.items : e.id = i /\ e.status = r.as
             /\ \A e \in items : e.id \notin r.ids => e \in r.items
  <2> DEFINE F(e) == IF e.id = id THEN [e EXCEPT !.status = d] ELSE e
  <2>1. \A e \in items : F(e).id = e.id /\ (e.id = id => F(e).status = d) /\ (e.id # id => F(e) = e)
    BY DEF Items
  <2>2. r.items = {F(e) : e \in items} /\ r.ids = {id} /\ r.as = d
    BY <1>1 DEF SetItemStatus
  <2> HIDE DEF F
  <2>3. IdsBelow(r.items, n)
    BY <2>1, <2>2 DEF IdsBelow
  <2> QED BY <2>1, <2>2, <2>3 DEF IdsOf
<1>2. ASSUME NEW id \in IdsOf(items),
             r = [items |-> ResolveItem(items, id), ids |-> {id}, as |-> "accepted"]
      PROVE  /\ IdsBelow(r.items, n)
             /\ \A i \in r.ids : \E e \in r.items : e.id = i /\ e.status = r.as
             /\ \A e \in items : e.id \notin r.ids => e \in r.items
  <2> DEFINE F(e) == IF e.id = id THEN [e EXCEPT !.code = "resolved", !.status = "accepted"] ELSE e
  <2>1. \A e \in items : /\ F(e).id = e.id
                         /\ e.id = id => F(e).status = "accepted"
                         /\ e.id # id => F(e) = e
    BY DEF Items
  <2>2. r.items = {F(e) : e \in items} /\ r.ids = {id} /\ r.as = "accepted"
    BY <1>2 DEF ResolveItem
  <2> HIDE DEF F
  <2>3. IdsBelow(r.items, n)
    BY <2>1, <2>2 DEF IdsBelow
  <2> QED BY <2>1, <2>2, <2>3 DEF IdsOf
<1>3. ASSUME r = [items |-> AcceptAll(items), ids |-> IdsOf(items), as |-> "accepted"]
      PROVE  /\ IdsBelow(r.items, n)
             /\ \A i \in r.ids : \E e \in r.items : e.id = i /\ e.status = r.as
             /\ \A e \in items : e.id \notin r.ids => e \in r.items
  <2> DEFINE F(e) == [e EXCEPT !.status = "accepted"]
  <2>1. \A e \in items : F(e).id = e.id /\ F(e).status = "accepted"
    BY DEF Items
  <2>2. r.items = {F(e) : e \in items} /\ r.ids = IdsOf(items) /\ r.as = "accepted"
    BY <1>3 DEF AcceptAll
  <2> HIDE DEF F
  <2>3. IdsBelow(r.items, n)
    BY <2>1, <2>2 DEF IdsBelow
  <2> QED BY <2>1, <2>2, <2>3 DEF IdsOf
<1> QED BY <1>1, <1>2, <1>3 DEF Reviews

\* Ids below the next uuid are below the one after it.
LEMMA IdsStayBelow ==
    ASSUME NEW items \in SUBSET Items, NEW n \in Nat, NEW m \in {n, n + 1}, IdsBelow(items, n)
    PROVE  IdsBelow(items, m)
<1>1. \A e \in items : e.id \in Nat
  BY IdsAssumption DEF Items
<1> QED BY <1>1 DEF IdsBelow

\* At the start no id is used.
LEMMA InitItems == Init => ItemsInv
BY DEF Init, ItemsInv, EmptyDraft, IdsBelow

\* Drafts that are stored or loaded have the ids of drafts that were there.
LEMMA OldIdsStay ==
    ASSUME CopyInv, CopyInv', ItemsInv, next_id' \in {next_id, next_id + 1},
           decided' \in [ItemIds -> {"none"} \union Decisions], removed' \subseteq ItemIds,
           NEW w \in Writers, \A v \in Writers \ {w} : copy'[v] = copy[v],
           IdsBelow(draft'.items, next_id) \/ IdsBelow(draft'.items, next_id'),
           \/ copy'[w] = NoDraft
           \/ IdsBelow(copy'[w].items, next_id) \/ IdsBelow(copy'[w].items, next_id')
    PROVE  ItemsInv'
<1>1. next_id \in Nat /\ next_id' \in Nat
  BY DEF ItemsInv
<1>2. draft' \in Drafts /\ draft'.items \in SUBSET Items
  <2>1. draft' \in Drafts
    BY DEF CopyInv
  <2> QED BY <2>1, DraftFacts
<1>3. IdsBelow(draft'.items, next_id')
  BY <1>1, <1>2, IdsStayBelow
<1>4. ASSUME NEW v \in Writers, copy'[v] # NoDraft PROVE IdsBelow(copy'[v].items, next_id')
  <2>1. copy'[v] \in Drafts
    BY <1>4 DEF CopyInv
  <2>2. copy'[v].items \in SUBSET Items
    BY <2>1, DraftFacts
  <2>3. IdsBelow(copy'[v].items, next_id) \/ IdsBelow(copy'[v].items, next_id')
    BY <1>4 DEF ItemsInv
  <2> QED BY <1>1, <2>2, <2>3, IdsStayBelow
<1>5. \A v \in Writers : copy'[v] # NoDraft => IdsBelow(copy'[v].items, next_id')
  BY <1>4
<1> QED BY <1>1, <1>3, <1>5 DEF ItemsInv, IdsBelow

\* Every step keeps ids unique and below the next uuid.
LEMMA StepItems == ControlInv /\ TodoInv /\ CopyInv /\ ItemsInv /\ [Next]_vars => ItemsInv'
<1> SUFFICES ASSUME ControlInv, TodoInv, CopyInv, ItemsInv, [Next]_vars PROVE ItemsInv'
  OBVIOUS
<1>1. CopyInv'
  BY StepCopies
<1>2. /\ draft \in Drafts /\ draft.items \in SUBSET Items /\ IdsBelow(draft.items, next_id)
      /\ next_id \in Nat
      /\ decided \in [ItemIds -> {"none"} \union Decisions] /\ removed \subseteq ItemIds
  BY DraftFacts DEF CopyInv, ItemsInv
<1>3. ASSUME NEW w \in Writers, copy[w] \in Drafts
      PROVE  copy[w].items \in SUBSET Items /\ IdsBelow(copy[w].items, next_id)
  BY <1>3, DraftFacts DEF ItemsInv
<1>4. ASSUME NEW w \in Writers, NEW d \in Drafts \union {NoDraft}, Load(w, d), UNCHANGED draft,
             UNCHANGED <<decided, removed, next_id>>, d = NoDraft \/ d.items = draft.items
      PROVE  ItemsInv'
  <2>1. copy'[w] = d /\ \A v \in Writers \ {w} : copy'[v] = copy[v]
    BY <1>4 DEF Load, CopyInv
  <2> QED BY <1>1, <1>2, <1>4, <2>1, OldIdsStay
<1>5. ASSUME NEW w \in Writers, NEW d \in Drafts, NEW change, Save(w, d, change),
             next_id' \in {next_id, next_id + 1},
             IdsBelow(d.items, next_id) \/ IdsBelow(d.items, next_id'),
             decided' \in [ItemIds -> {"none"} \union Decisions], removed' \subseteq ItemIds
      PROVE  ItemsInv'
  <2>1. draft' = d /\ copy'[w] = d /\ \A v \in Writers \ {w} : copy'[v] = copy[v]
    BY <1>5 DEF Save, CopyInv
  <2> QED BY <1>1, <1>5, <2>1, OldIdsStay
<1>6. ASSUME NEW o \in Requests, Submit(o) \/ Turn(o) PROVE ItemsInv'
  <2>1. CopySteps(o) /\ o \in Writers /\ (PlanRoom(o) \/ UNCHANGED <<decided, removed, next_id>>)
    BY <1>6, RequestFrame, WritersApart
  <2>2. CASE ~PlanRoom(o) /\ NoteLoads(o)
    <3>1. WithMessage(draft, Note(o)) \in Drafts /\ WithMessage(draft, Note(o)).items = draft.items
      BY <1>2, DraftFacts
    <3> QED BY <1>4, <2>1, <2>2, <3>1 DEF NoteLoads
  <2>3. CASE ~PlanRoom(o) /\ TurnLoads(o)
    BY <1>2, <1>4, <2>1, <2>3 DEF TurnLoads
  <2>4. CASE ~PlanRoom(o) /\ TurnForgets(o)
    BY <1>4, <2>1, <2>4 DEF TurnForgets, Forget
  <2>5. CASE ~PlanRoom(o) /\ NoteSaves(o)
    <3>1. copy[o] \in Drafts
      BY <2>1, <2>5 DEF NoteSaves, CopyInv, CopyPlaces
    <3> QED BY <1>2, <1>3, <1>5, <2>1, <2>5, <3>1 DEF NoteSaves
  <2>6. CASE ~PlanRoom(o) /\ TurnRests(o)
    BY <2>1, <2>6 DEF TurnRests, Rests, ItemsInv, IdsBelow
  <2>7. CASE PlanRoom(o)
    <3>1. PICK items \in PlannerResults(copy[o].items, Head(todo[o])) :
                 /\ items \in SUBSET Items
                 /\ Save(o, WithItems(copy[o], items), "turn")
                 /\ removed' = removed \union (IdsOf(copy[o].items) \ IdsOf(items))
                 /\ next_id' = IF next_id \in IdsOf(items) THEN next_id + 1 ELSE next_id
      BY <2>7, RoomIsSaved
    <3>2. copy[o] \in Drafts /\ Head(todo[o]) \in Rooms /\ decided' = decided
      BY <2>7, RoomIsSaved
    <3>3. WithItems(copy[o], items) \in Drafts /\ WithItems(copy[o], items).items = items
      BY <3>1, <3>2, DraftFacts
    <3>4. copy[o].items \in SUBSET Items /\ IdsBelow(copy[o].items, next_id)
      BY <1>3, <2>1, <3>2
    <3>5. IdsBelow(items, next_id')
      BY <1>2, <3>1, <3>2, <3>4, PlannerKeepsIds
    <3>6. IdsOf(copy[o].items) \subseteq ItemIds
      BY <3>4 DEF IdsOf, Items
    <3>7. removed' \subseteq ItemIds /\ next_id' \in {next_id, next_id + 1}
      BY <1>2, <3>1, <3>6
    <3> QED BY <1>2, <1>5, <2>1, <3>1, <3>2, <3>3, <3>5, <3>7
  <2>8. CASE ~PlanRoom(o) /\ SaveReply(o)
    <3>1. PICK d \in Drafts : d.items = copy[o].items /\ Save(o, d, "turn")
      BY <2>8, ReplyIsSaved
    <3>2. copy[o] \in Drafts
      BY <2>8, ReplyIsSaved
    <3> QED BY <1>2, <1>3, <1>5, <2>1, <2>8, <3>1, <3>2
  <2> QED BY <2>1, <2>2, <2>3, <2>4, <2>5, <2>6, <2>7, <2>8 DEF CopySteps
<1>7. ASSUME NEW h \in Handlers, Handler(h) PROVE ItemsInv'
  <2>1. HandlerCopySteps(h) /\ h \in Writers /\ (SaveReview(h) \/ UNCHANGED <<decided, removed, next_id>>)
    BY <1>7, HandlerFrame, WritersApart
  <2>2. CASE ~SaveReview(h) /\ HandlerLoads(h)
    BY <1>2, <1>4, <2>1, <2>2 DEF HandlerLoads, store
  <2>3. CASE SaveReview(h)
    <3>1. PICK r \in Reviews(copy[h].items) :
                 /\ r.items \in SUBSET Items /\ r.ids \subseteq IdsOf(copy[h].items) /\ r.as \in Decisions
                 /\ Save(h, WithItems(copy[h], r.items), "review")
                 /\ decided' = [id \in ItemIds |-> IF id \in r.ids THEN r.as ELSE decided[id]]
      BY <2>3, ReviewIsSaved
    <3>2. copy[h] \in Drafts /\ UNCHANGED <<removed, next_id>>
      BY <2>3, ReviewIsSaved
    <3>3. WithItems(copy[h], r.items) \in Drafts /\ WithItems(copy[h], r.items).items = r.items
      BY <3>1, <3>2, DraftFacts
    <3>4. copy[h].items \in SUBSET Items /\ IdsBelow(copy[h].items, next_id)
      BY <1>3, <2>1, <3>2
    <3>5. IdsBelow(r.items, next_id)
      BY <3>4, ReviewKeepsIds
    <3>6. decided' \in [ItemIds -> {"none"} \union Decisions]
      BY <1>2, <3>1
    <3> QED BY <1>2, <1>5, <2>1, <3>1, <3>2, <3>3, <3>5, <3>6
  <2>4. CASE ~SaveReview(h) /\ HandlerForgets(h)
    BY <1>4, <2>1, <2>4 DEF HandlerForgets, Forget
  <2>5. CASE ~SaveReview(h) /\ Rests(h)
    BY <2>1, <2>5 DEF Rests, ItemsInv, IdsBelow
  <2> QED BY <2>1, <2>2, <2>3, <2>4, <2>5 DEF HandlerCopySteps
<1>8. CASE Restart
  BY <1>2, <1>8 DEF Restart, store, ItemsInv, IdsBelow
<1>9. CASE UNCHANGED vars
  BY <1>9 DEF vars, store, history, ItemsInv, IdsBelow
<1> QED BY <1>6, <1>7, <1>8, <1>9 DEF Next

-----------------------------------------------------------------------------
(* Notes *)

\* Once more than before, or as often, when a message is appended.
LEMMA TimesAppended ==
    ASSUME NEW d \in Drafts, NEW m, NEW n \in {"user", "assistant"} \X Requests
    PROVE  /\ Times(d, m) \in Nat
           /\ Times(WithMessage(d, n), m) = Times(d, m) + (IF n = m THEN 1 ELSE 0)
<1> DEFINE list == d.messages
           long == Append(list, n)
           D == {i \in DOMAIN list : list[i] = m}
           E == {i \in DOMAIN long : long[i] = m}
<1>1. list \in Messages /\ WithMessage(d, n).messages = long
  BY DraftFacts
<1> HIDE DEF list
<1>2. /\ Len(list) \in Nat /\ DOMAIN list = 1..Len(list) /\ DOMAIN long = 1..(Len(list) + 1)
      /\ \A i \in 1..Len(list) : long[i] = list[i]
      /\ long[Len(list) + 1] = n
  BY <1>1 DEF Messages
<1> HIDE DEF long
<1>3. IsFiniteSet(D) /\ Cardinality(D) \in Nat
  <2>1. IsFiniteSet(1..Len(list))
    BY <1>2, FS_Interval
  <2>2. D \subseteq 1..Len(list)
    BY <1>2
  <2>3. IsFiniteSet(D)
    BY <2>1, <2>2, FS_Subset
  <2> QED BY <2>3, FS_CardinalityType
<1>4. E = IF n = m THEN D \union {Len(list) + 1} ELSE D
  <2>1. \A i : i \in 1..(Len(list) + 1) <=> (i \in 1..Len(list) \/ i = Len(list) + 1)
    BY <1>2
  <2> QED BY <1>2, <2>1
<1>5. Len(list) + 1 \notin D
  BY <1>2
<1>6. Cardinality(D \union {Len(list) + 1}) = Cardinality(D) + 1
  BY <1>3, <1>5, FS_AddElement
<1>7. Times(d, m) = Cardinality(D) /\ Times(WithMessage(d, n), m) = Cardinality(E)
  BY <1>1 DEF Times, list
<1> HIDE DEF D, E
<1> QED BY <1>3, <1>4, <1>6, <1>7

\* Line items do not matter to messages.
LEMMA TimesWithItems ==
    ASSUME NEW d \in Drafts, NEW items \in SUBSET Items, NEW m
    PROVE  Times(WithItems(d, items), m) = Times(d, m)
BY DraftFacts DEF Times

\* At the start no note is there.
LEMMA InitNotes == Init => NotesInv
<1> SUFFICES ASSUME Init PROVE NotesInv
  OBVIOUS
<1>1. \A m : Times(draft, m) = 0
  <2>1. \A m : {i \in DOMAIN draft.messages : draft.messages[i] = m} = {}
    BY DEF Init, EmptyDraft
  <2> QED BY <2>1, FS_EmptySet DEF Times
<1>2. \A o \in Requests : Most(o) = 0
  BY WritersApart DEF Init, Most, EarlierRuns, Unwritten
<1> QED BY <1>1, <1>2 DEF Init, NotesInv

\* What is to be shown of a step of one writer.
LEMMA NotesStay ==
    ASSUME ControlInv, ControlInv', CopyInv, NotesInv, NEW w \in Writers, OneMoves(w), crashes' = crashes,
           \A v \in Writers \ {w} : copy'[v] = copy[v],
           w \in Requests => (Unwritten(w) \/ Writing(w) \/ (~Unwritten(w)' /\ ~Writing(w)')),
           \A o \in Requests : Times(draft', Note(o)) <= Most(o)',
           copy'[w] # NoDraft => \A o \in Requests : Times(copy'[w], Note(o)) <= MostIn(w, o)'
    PROVE  NotesInv'
<1>1. \A v \in Writers \ {w} : pc'[v] = pc[v]
  BY OthersStay
<1>2. crashes \in Nat
  BY DEF NotesInv
<1>3. \A o \in Requests : Most(o) \in Int /\ Most(o)' \in Int /\ Most(o) <= Most(o)'
  BY <1>1, <1>2, WritersApart DEF Most, EarlierRuns, Unwritten, Writing, IsMessage
<1>4. \A o \in Requests : o # w => MostIn(o, o)' = MostIn(o, o)
  BY <1>1, WritersApart DEF MostIn, Most, EarlierRuns, Unwritten, Writing, IsMessage
<1>5. \A o \in Requests, v \in Writers : v # o => MostIn(v, o) = Most(o) /\ MostIn(v, o)' = Most(o)'
  BY <1>3 DEF MostIn
<1>6. ASSUME NEW o \in Requests, NEW v \in Writers \ {w}, copy'[v] # NoDraft
      PROVE  Times(copy'[v], Note(o)) <= MostIn(v, o)'
  <2>1. copy'[v] = copy[v] /\ copy[v] \in Drafts /\ Times(copy[v], Note(o)) <= MostIn(v, o)
    BY <1>6 DEF NotesInv, CopyInv
  <2>2. Times(copy[v], Note(o)) \in Nat
    BY <2>1, TimesAppended, DraftFacts
  <2>3. CASE v = o
    BY <1>4, <2>1, <2>3
  <2>4. CASE v # o
    BY <1>3, <1>5, <2>1, <2>2, <2>4
  <2> QED BY <2>3, <2>4
<1>7. \A o \in Requests, v \in Writers : copy'[v] # NoDraft => Times(copy'[v], Note(o)) <= MostIn(v, o)'
  BY <1>6
<1>8. crashes' \in Nat
  BY <1>2
<1> QED BY <1>7, <1>8 DEF NotesInv, Note, Times

\* No step makes a note more frequent than its runs account for.
LEMMA StepNotes == ControlInv /\ TodoInv /\ CopyInv /\ NotesInv /\ [Next]_vars => NotesInv'
<1> SUFFICES ASSUME ControlInv, TodoInv, CopyInv, NotesInv, [Next]_vars PROVE NotesInv'
  OBVIOUS
<1>1. ControlInv' /\ crashes \in Nat /\ draft \in Drafts
  BY StepControl DEF NotesInv, CopyInv
<1>2. \A o, p \in Requests : (Note(o) = Note(p) => o = p) /\ Reply(p) # Note(o)
  BY DEF Note, Reply
<1>3. \A d \in Drafts, o \in Requests : Times(d, Note(o)) \in Nat
  BY TimesAppended, DraftFacts
<1>4. ASSUME NEW o \in Requests, Submit(o) \/ Turn(o) PROVE NotesInv'
  <2>1. OneMoves(o) /\ CopySteps(o) /\ crashes' = crashes /\ o \in Writers
    BY <1>4, RequestFrame, WritersApart
  <2>2. \A v \in Writers \ {o} : pc'[v] = pc[v]
    BY <1>1, <2>1, OthersStay
  <2>3. \A p \in Requests \ {o} : Most(p)' = Most(p) /\ MostIn(o, p) = Most(p) /\ MostIn(o, p)' = Most(p)
    BY <1>1, <2>1, <2>2, WritersApart DEF MostIn, Most, EarlierRuns, Unwritten, Writing, IsMessage
  <2>4. Most(o) \in Int /\ MostIn(o, o) \in Int
    BY <1>1 DEF MostIn, Most, EarlierRuns
  <2>5. \A p \in Requests : Times(draft, Note(p)) <= Most(p)
    BY DEF NotesInv
  <2>6. copy[o] # NoDraft => copy[o] \in Drafts /\ \A p \in Requests : Times(copy[o], Note(p)) <= MostIn(o, p)
    BY <2>1 DEF NotesInv, CopyInv
  \* The note is not written on, and nothing that is loaded or saved has it once more.
  <2>7. ASSUME Unwritten(o) \/ Writing(o) \/ (~Unwritten(o)' /\ ~Writing(o)'),
               ~Writing(o), ~Writing(o)', UNCHANGED draft \/ copy[o] # NoDraft,
               \A v \in Writers \ {o} : copy'[v] = copy[v],
               \A p \in Requests :
                  \/ Times(draft', Note(p)) = Times(draft, Note(p))
                  \/ copy[o] # NoDraft /\ Times(draft', Note(p)) = Times(copy[o], Note(p)),
               \/ copy'[o] = NoDraft \/ copy'[o] = draft' \/ copy'[o] = copy[o]
        PROVE  NotesInv'
    <3>1. Most(o)' \in Int /\ Most(o) <= Most(o)' /\ MostIn(o, o) = Most(o) /\ MostIn(o, o)' = Most(o)'
      BY <1>1, <2>1, <2>7 DEF MostIn, Most, EarlierRuns, IsMessage
    <3>2. \A p \in Requests : Most(p) \in Int /\ Most(p)' \in Int /\ Most(p) <= Most(p)'
                              /\ MostIn(o, p) = Most(p) /\ MostIn(o, p)' = Most(p)'
      <4> TAKE p \in Requests
      <4>1. Most(p) \in Int
        BY <1>1 DEF Most, EarlierRuns
      <4> QED BY <2>3, <3>1, <4>1
    <3>3. \A p \in Requests : Times(draft', Note(p)) <= Most(p)'
      BY <1>1, <1>3, <2>5, <2>6, <2>7, <3>2
    <3>4. copy'[o] # NoDraft => \A p \in Requests : Times(copy'[o], Note(p)) <= MostIn(o, p)'
      BY <1>3, <2>6, <2>7, <3>2, <3>3
    <3> QED BY <1>1, <2>1, <2>7, <3>3, <3>4, NotesStay
  <2>8. CASE NoteLoads(o)
    <3>1. /\ Unwritten(o) /\ ~Writing(o) /\ Writing(o)' /\ ~Unwritten(o)'
          /\ draft' = draft /\ copy'[o] = WithMessage(draft, Note(o))
          /\ \A v \in Writers \ {o} : copy'[v] = copy[v]
      BY <2>1, <2>8 DEF NoteLoads, Load, CopyInv, Unwritten, Writing, IsMessage
    <3>2. Most(o)' = Most(o) /\ MostIn(o, o)' = Most(o) + 1
      BY <1>1, <2>1, <3>1 DEF MostIn, Most, EarlierRuns, IsMessage
    <3>3. \A p \in Requests : Times(draft', Note(p)) <= Most(p)'
      BY <2>3, <2>5, <3>1, <3>2
    <3>4. \A p \in Requests : Times(copy'[o], Note(p)) <= MostIn(o, p)'
      <4> TAKE p \in Requests
      <4>1. Note(o) \in {"user", "assistant"} \X Requests
        BY <1>1, DraftFacts
      <4>2. Times(copy'[o], Note(p)) = Times(draft, Note(p)) + (IF o = p THEN 1 ELSE 0)
        BY <1>1, <1>2, <3>1, <4>1, TimesAppended
      <4>3. Times(draft, Note(p)) \in Nat
        BY <1>1, <1>3
      <4> QED BY <2>3, <2>4, <2>5, <3>2, <4>2, <4>3
    <3> QED BY <1>1, <2>1, <3>1, <3>3, <3>4, NotesStay
  <2>9. CASE NoteSaves(o)
    <3>1. /\ Writing(o) /\ ~Writing(o)' /\ ~Unwritten(o)' /\ ~Unwritten(o)
          /\ draft' = copy[o] /\ copy'[o] = copy[o] /\ copy[o] # NoDraft
          /\ \A v \in Writers \ {o} : copy'[v] = copy[v]
      BY <2>1, <2>9 DEF NoteSaves, Save, CopyInv, CopyPlaces, Unwritten, Writing, IsMessage
    <3>2. Most(o)' = MostIn(o, o) /\ MostIn(o, o)' = Most(o)'
      BY <1>1, <2>1, <3>1 DEF MostIn, Most, EarlierRuns, IsMessage
    <3>3. \A p \in Requests : Times(draft', Note(p)) <= Most(p)' /\ MostIn(o, p)' = Most(p)'
      BY <2>3, <2>6, <3>1, <3>2
    <3> QED BY <1>1, <2>1, <3>1, <3>3, NotesStay
  <2>10. CASE TurnLoads(o) \/ TurnForgets(o)
    <3>1. /\ draft' = draft /\ copy'[o] \in {draft, NoDraft}
          /\ \A v \in Writers \ {o} : copy'[v] = copy[v]
          /\ ~Writing(o) /\ ~Writing(o)'
          /\ Unwritten(o) \/ Writing(o) \/ (~Unwritten(o)' /\ ~Writing(o)')
      BY <2>1, <2>10 DEF TurnLoads, TurnForgets, Forget, Load, CopyInv, Unwritten, Writing, IsMessage,
                         TurnPlaces
    <3> QED BY <2>7, <3>1
  <2>11. CASE TurnRests(o)
    <3>1. draft' = draft /\ copy' = copy /\ ~Writing(o) /\ ~Writing(o)'
      BY <2>11 DEF TurnRests, Rests, Writing
    <3>2. Unwritten(o) \/ Writing(o) \/ (~Unwritten(o)' /\ ~Writing(o)')
      BY <2>11 DEF TurnRests, Unwritten, Writing, IsMessage
    <3> QED BY <2>7, <3>1, <3>2
  <2>12. CASE PlanRoom(o) \/ SaveReply(o)
    <3>1. \E d \in Drafts : /\ Save(o, d, "turn")
                            /\ \A p \in Requests : Times(d, Note(p)) = Times(copy[o], Note(p))
      <4>1. CASE PlanRoom(o)
        <5>1. PICK items \in SUBSET Items : Save(o, WithItems(copy[o], items), "turn")
          BY <4>1, RoomIsSaved
        <5>2. copy[o] \in Drafts
          BY <4>1, RoomIsSaved
        <5>3. WithItems(copy[o], items) \in Drafts
          BY <5>2, DraftFacts
        <5>4. \A p \in Requests : Times(WithItems(copy[o], items), Note(p)) = Times(copy[o], Note(p))
          BY <5>2, TimesWithItems
        <5> QED BY <5>1, <5>3, <5>4
      <4>2. CASE SaveReply(o)
        <5>1. PICK d \in Drafts : /\ Save(o, d, "turn")
                                  /\ d = WithMessage(copy[o], Reply(o)) \/ d = copy[o]
          BY <4>2, ReplyIsSaved
        <5>2. copy[o] \in Drafts
          BY <4>2, ReplyIsSaved
        <5>3. Reply(o) \in {"user", "assistant"} \X Requests
          BY <5>2, DraftFacts
        <5>4. \A p \in Requests : Times(WithMessage(copy[o], Reply(o)), Note(p)) = Times(copy[o], Note(p))
          <6> TAKE p \in Requests
          <6>1. Times(copy[o], Note(p)) \in Nat
            BY <1>3, <5>2
          <6>2. Times(WithMessage(copy[o], Reply(o)), Note(p)) =
                    Times(copy[o], Note(p)) + (IF Reply(o) = Note(p) THEN 1 ELSE 0)
            BY <5>2, <5>3, TimesAppended
          <6>3. Reply(o) # Note(p)
            BY <1>2
          <6> QED BY <6>1, <6>2, <6>3
        <5> QED BY <5>1, <5>4
      <4> QED BY <2>12, <4>1, <4>2
    <3>2. PICK d \in Drafts : /\ Save(o, d, "turn")
                              /\ \A p \in Requests : Times(d, Note(p)) = Times(copy[o], Note(p))
      BY <3>1
    <3>3. pc[o] \in {"room", "reply"} /\ pc'[o] \in {"room", "reply", "refresh"}
      BY <2>12, RoomIsSaved, ReplyIsSaved
    <3>4. copy[o] # NoDraft
      BY <3>3 DEF CopyInv, CopyPlaces
    <3>5. ~Writing(o) /\ ~Writing(o)' /\ ~Unwritten(o)'
      BY <3>3 DEF Writing, Unwritten, IsMessage
    <3>6. draft' = d /\ copy'[o] = d /\ \A v \in Writers \ {o} : copy'[v] = copy[v]
      BY <2>1, <3>2 DEF Save, CopyInv
    <3> QED BY <2>7, <3>2, <3>4, <3>5, <3>6
  <2> QED BY <2>1, <2>8, <2>9, <2>10, <2>11, <2>12 DEF CopySteps
<1>5. ASSUME NEW h \in Handlers, Handler(h) PROVE NotesInv'
  <2>1. OneMoves(h) /\ HandlerCopySteps(h) /\ crashes' = crashes /\ h \in Writers /\ h \notin Requests
    BY <1>5, HandlerFrame, WritersApart
  <2>2. \A o \in Requests : pc'[o] = pc[o] /\ o # h
    BY <1>1, <2>1, OthersStay, WritersApart
  <2>3. \A o \in Requests : Most(o)' = Most(o) /\ MostIn(h, o)' = Most(o) /\ MostIn(h, o) = Most(o)
    BY <1>1, <2>1, <2>2 DEF MostIn, Most, EarlierRuns, Unwritten, Writing, IsMessage
  <2>4. \A o \in Requests : Times(draft, Note(o)) <= Most(o)
    BY DEF NotesInv
  <2>5. copy[h] # NoDraft => \A o \in Requests : Times(copy[h], Note(o)) <= Most(o)
    BY <2>1, <2>3 DEF NotesInv
  <2>6. CASE HandlerLoads(h) \/ HandlerForgets(h) \/ Rests(h)
    <3>1. /\ draft' = draft /\ copy'[h] \in {draft, NoDraft, copy[h]}
          /\ \A v \in Writers \ {h} : copy'[v] = copy[v]
      BY <2>1, <2>6 DEF HandlerLoads, HandlerForgets, Rests, Forget, Load, CopyInv, store
    <3> QED BY <1>1, <2>1, <2>3, <2>4, <2>5, <3>1, NotesStay
  <2>7. CASE SaveReview(h)
    <3>1. PICK items \in SUBSET Items : Save(h, WithItems(copy[h], items), "review")
      BY <2>7, ReviewIsSaved
    <3>2. copy[h] \in Drafts /\ copy[h] # NoDraft
      BY <2>7, ReviewIsSaved, DraftFacts
    <3>3. \A o \in Requests : Times(WithItems(copy[h], items), Note(o)) = Times(copy[h], Note(o))
      BY <3>2, TimesWithItems
    <3>4. /\ draft' = WithItems(copy[h], items) /\ copy'[h] = WithItems(copy[h], items)
          /\ \A v \in Writers \ {h} : copy'[v] = copy[v]
      BY <2>1, <3>1 DEF Save, CopyInv
    <3> QED BY <1>1, <2>1, <2>3, <2>5, <3>2, <3>3, <3>4, NotesStay
  <2> QED BY <2>1, <2>6, <2>7 DEF HandlerCopySteps
<1>6. CASE Restart
  <2>1. /\ draft' = draft /\ crashes' = crashes + 1
        /\ \A w \in Writers : copy'[w] = NoDraft /\ pc'[w] \in {"wait", "end", "idle"}
    BY <1>6 DEF Restart, store
  <2>2. \A o \in Requests : pc'[o] = "idle" => pc[o] = "idle"
    <3> SUFFICES ASSUME NEW o \in Requests, pc'[o] = "idle" PROVE pc[o] = "idle"
      OBVIOUS
    <3>1. o \notin 1..requests /\ requests \in Nat
      BY <1>6, WritersApart DEF Restart, ControlInv, PlacesInv
    <3>2. o > requests
      BY <3>1, WritersApart
    <3> QED BY <3>2 DEF ControlInv, RowsInv
  <2>3. \A o \in Requests : Most(o) \in Int /\ Most(o)' \in Int /\ Most(o) <= Most(o)'
    BY <1>1, <2>1, <2>2, WritersApart DEF Most, EarlierRuns, Unwritten, Writing, IsMessage
  <2>4. \A o \in Requests : Times(draft', Note(o)) <= Most(o)'
    BY <1>1, <1>3, <2>1, <2>3 DEF NotesInv
  <2>5. crashes' \in Nat
    BY <1>1, <2>1
  <2> QED BY <2>1, <2>4, <2>5 DEF NotesInv, Times, Note
<1>7. CASE UNCHANGED vars
  <2>1. \A o \in Requests : Most(o)' = Most(o) /\ \A w \in Writers : MostIn(w, o)' = MostIn(w, o)
    BY <1>7 DEF vars, history, MostIn, Most, EarlierRuns, Unwritten, Writing, IsMessage
  <2> QED BY <1>7, <2>1 DEF vars, store, history, NotesInv, Times, Note
<1> QED BY <1>4, <1>5, <1>6, <1>7 DEF Next

-----------------------------------------------------------------------------
(* What is kept *)

\* As long as nothing is overwritten, what is saved was made of what is there.
LEMMA SavedOverTheSame ==
    ASSUME CopyInv, NEW w \in Writers, NEW d, NEW change, Save(w, d, change), ~overwritten',
           copy[w] # NoDraft
    PROVE  ~overwritten /\ copy[w] = Fresh(w) /\ draft' = d
<1>1. ~overwritten /\ stale[w] = {}
  BY DEF Save, CopyInv
<1> QED BY <1>1 DEF Save, CopyInv

\* A message is kept when it is there at least once.
LEMMA KeptTimes ==
    ASSUME NEW m
    PROVE  (Kept(m) <=> Times(draft, m) > 0) /\ (Kept(m)' <=> Times(draft', m) > 0)
BY DEF Kept, CountOf, Times

\* Then no message is lost, and a note that is saved or a reply is kept.
LEMMA MessagesStay ==
    ASSUME ControlInv, TodoInv, CopyInv, Next, ~overwritten'
    PROVE  /\ ~overwritten
           /\ \A m : Kept(m) => Kept(m)'
           /\ \A o \in Requests : Submit(o) \/ Turn(o) =>
                 /\ NoteSaves(o) => Kept(Note(o))'
                 /\ SaveReply(o) => Kept(Reply(o))'
<1>1. draft \in Drafts
  BY DEF CopyInv
<1>2. ASSUME NEW d \in Drafts, NEW n \in {"user", "assistant"} \X Requests, NEW m
      PROVE  /\ Times(d, m) > 0 => Times(WithMessage(d, n), m) > 0
             /\ Times(WithMessage(d, n), n) > 0
  <2>1. /\ Times(d, m) \in Nat /\ Times(d, n) \in Nat
        /\ Times(WithMessage(d, n), m) = Times(d, m) + (IF n = m THEN 1 ELSE 0)
        /\ Times(WithMessage(d, n), n) = Times(d, n) + 1
    BY TimesAppended
  <2> QED BY <2>1
<1>3. ASSUME UNCHANGED <<draft, overwritten>>
      PROVE  ~overwritten /\ \A m : Kept(m) => Kept(m)'
  BY <1>3 DEF Kept, CountOf, CopyInv
<1>4. ASSUME NEW o \in Requests, NoteSaves(o)
      PROVE  ~overwritten /\ Kept(Note(o))' /\ \A m : Kept(m) => Kept(m)'
  <2>1. pc[o] = "save_note" /\ copy[o] # NoDraft /\ Save(o, copy[o], "note") /\ o \in Writers
    BY <1>4, WritersApart DEF NoteSaves, CopyInv, CopyPlaces
  <2>2. ~overwritten /\ copy[o] = Fresh(o) /\ draft' = copy[o]
    BY <2>1, SavedOverTheSame
  <2>3. draft' = WithMessage(draft, Note(o))
    BY <2>1, <2>2 DEF Fresh
  <2>4. Note(o) \in {"user", "assistant"} \X Requests
    BY <1>1, DraftFacts
  <2>5. Times(draft', Note(o)) > 0 /\ \A m : Times(draft, m) > 0 => Times(draft', m) > 0
    BY <1>1, <1>2, <2>3, <2>4
  <2>6. \A m : Kept(m) => Kept(m)'
    BY <2>5, KeptTimes
  <2>7. Kept(Note(o))'
    BY <2>5 DEF Kept, CountOf, Times, Note
  <2> QED BY <2>2, <2>6, <2>7
<1>5. ASSUME NEW o \in Requests, PlanRoom(o)
      PROVE  ~overwritten /\ \A m : Kept(m) => Kept(m)'
  <2>1. PICK items \in SUBSET Items : Save(o, WithItems(copy[o], items), "turn")
    BY <1>5, RoomIsSaved
  <2>2. copy[o] \in Drafts /\ pc[o] = "room" /\ o \in Writers /\ copy[o] # NoDraft
    BY <1>5, RoomIsSaved, WritersApart, DraftFacts
  <2>3. ~overwritten /\ copy[o] = draft /\ draft' = WithItems(draft, items)
    BY <2>1, <2>2, SavedOverTheSame DEF Fresh
  <2> QED BY <1>1, <2>3, TimesWithItems, KeptTimes
<1>6. ASSUME NEW o \in Requests, SaveReply(o)
      PROVE  ~overwritten /\ Kept(Reply(o))' /\ \A m : Kept(m) => Kept(m)'
  <2>1. PICK d \in Drafts :
            /\ d = WithMessage(copy[o], Reply(o))
               \/ (d = copy[o] /\ copy[o].messages # <<>> /\ Last(copy[o].messages) = Reply(o))
            /\ Save(o, d, "turn")
    BY <1>6, ReplyIsSaved
  <2>2. copy[o] \in Drafts /\ pc[o] = "reply" /\ o \in Writers /\ copy[o] # NoDraft
    BY <1>6, ReplyIsSaved, WritersApart, DraftFacts
  <2>3. ~overwritten /\ copy[o] = draft /\ draft' = d
    BY <2>1, <2>2, SavedOverTheSame DEF Fresh
  <2>4. Reply(o) \in {"user", "assistant"} \X Requests
    BY <1>1, DraftFacts
  <2>5. Times(draft', Reply(o)) > 0 /\ \A m : Times(draft, m) > 0 => Times(draft', m) > 0
    <3>1. CASE d = WithMessage(copy[o], Reply(o))
      BY <1>1, <1>2, <2>3, <2>4, <3>1
    <3>2. CASE d = copy[o] /\ copy[o].messages # <<>> /\ Last(copy[o].messages) = Reply(o)
      <4> DEFINE list == draft.messages
                 D == {i \in DOMAIN list : list[i] = Reply(o)}
      <4>1. list \in Messages /\ list # <<>> /\ Last(list) = Reply(o)
        BY <1>1, <2>3, <3>2, DraftFacts
      <4>2. Len(list) \in DOMAIN list /\ list[Len(list)] = Reply(o) /\ Len(list) \in Nat
            /\ DOMAIN list = 1..Len(list)
        <5> HIDE DEF list
        <5> QED BY <4>1 DEF Messages, Last
      <4>3. D # {}
        BY <4>2
      <4>4. IsFiniteSet(1..Len(list))
        BY <4>2, FS_Interval
      <4>5. D \subseteq 1..Len(list)
        BY <4>2
      <4> HIDE DEF D
      <4>6. IsFiniteSet(D) /\ Cardinality(D) \in Nat /\ Cardinality(D) # 0
        BY <4>3, <4>4, <4>5, FS_Subset, FS_CardinalityType, FS_EmptySet
      <4>7. Times(draft, Reply(o)) = Cardinality(D)
        BY DEF Times, D
      <4> QED BY <2>3, <3>2, <4>6, <4>7
    <3> QED BY <2>1, <3>1, <3>2
  <2>6. \A m : Kept(m) => Kept(m)'
    BY <2>5, KeptTimes
  <2>7. Kept(Reply(o))'
    BY <2>5 DEF Kept, CountOf, Times, Reply
  <2> QED BY <2>3, <2>6, <2>7
<1>7. ASSUME NEW o \in Requests, Submit(o) \/ Turn(o)
      PROVE  /\ ~overwritten /\ \A m : Kept(m) => Kept(m)'
             /\ NoteSaves(o) => Kept(Note(o))'
             /\ SaveReply(o) => Kept(Reply(o))'
  <2>1. CopySteps(o)
    BY <1>7, RequestFrame
  <2>2. UNCHANGED <<draft, overwritten>> \/ NoteSaves(o) \/ PlanRoom(o) \/ SaveReply(o)
    BY <2>1 DEF CopySteps, NoteLoads, TurnLoads, TurnForgets, TurnRests, Rests
  <2> QED BY <1>3, <1>4, <1>5, <1>6, <2>2, WritersApart
<1>8. ASSUME NEW h \in Handlers, Handler(h) PROVE ~overwritten /\ \A m : Kept(m) => Kept(m)'
  <2>1. UNCHANGED <<draft, overwritten>> \/ SaveReview(h)
    BY <1>8, HandlerFrame DEF HandlerCopySteps, HandlerLoads, HandlerForgets, Rests, store
  <2>2. CASE SaveReview(h)
    <3>1. PICK items \in SUBSET Items : Save(h, WithItems(copy[h], items), "review")
      BY <2>2, ReviewIsSaved
    <3>2. copy[h] \in Drafts /\ pc[h] = "loaded" /\ h \in Writers /\ copy[h] # NoDraft
      BY <2>2, ReviewIsSaved, WritersApart, DraftFacts
    <3>3. ~overwritten /\ copy[h] = draft /\ draft' = WithItems(draft, items)
      BY <3>1, <3>2, SavedOverTheSame DEF Fresh
    <3> QED BY <1>1, <3>3, TimesWithItems, KeptTimes
  <2> QED BY <1>3, <2>1, <2>2, WritersApart
<1>9. ASSUME Restart PROVE ~overwritten /\ \A m : Kept(m) => Kept(m)'
  <2>1. UNCHANGED <<draft, overwritten>>
    BY <1>9 DEF Restart, store
  <2> QED BY <1>3, <2>1
<1>10. CASE \E o \in Requests : Submit(o) \/ Turn(o)
  BY <1>7, <1>10
<1>11. ~overwritten /\ \A m : Kept(m) => Kept(m)'
  BY <1>8, <1>9, <1>10, <1>7 DEF Next
<1> QED BY <1>7, <1>11

\* ... and the last decision on an item stays, unless a turn takes the item out.
LEMMA DecisionsStay ==
    ASSUME ControlInv, TodoInv, CopyInv, ItemsInv, Next, ~overwritten', DecisionsAreKept
    PROVE  DecisionsAreKept'
<1>1. ASSUME draft'.items = draft.items, UNCHANGED <<decided, removed>>
      PROVE  DecisionsAreKept'
  BY <1>1 DEF DecisionsAreKept
<1>2. ASSUME NEW o \in Requests, Submit(o) \/ Turn(o) PROVE DecisionsAreKept'
  <2>1. CopySteps(o) /\ o \in Writers /\ (PlanRoom(o) \/ UNCHANGED <<decided, removed, next_id>>)
    BY <1>2, RequestFrame, WritersApart
  <2>2. CASE ~PlanRoom(o) /\ UNCHANGED draft
    BY <1>1, <2>1, <2>2
  <2>3. CASE ~PlanRoom(o) /\ NoteSaves(o)
    <3>1. pc[o] = "save_note" /\ copy[o] # NoDraft /\ Save(o, copy[o], "note")
      BY <2>3 DEF NoteSaves, CopyInv, CopyPlaces
    <3>2. draft' = WithMessage(draft, Note(o))
      BY <2>1, <3>1, SavedOverTheSame DEF Fresh
    <3>3. draft'.items = draft.items
      BY <3>2, DraftFacts DEF CopyInv
    <3> QED BY <1>1, <2>1, <2>3, <3>3
  <2>4. CASE ~PlanRoom(o) /\ SaveReply(o)
    <3>1. PICK d \in Drafts : d.items = copy[o].items /\ Save(o, d, "turn")
      BY <2>4, ReplyIsSaved
    <3>2. copy[o] # NoDraft /\ pc[o] = "reply"
      BY <2>4, ReplyIsSaved, DraftFacts
    <3>3. draft'.items = draft.items
      BY <2>1, <3>1, <3>2, SavedOverTheSame DEF Fresh
    <3> QED BY <1>1, <2>1, <2>4, <3>3
  <2>5. CASE PlanRoom(o)
    <3>1. PICK items \in PlannerResults(copy[o].items, Head(todo[o])) :
                 /\ items \in SUBSET Items
                 /\ Save(o, WithItems(copy[o], items), "turn")
                 /\ removed' = removed \union (IdsOf(copy[o].items) \ IdsOf(items))
      BY <2>5, RoomIsSaved
    <3>2. copy[o] \in Drafts /\ Head(todo[o]) \in Rooms /\ decided' = decided /\ pc[o] = "room"
          /\ copy[o] # NoDraft
      BY <2>5, RoomIsSaved, DraftFacts
    <3>3. copy[o] = draft /\ draft' = WithItems(draft, items)
      BY <2>1, <3>1, <3>2, SavedOverTheSame DEF Fresh
    <3>4. draft'.items = items /\ draft.items \in SUBSET Items
      BY <3>1, <3>2, <3>3, DraftFacts
    <3>5. \A e \in draft.items : e.id \in IdsOf(items) => e \in items
      BY <3>1, <3>2, <3>3, <3>4, PlannerKeepsIds DEF ItemsInv
    <3>6. ASSUME NEW id \in ItemIds \ removed', decided'[id] # "none"
          PROVE  \E e \in draft'.items : e.id = id /\ e.status = decided'[id]
      <4>1. id \notin removed /\ (id \in IdsOf(draft.items) => id \in IdsOf(items))
        BY <3>1, <3>3, <3>6
      <4>2. PICK e \in draft.items : e.id = id /\ e.status = decided[id]
        BY <3>2, <3>6, <4>1 DEF DecisionsAreKept
      <4>3. id \in IdsOf(draft.items)
        BY <4>2 DEF IdsOf
      <4>4. e \in items
        BY <3>5, <4>1, <4>2, <4>3
      <4> QED BY <3>2, <3>4, <4>2, <4>4
    <3> QED BY <3>6 DEF DecisionsAreKept
  <2> QED BY <2>1, <2>2, <2>3, <2>4, <2>5 DEF CopySteps, NoteLoads, TurnLoads, TurnForgets, TurnRests,
             Rests
<1>3. ASSUME NEW h \in Handlers, Handler(h) PROVE DecisionsAreKept'
  <2>1. HandlerCopySteps(h) /\ h \in Writers /\ (SaveReview(h) \/ UNCHANGED <<decided, removed, next_id>>)
    BY <1>3, HandlerFrame, WritersApart
  <2>2. CASE ~SaveReview(h)
    <3>1. draft' = draft
      BY <2>1, <2>2 DEF HandlerCopySteps, HandlerLoads, HandlerForgets, Rests, store
    <3> QED BY <1>1, <2>1, <2>2, <3>1
  <2>3. CASE SaveReview(h)
    <3>1. PICK r \in Reviews(copy[h].items) :
                 /\ r.items \in SUBSET Items /\ r.ids \subseteq IdsOf(copy[h].items) /\ r.as \in Decisions
                 /\ Save(h, WithItems(copy[h], r.items), "review")
                 /\ decided' = [id \in ItemIds |-> IF id \in r.ids THEN r.as ELSE decided[id]]
      BY <2>3, ReviewIsSaved
    <3>2. copy[h] \in Drafts /\ pc[h] = "loaded" /\ copy[h] # NoDraft /\ removed' = removed
      BY <2>3, ReviewIsSaved, DraftFacts
    <3>3. copy[h] = draft /\ draft' = WithItems(draft, r.items)
      BY <2>1, <3>1, <3>2, SavedOverTheSame DEF Fresh
    <3>4. draft'.items = r.items /\ draft.items \in SUBSET Items
      BY <3>1, <3>2, <3>3, DraftFacts
    <3>5. /\ \A id \in r.ids : \E e \in r.items : e.id = id /\ e.status = r.as
          /\ \A e \in draft.items : e.id \notin r.ids => e \in r.items
      BY <3>1, <3>3, <3>4, ReviewKeepsIds DEF ItemsInv
    <3>6. ASSUME NEW id \in ItemIds \ removed', decided'[id] # "none"
          PROVE  \E e \in draft'.items : e.id = id /\ e.status = decided'[id]
      <4>1. CASE id \in r.ids
        BY <3>1, <3>4, <3>5, <4>1
      <4>2. CASE id \notin r.ids
        <5>1. decided'[id] = decided[id]
          BY <3>1, <4>2
        <5>2. PICK e \in draft.items : e.id = id /\ e.status = decided[id]
          BY <3>2, <3>6, <5>1 DEF DecisionsAreKept
        <5> QED BY <3>4, <3>5, <4>2, <5>1, <5>2
      <4> QED BY <4>1, <4>2
    <3> QED BY <3>6 DEF DecisionsAreKept
  <2> QED BY <2>2, <2>3
<1>4. CASE Restart
  BY <1>1, <1>4 DEF Restart, store
<1> QED BY <1>2, <1>3, <1>4 DEF Next

\* When a row says more than before, and when the note of a request counts.
LEMMA RowsFrame ==
    ASSUME ControlInv, NEW o \in Requests, Submit(o) \/ Turn(o)
    PROVE  /\ \A p \in Requests \ {o} : op_status'[p] = op_status[p]
           /\ op_status'[o] # "none" => op_status[o] # "none" \/ pc[o] = "create" \/ ~IsMessage(o)
           /\ op_status'[o] = "completed" => op_status[o] = "completed" \/ pc[o] = "complete"
           /\ pc[o] = "complete" => op_status'[o] = "completed"
           /\ op_status'[o] = "none" => op_status[o] = "none"
           /\ op_status[o] \in {"queued", "running", "failed"} /\ pc[o] # "complete" =>
                 op_status'[o] \in {"queued", "running", "failed"}
           /\ pc'[o] = "create" => NoteSaves(o)
           /\ pc'[o] \in NotedPlaces => \/ pc[o] \in NotedPlaces \/ NoteSaves(o)
                                        \/ IsMessage(o) /\ op_status[o] # "none"
           /\ pc'[o] \in RepliedPlaces => pc[o] \in RepliedPlaces \/ SaveReply(o)
<1>1. op_status \in [Requests -> {"none", "queued", "running"} \union Ended]
  BY DEF ControlInv, PlacesInv
<1>2. CopySteps(o)
  BY RequestFrame
<1>3. pc[o] = "wait" => op_status[o] \in {"queued", "running"}
  BY DEF ControlInv, RowsInv
<1>4. /\ pc'[o] = "create" => NoteSaves(o)
      /\ pc'[o] \in NotedPlaces => \/ pc[o] \in NotedPlaces \/ NoteSaves(o)
                                   \/ IsMessage(o) /\ op_status[o] # "none"
      /\ pc'[o] \in RepliedPlaces => pc[o] \in RepliedPlaces \/ SaveReply(o)
  <2>1. PlanRoom(o) => pc[o] = "room" /\ pc'[o] \in {"room", "reply"}
    BY WritersApart DEF PlanRoom, At, NextRoom, Goto, ControlInv, PlacesInv
  <2>2. SaveReply(o) => pc[o] = "reply" /\ pc'[o] = "refresh"
    BY WritersApart DEF SaveReply, At, Goto, ControlInv, PlacesInv
  <2> QED BY <1>2, <1>3, <2>1, <2>2 DEF CopySteps, NoteLoads, NoteSaves, TurnLoads, TurnForgets,
             TurnRests, NotedPlaces, RepliedPlaces
<1>5. \/ op_status' = op_status /\ pc[o] # "complete"
      \/ /\ op_status[o] = "none" /\ (pc[o] = "create" \/ ~IsMessage(o)) /\ pc[o] # "complete"
         /\ op_status' = [op_status EXCEPT ![o] = "queued"]
      \/ /\ pc[o] = "wait" /\ op_status' = [op_status EXCEPT ![o] = "running"]
      \/ /\ pc[o] = "complete" /\ op_status' = [op_status EXCEPT ![o] = "completed"]
      \/ /\ pc[o] # "complete" /\ op_status[o] = "running"
         /\ op_status' = [op_status EXCEPT ![o] = "failed"]
  <2>1. CASE SubmitText(o)
    BY <2>1, WritersApart DEF SubmitText, NewRequest, store, ControlInv, PlacesInv, RowsInv
  <2>2. CASE SubmitVoice(o)
    BY <2>2, WritersApart DEF SubmitVoice, NewRequest, ControlInv, PlacesInv, RowsInv, IsMessage
  <2>3. CASE CreateOperation(o)
    BY <2>3 DEF CreateOperation, At, ControlInv, RowsInv
  <2>4. CASE Begin(o)
    BY <2>4 DEF Begin, At
  <2>5. CASE Complete(o)
    BY <2>5 DEF Complete, End, At
  <2>6. CASE Fail(o)
    BY <2>6 DEF Fail, End, At, ControlInv, OwnersInv, InTurn, TurnPlaces
  <2>7. CASE SaveNote(o) \/ StoreAudio(o) \/ Hear(o) \/ Transcribed(o) \/ Unlink(o) \/ LoadDraft(o)
             \/ Planned(o) \/ PlanRoom(o) \/ SaveReply(o) \/ RefreshStatuses(o)
    BY <2>7 DEF SaveNote, StoreAudio, Hear, Transcribed, Unlink, LoadDraft, Planned, PlanRoom, SaveReply,
                RefreshStatuses, At, store
  <2> QED BY <2>1, <2>2, <2>3, <2>4, <2>5, <2>6, <2>7 DEF Submit, Turn
<1>6. /\ \A p \in Requests \ {o} : op_status'[p] = op_status[p]
      /\ op_status'[o] # "none" => op_status[o] # "none" \/ pc[o] = "create" \/ ~IsMessage(o)
      /\ op_status'[o] = "completed" => op_status[o] = "completed" \/ pc[o] = "complete"
      /\ pc[o] = "complete" => op_status'[o] = "completed"
      /\ op_status'[o] = "none" => op_status[o] = "none"
      /\ op_status[o] \in {"queued", "running", "failed"} /\ pc[o] # "complete" =>
            op_status'[o] \in {"queued", "running", "failed"}
  <2>1. CASE op_status' = op_status /\ pc[o] # "complete"
    BY <2>1
  <2>2. CASE op_status' # op_status \/ pc[o] = "complete"
    <3>1. PICK status \in {"queued", "running", "completed", "failed"} :
              /\ op_status' = [op_status EXCEPT ![o] = status]
              /\ status = "completed" <=> pc[o] = "complete"
              /\ op_status[o] = "none" => pc[o] = "create" \/ ~IsMessage(o) \/ pc[o] = "complete"
      BY <1>3, <1>5, <2>2
    <3>2. op_status'[o] = status /\ \A p \in Requests \ {o} : op_status'[p] = op_status[p]
      BY <1>1, <3>1
    <3>3. pc[o] = "complete" => op_status[o] = "running"
      BY DEF ControlInv, OwnersInv, InTurn, TurnPlaces
    <3> QED BY <3>1, <3>2, <3>3
  <2> QED BY <2>1, <2>2
<1> QED BY <1>4, <1>6

\* At the start there is nothing to keep.
LEMMA InitKept == Init => KeptInv
BY WritersApart DEF Init, KeptInv, MessagesAreKept, DecisionsAreKept, NotedPlaces, RepliedPlaces

\* Without an overwriting save, every step keeps what was answered for.
LEMMA StepKept == ControlInv /\ TodoInv /\ CopyInv /\ ItemsInv /\ KeptInv /\ [Next]_vars => KeptInv'
<1> SUFFICES ASSUME ControlInv, TodoInv, CopyInv, ItemsInv, KeptInv, [Next]_vars, ~overwritten'
             PROVE  MessagesAreKept' /\ DecisionsAreKept'
  BY DEF KeptInv
<1>1. CASE Next
  <2>1. /\ ~overwritten /\ \A m : Kept(m) => Kept(m)'
        /\ \A o \in Requests : Submit(o) \/ Turn(o) =>
              /\ NoteSaves(o) => Kept(Note(o))'
              /\ SaveReply(o) => Kept(Reply(o))'
    BY <1>1, MessagesStay
  <2>2. MessagesAreKept /\ DecisionsAreKept
    BY <2>1 DEF KeptInv
  <2>3. DecisionsAreKept'
    BY <1>1, <2>2, DecisionsStay
  <2>4. ASSUME NEW p \in Requests
        PROVE  /\ Kept(Note(p)) => Kept(Note(p))'
               /\ Kept(Reply(p)) => Kept(Reply(p))'
    <3>1. \A m : Kept(m) => Kept(m)'
      BY <2>1
    <3>2. (Kept(Note(p)) => Kept(Note(p))') /\ (Kept(Reply(p)) => Kept(Reply(p))')
      BY <3>1 DEF Kept, CountOf, Note, Reply
    <3> QED BY <3>2
  \* A request that does not move.
  <2>5. ASSUME NEW p \in Requests, op_status'[p] = op_status[p],
               pc'[p] = pc[p] \/ pc'[p] \in {"wait", "end", "idle"}
        PROVE  /\ IsMessage(p) /\ (op_status'[p] # "none" \/ pc'[p] = "create") => Kept(Note(p))'
               /\ pc'[p] \in NotedPlaces => Kept(Note(p))'
               /\ pc'[p] \in RepliedPlaces => Kept(Reply(p))'
               /\ op_status'[p] = "completed" => Kept(Note(p))' /\ Kept(Reply(p))'
    BY <2>2, <2>4, <2>5 DEF MessagesAreKept, NotedPlaces, RepliedPlaces
  <2>6. ASSUME NEW o \in Requests, Submit(o) \/ Turn(o)
        PROVE  MessagesAreKept'
    <3>1. OneMoves(o) /\ o \in Writers
      BY <2>6, RequestFrame, WritersApart
    <3>2. \A p \in Requests \ {o} : pc'[p] = pc[p] /\ op_status'[p] = op_status[p]
      BY <2>6, <3>1, StepControl, OthersStay, RowsFrame, WritersApart
    <3>3. /\ IsMessage(o) /\ op_status[o] # "none" => Kept(Note(o))
          /\ IsMessage(o) /\ pc[o] = "create" => Kept(Note(o))
          /\ pc[o] \in NotedPlaces => Kept(Note(o))
          /\ pc[o] \in RepliedPlaces => Kept(Reply(o))
          /\ op_status[o] = "completed" => Kept(Note(o)) /\ Kept(Reply(o))
          /\ pc[o] = "complete" => Kept(Note(o)) /\ Kept(Reply(o))
      BY <2>2 DEF MessagesAreKept, NotedPlaces, RepliedPlaces
    <3>4. /\ op_status'[o] # "none" => op_status[o] # "none" \/ pc[o] = "create" \/ ~IsMessage(o)
          /\ op_status'[o] = "completed" => op_status[o] = "completed" \/ pc[o] = "complete"
          /\ pc'[o] = "create" => NoteSaves(o)
          /\ pc'[o] \in NotedPlaces => \/ pc[o] \in NotedPlaces \/ NoteSaves(o)
                                       \/ IsMessage(o) /\ op_status[o] # "none"
          /\ pc'[o] \in RepliedPlaces => pc[o] \in RepliedPlaces \/ SaveReply(o)
      BY <2>6, RowsFrame
    <3>5. (NoteSaves(o) => Kept(Note(o))') /\ (SaveReply(o) => Kept(Reply(o))')
      BY <2>1, <2>6
    <3>6. /\ IsMessage(o) /\ (op_status'[o] # "none" \/ pc'[o] = "create") => Kept(Note(o))'
          /\ pc'[o] \in NotedPlaces => Kept(Note(o))'
          /\ pc'[o] \in RepliedPlaces => Kept(Reply(o))'
          /\ op_status'[o] = "completed" => Kept(Note(o))' /\ Kept(Reply(o))'
      BY <2>4, <3>3, <3>4, <3>5
    <3>7. \A p \in Requests :
             /\ IsMessage(p) /\ (op_status'[p] # "none" \/ pc'[p] = "create") => Kept(Note(p))'
             /\ pc'[p] \in NotedPlaces => Kept(Note(p))'
             /\ pc'[p] \in RepliedPlaces => Kept(Reply(p))'
             /\ op_status'[p] = "completed" => Kept(Note(p))' /\ Kept(Reply(p))'
      BY <2>5, <3>2, <3>6
    <3> QED BY <3>7 DEF MessagesAreKept, IsMessage, Note, Reply
  <2>7. CASE \E h \in Handlers : Handler(h)
    <3>1. PICK h \in Handlers : Handler(h)
      BY <2>7
    <3>2. OneMoves(h) /\ h \in Writers
      BY <3>1, HandlerFrame, WritersApart
    <3>3. \A p \in Requests : pc'[p] = pc[p]
      BY <3>2, StepControl, OthersStay, WritersApart
    <3>4. op_status' = op_status
      BY <3>1 DEF Handler, HandlerLoads, SaveReview, RefreshReview, StartPublish, EndPublish, store
    <3>5. MessagesAreKept'
      BY <2>5, <3>3, <3>4 DEF MessagesAreKept, IsMessage, Note, Reply
    <3> QED BY <2>3, <3>5
  <2>8. CASE Restart
    <3>1. op_status' = op_status /\ \A p \in Requests : pc'[p] \in {"wait", "end", "idle"}
      BY <2>8, WritersApart DEF Restart, store
    <3>2. MessagesAreKept'
      BY <2>5, <3>1 DEF MessagesAreKept, IsMessage, Note, Reply
    <3> QED BY <2>3, <3>2
  <2> QED BY <1>1, <2>3, <2>6, <2>7, <2>8 DEF Next
<1>2. CASE UNCHANGED vars
  <2>1. UNCHANGED <<draft, op_status, pc, decided, removed, overwritten>>
    BY <1>2 DEF vars, store, history, traced
  <2>2. MessagesAreKept /\ DecisionsAreKept
    BY <2>1 DEF KeptInv, CopyInv
  <2> QED BY <2>1, <2>2 DEF MessagesAreKept, DecisionsAreKept, Kept, CountOf, IsMessage, Note, Reply
<1> QED BY <1>1, <1>2

-----------------------------------------------------------------------------
(* What a publication may type *)

\* What a turn took out stays out as long as nothing is overwritten.
GoneInv ==
    /\ \A id \in removed : id < next_id
    /\ ~overwritten => \A e \in draft.items : e.id \notin removed

\* The planner adds no id but the next uuid, a reviewer none.
LEMMA NoOtherIds ==
    ASSUME NEW items \in SUBSET Items
    PROVE  /\ \A room \in Rooms : \A new \in PlannerResults(items, room) :
                 IdsOf(new) \subseteq IdsOf(items) \union {next_id}
           /\ \A r \in Reviews(items) : IdsOf(r.items) \subseteq IdsOf(items)
<1>1. ASSUME NEW room \in Rooms, NEW new \in PlannerResults(items, room)
      PROVE  IdsOf(new) \subseteq IdsOf(items) \union {next_id}
  <2> DEFINE kept == {items, ClearSection(items, room)}
                     \union {RemoveLineItem(items, room, code) : code \in Codes}
  <2>1. \A k \in kept : k \subseteq items
    BY DEF ClearSection, RemoveLineItem
  <2>2. new \in kept \/ \E k \in kept : new = AddItem(k, room, next_id)
    BY DEF PlannerResults
  <2> HIDE DEF kept
  <2>3. \A e \in new : e \in items \/ e.id = next_id
    BY <2>1, <2>2 DEF AddItem
  <2> QED BY <2>3 DEF IdsOf
<1>2. ASSUME NEW r \in Reviews(items)
      PROVE  IdsOf(r.items) \subseteq IdsOf(items)
  <2>1. \/ \E id, d : r.items = SetItemStatus(items, id, d)
        \/ \E id : r.items = ResolveItem(items, id)
        \/ r.items = AcceptAll(items)
    BY DEF Reviews
  <2>2. \A e \in r.items : \E f \in items : e.id = f.id
    <3>1. ASSUME NEW id, NEW d, r.items = SetItemStatus(items, id, d)
          PROVE  \A e \in r.items : \E f \in items : e.id = f.id
      <4> DEFINE F(e) == IF e.id = id THEN [e EXCEPT !.status = d] ELSE e
      <4>1. \A e \in items : F(e).id = e.id
        BY DEF Items
      <4>2. r.items = {F(e) : e \in items}
        BY <3>1 DEF SetItemStatus
      <4> HIDE DEF F
      <4> QED BY <4>1, <4>2
    <3>2. ASSUME NEW id, r.items = ResolveItem(items, id)
          PROVE  \A e \in r.items : \E f \in items : e.id = f.id
      <4> DEFINE F(e) == IF e.id = id THEN [e EXCEPT !.code = "resolved", !.status = "accepted"] ELSE e
      <4>1. \A e \in items : F(e).id = e.id
        BY DEF Items
      <4>2. r.items = {F(e) : e \in items}
        BY <3>2 DEF ResolveItem
      <4> HIDE DEF F
      <4> QED BY <4>1, <4>2
    <3>3. ASSUME r.items = AcceptAll(items)
          PROVE  \A e \in r.items : \E f \in items : e.id = f.id
      <4> DEFINE F(e) == [e EXCEPT !.status = "accepted"]
      <4>1. \A e \in items : F(e).id = e.id
        BY DEF Items
      <4>2. r.items = {F(e) : e \in items}
        BY <3>3 DEF AcceptAll
      <4> HIDE DEF F
      <4> QED BY <4>1, <4>2
    <3> QED BY <2>1, <3>1, <3>2, <3>3
  <2> QED BY <2>2 DEF IdsOf
<1> QED BY <1>1, <1>2

\* Nothing is removed at the start.
LEMMA InitGone == Init => GoneInv
BY DEF Init, GoneInv

\* An id that was taken out is below the next uuid and not in any copy that may
\* be saved without overwriting.
LEMMA StepGone == ControlInv /\ TodoInv /\ CopyInv /\ ItemsInv /\ GoneInv /\ [Next]_vars => GoneInv'
<1> SUFFICES ASSUME ControlInv, TodoInv, CopyInv, ItemsInv, GoneInv, [Next]_vars PROVE GoneInv'
  OBVIOUS
<1>1. ASSUME UNCHANGED <<removed, next_id>>,
             ~overwritten' => ~overwritten /\ IdsOf(draft'.items) \subseteq IdsOf(draft.items)
      PROVE  GoneInv'
  BY <1>1 DEF GoneInv, IdsOf
<1>2. ASSUME NEW o \in Requests, Submit(o) \/ Turn(o) PROVE GoneInv'
  <2>1. CopySteps(o) /\ o \in Writers /\ (PlanRoom(o) \/ UNCHANGED <<decided, removed, next_id>>)
    BY <1>2, RequestFrame, WritersApart
  <2>2. CASE ~PlanRoom(o) /\ UNCHANGED <<draft, overwritten>>
    BY <1>1, <2>1, <2>2 DEF CopyInv
  <2>3. CASE ~PlanRoom(o) /\ NoteSaves(o)
    <3>1. pc[o] = "save_note" /\ copy[o] # NoDraft /\ Save(o, copy[o], "note")
      BY <2>3 DEF NoteSaves, CopyInv, CopyPlaces
    <3>2. ~overwritten' => ~overwritten /\ draft' = WithMessage(draft, Note(o))
      BY <2>1, <3>1, SavedOverTheSame DEF Fresh
    <3>3. WithMessage(draft, Note(o)).items = draft.items
      BY DraftFacts DEF CopyInv
    <3> QED BY <1>1, <2>1, <2>3, <3>2, <3>3
  <2>4. CASE ~PlanRoom(o) /\ SaveReply(o)
    <3>1. PICK d \in Drafts : d.items = copy[o].items /\ Save(o, d, "turn")
      BY <2>4, ReplyIsSaved
    <3>2. copy[o] # NoDraft /\ pc[o] = "reply"
      BY <2>4, ReplyIsSaved, DraftFacts
    <3>3. ~overwritten' => ~overwritten /\ draft'.items = draft.items
      BY <2>1, <3>1, <3>2, SavedOverTheSame DEF Fresh
    <3> QED BY <1>1, <2>1, <2>4, <3>3
  <2>5. CASE PlanRoom(o)
    <3>1. PICK items \in PlannerResults(copy[o].items, Head(todo[o])) :
                 /\ items \in SUBSET Items
                 /\ Save(o, WithItems(copy[o], items), "turn")
                 /\ removed' = removed \union (IdsOf(copy[o].items) \ IdsOf(items))
                 /\ next_id' = IF next_id \in IdsOf(items) THEN next_id + 1 ELSE next_id
      BY <2>5, RoomIsSaved
    <3>2. copy[o] \in Drafts /\ Head(todo[o]) \in Rooms /\ pc[o] = "room" /\ copy[o] # NoDraft
      BY <2>5, RoomIsSaved, DraftFacts
    <3>3. copy[o].items \in SUBSET Items /\ IdsBelow(copy[o].items, next_id)
      BY <2>1, <3>2, DraftFacts DEF ItemsInv
    <3>4. removed \subseteq Nat /\ IdsOf(copy[o].items) \subseteq Nat /\ next_id \in Nat
      <4>1. IdsOf(copy[o].items) \subseteq ItemIds
        BY <3>3 DEF IdsOf, Items
      <4> QED BY <4>1, IdsAssumption DEF ItemsInv
    <3>5. \A id \in removed' : id < next_id'
      <4>1. \A id \in removed \union IdsOf(copy[o].items) : id < next_id
        BY <3>3 DEF GoneInv, IdsBelow, IdsOf
      <4>2. \A id \in removed' : id \in removed \union IdsOf(copy[o].items)
        BY <3>1
      <4>3. next_id' \in {next_id, next_id + 1}
        BY <3>1
      <4>4. \A id \in removed \union IdsOf(copy[o].items) : id \in Nat
        BY <3>4
      <4>5. ASSUME NEW id \in removed' PROVE id < next_id'
        <5>1. id \in Nat /\ id < next_id
          BY <4>1, <4>2, <4>4
        <5> QED BY <3>4, <4>3, <5>1
      <4> QED BY <4>5
    <3>6. ASSUME ~overwritten' PROVE \A e \in draft'.items : e.id \notin removed'
      <4>1. ~overwritten /\ copy[o] = draft /\ draft' = WithItems(draft, items)
        BY <2>1, <3>1, <3>2, <3>6, SavedOverTheSame DEF Fresh
      <4>2. draft'.items = items
        BY <3>1, <3>2, <4>1, DraftFacts
      <4>3. IdsOf(items) \subseteq IdsOf(draft.items) \union {next_id}
        BY <3>1, <3>2, <3>3, <4>1, NoOtherIds
      <4>4. next_id \notin removed /\ \A id \in IdsOf(draft.items) : id \notin removed
        BY <3>4, <4>1 DEF GoneInv, IdsOf
      <4>5. \A id \in IdsOf(items) : id \notin removed'
        BY <3>1, <4>3, <4>4
      <4> QED BY <4>2, <4>5 DEF IdsOf
    <3> QED BY <3>5, <3>6 DEF GoneInv
  <2> QED BY <2>1, <2>2, <2>3, <2>4, <2>5 DEF CopySteps, NoteLoads, TurnLoads, TurnForgets, TurnRests,
             Rests
<1>3. ASSUME NEW h \in Handlers, Handler(h) PROVE GoneInv'
  <2>1. HandlerCopySteps(h) /\ h \in Writers /\ (SaveReview(h) \/ UNCHANGED <<decided, removed, next_id>>)
    BY <1>3, HandlerFrame, WritersApart
  <2>2. CASE ~SaveReview(h)
    <3>1. UNCHANGED <<draft, overwritten>>
      BY <2>1, <2>2 DEF HandlerCopySteps, HandlerLoads, HandlerForgets, Rests, store
    <3> QED BY <1>1, <2>1, <2>2, <3>1 DEF CopyInv
  <2>3. CASE SaveReview(h)
    <3>1. PICK r \in Reviews(copy[h].items) :
                 r.items \in SUBSET Items /\ Save(h, WithItems(copy[h], r.items), "review")
      BY <2>3, ReviewIsSaved
    <3>2. /\ copy[h] \in Drafts /\ pc[h] = "loaded" /\ copy[h] # NoDraft
          /\ UNCHANGED <<removed, next_id>>
      BY <2>3, ReviewIsSaved, DraftFacts
    <3>3. ASSUME ~overwritten' PROVE ~overwritten /\ IdsOf(draft'.items) \subseteq IdsOf(draft.items)
      <4>1. ~overwritten /\ copy[h] = draft /\ draft' = WithItems(draft, r.items)
        BY <2>1, <3>1, <3>2, <3>3, SavedOverTheSame DEF Fresh
      <4>2. draft'.items = r.items /\ draft.items \in SUBSET Items
        BY <3>1, <3>2, <4>1, DraftFacts
      <4> QED BY <3>1, <4>1, <4>2, NoOtherIds
    <3> QED BY <1>1, <3>2, <3>3
  <2> QED BY <2>2, <2>3
<1>4. CASE Restart
  BY <1>1, <1>4 DEF Restart, store, CopyInv
<1>5. CASE UNCHANGED vars
  BY <1>1, <1>5 DEF vars, store, history, traced, CopyInv
<1> QED BY <1>2, <1>3, <1>4, <1>5 DEF Next

-----------------------------------------------------------------------------
(* What the claim is shown as *)

NotDrafting == {"new", "review_pending", "approved_for_publish", "publishing", "published"}

\* What a step of a request makes of the claim's status and of rows.
LEMMA ClaimFrame ==
    ASSUME ControlInv, NEW o \in Requests, Submit(o) \/ Turn(o)
    PROVE  /\ \/ claim_status' = claim_status /\ pc'[o] # "complete"
              \/ claim_status' = claim_status /\ pc[o] = "complete" /\ pc'[o] = "end"
              \/ /\ claim_status' \in Drafting /\ pc[o] \in {"load", "plan"}
                 /\ pc'[o] # "complete" /\ op_status' = op_status
              \/ claim_status' \in NotDrafting
           /\ audio \subseteq Requests => audio' \subseteq Requests
<1>1. o \in Writers /\ pc \in [Writers -> RequestPlaces \union HandlerPlaces]
  BY WritersApart DEF ControlInv, PlacesInv
<1> USE DEF Goto, At, store
<1>2. CASE LoadDraft(o) \/ Planned(o)
  BY <1>1, <1>2 DEF LoadDraft, Planned, Drafting
<1>3. CASE RefreshStatuses(o)
  <2>1. \A items : StatusForDraft(items) \in NotDrafting
    BY DEF StatusForDraft, NotDrafting
  <2> QED BY <1>3, <2>1 DEF RefreshStatuses
<1>4. CASE SubmitText(o) \/ SubmitVoice(o) \/ SaveNote(o) \/ CreateOperation(o) \/ StoreAudio(o)
  BY <1>1, <1>4 DEF SubmitText, SubmitVoice, SaveNote, CreateOperation, StoreAudio, Schedule
<1>5. CASE Begin(o) \/ Hear(o) \/ Transcribed(o) \/ Unlink(o)
  BY <1>1, <1>5 DEF Begin, Hear, Transcribed, Unlink
<1>6. CASE PlanRoom(o) \/ SaveReply(o) \/ Complete(o) \/ Fail(o)
  BY <1>1, <1>6 DEF PlanRoom, NextRoom, SaveReply, Complete, Fail, End
<1> QED BY <1>2, <1>3, <1>4, <1>5, <1>6 DEF Submit, Turn

\* At the start the claim is new.
LEMMA InitStatus == Init => StatusInv
BY WritersApart DEF Init, StatusInv, ShownAsDraftedIsDrafted, Drafting

\* Every step leaves a turn under way, to come or failed behind a drafting claim.
LEMMA StepStatus == ControlInv /\ StatusInv /\ [Next]_vars => StatusInv'
<1> SUFFICES ASSUME ControlInv, StatusInv, [Next]_vars PROVE StatusInv'
  OBVIOUS
<1>1. ControlInv'
  BY StepControl
<1>2. ASSUME NEW o \in Requests, Submit(o) \/ Turn(o) PROVE StatusInv'
  <2>1. /\ \/ claim_status' = claim_status /\ pc'[o] # "complete"
           \/ claim_status' = claim_status /\ pc[o] = "complete" /\ pc'[o] = "end"
           \/ /\ claim_status' \in Drafting /\ pc[o] \in {"load", "plan"}
              /\ pc'[o] # "complete" /\ op_status' = op_status
           \/ claim_status' \in NotDrafting
        /\ audio' \subseteq Requests
    BY <1>2, ClaimFrame DEF StatusInv
  <2>2. \A p \in Requests \ {o} : pc'[p] = pc[p] /\ op_status'[p] = op_status[p]
    BY <1>1, <1>2, RequestFrame, RowsFrame, OthersStay, WritersApart
  <2>3. op_status[o] \in {"queued", "running", "failed"} /\ pc[o] # "complete" =>
            op_status'[o] \in {"queued", "running", "failed"}
    BY <1>2, RowsFrame
  <2>4. ASSUME NEW p \in Requests, pc'[p] = "complete" PROVE claim_status' \notin Drafting
    <3>1. CASE p = o
      BY <2>1, <2>4, <3>1 DEF Drafting, NotDrafting
    <3>2. CASE p # o
      <4>1. pc[p] = "complete" /\ claim_status \notin Drafting
        BY <2>2, <2>4, <3>2 DEF StatusInv
      <4>2. pc[o] \notin {"load", "plan"}
        BY <3>2, <4>1 DEF ControlInv, OwnersInv, InTurn, TurnPlaces
      <4> QED BY <2>1, <4>1, <4>2 DEF Drafting, NotDrafting
    <3> QED BY <3>1, <3>2
  <2>5. ASSUME claim_status' \in Drafting
        PROVE  \E p \in Requests : op_status'[p] \in {"queued", "running", "failed"}
    <3>1. CASE claim_status' = claim_status
      <4>1. PICK p \in Requests : op_status[p] \in {"queued", "running", "failed"}
        BY <2>5, <3>1 DEF StatusInv, ShownAsDraftedIsDrafted, Drafting
      <4>2. pc[p] # "complete"
        BY <2>5, <3>1 DEF StatusInv
      <4> QED BY <2>2, <2>3, <4>1, <4>2
    <3>2. CASE pc[o] \in {"load", "plan"} /\ op_status' = op_status
      BY <3>2 DEF ControlInv, OwnersInv, InTurn, TurnPlaces
    <3> QED BY <2>1, <2>5, <3>1, <3>2 DEF Drafting, NotDrafting
  <2>6. claim_status' \in Drafting \union NotDrafting
    BY <2>1 DEF StatusInv, NotDrafting
  <2> QED BY <2>1, <2>4, <2>5, <2>6 DEF StatusInv, ShownAsDraftedIsDrafted, Drafting, NotDrafting
<1>3. ASSUME NEW h \in Handlers, Handler(h) PROVE StatusInv'
  <2>1. \A p \in Requests : pc'[p] = pc[p]
    BY <1>1, <1>3, HandlerFrame, OthersStay, WritersApart
  <2>2. \A items : StatusForDraft(items) \in NotDrafting
    BY DEF StatusForDraft, NotDrafting
  <2>3. /\ claim_status' = claim_status \/ claim_status' \in NotDrafting
        /\ UNCHANGED <<op_status, audio>>
    BY <1>3, <2>2 DEF Handler, HandlerLoads, SaveReview, RefreshReview, StartPublish, EndPublish, store,
       NotDrafting
  <2> QED BY <2>1, <2>3 DEF StatusInv, ShownAsDraftedIsDrafted, Drafting, NotDrafting
<1>4. CASE Restart
  <2>1. UNCHANGED <<claim_status, op_status, audio>> /\ \A p \in Requests : pc'[p] # "complete"
    BY <1>4, WritersApart DEF Restart, store
  <2> QED BY <2>1 DEF StatusInv, ShownAsDraftedIsDrafted
<1>5. CASE UNCHANGED vars
  BY <1>5 DEF vars, store, StatusInv, ShownAsDraftedIsDrafted
<1> QED BY <1>2, <1>3, <1>4, <1>5 DEF Next

-----------------------------------------------------------------------------
(* The invariants of the runs *)

IInv == ControlInv /\ TodoInv /\ CopyInv /\ ItemsInv /\ NotesInv /\ KeptInv
        /\ GoneInv /\ StatusInv

\* The layers together hold in every state.
THEOREM Invariant == Spec => []IInv
<1>1. Init => IInv
  BY InitControl, InitTodo, InitCopies, InitItems, InitNotes, InitKept, InitGone, InitStatus
     DEF IInv
<1>2. IInv /\ [Next]_vars => IInv'
  BY StepControl, StepTodo, StepCopies, StepItems, StepNotes, StepKept, StepGone, StepStatus
     DEF IInv
<1> QED BY <1>1, <1>2, PTL DEF Spec

\* The rows, the draft and every copy of it, the queue of the lock and the
\* histories are well formed, whatever is submitted, reviewed and killed.
THEOREM TypeCorrect == Spec => []TypeOK
<1>1. IInv => TypeOK
  <2> SUFFICES ASSUME IInv PROVE TypeOK
    OBVIOUS
  <2>1. ControlInv /\ TodoInv /\ CopyInv /\ ItemsInv /\ StatusInv
    BY DEF IInv
  <2>2. IsInjective(waiting)
    <3>1. DOMAIN waiting \subseteq Nat /\ \A i \in DOMAIN waiting : waiting[i] \in Nat
      <4>1. waiting \in Seq(Requests)
        BY <2>1 DEF ControlInv, PlacesInv
      <4>2. \A i \in DOMAIN waiting : i \in Nat /\ waiting[i] \in Requests
        BY <4>1
      <4> QED BY <4>2, WritersApart
    <3>2. \A i, j \in DOMAIN waiting : i < j => waiting[i] < waiting[j]
      BY <2>1 DEF ControlInv, QueueInv
    <3>3. \A i, j \in DOMAIN waiting : waiting[i] = waiting[j] => i = j
      BY <3>1, <3>2
    <3> QED BY <3>3 DEF IsInjective
  <2>3. claim_status \in {"new", "ingesting", "planning_rooms", "review_pending",
                          "approved_for_publish", "publishing", "published"}
    BY <2>1 DEF StatusInv, Drafting
  <2>4. \A w \in Writers : copy[w] = NoDraft \/ copy[w] \in Drafts
    BY <2>1 DEF CopyInv
  <2> QED BY <2>1, <2>2, <2>3, <2>4 DEF TypeOK, ControlInv, PlacesInv, TodoInv, CopyInv, ItemsInv,
             StatusInv
<1> QED BY <1>1, Invariant, PTL

\* The claim's lock and the event loop do what they are for: no turn holds a
\* copy that another turn's save made old, and no note is stored with a copy
\* that is older than another note.
THEOREM LockAndLoop == Spec => []LockAndLoopExclude
<1>1. IInv => LockAndLoopExclude
  BY DEF IInv, CopyInv
<1> QED BY <1>1, Invariant, PTL

\* The save of a stale copy is the only way to lose a note, a reply or a
\* decision that was answered for: no failure and no kill does.
THEOREM NothingLost == Spec => []NothingLostUnlessOverwritten
<1>1. IInv => NothingLostUnlessOverwritten
  BY DEF IInv, KeptInv, MessagesAreKept, DecisionsAreKept, NothingLostUnlessOverwritten, IsMessage
<1> QED BY <1>1, Invariant, PTL

\* A text is in the conversation once at most, a voice note once more per kill
\* at most, also when stale copies are saved.
THEOREM NotesOnce == Spec => []NotesAreNotRepeated
<1>1. IInv => NotesAreNotRepeated
  <2> SUFFICES ASSUME IInv, NEW o \in Requests
               PROVE  CountOf(Note(o)) <= 1 + (IF Kind[o] = "voice_turn" THEN crashes ELSE 0)
    BY DEF NotesAreNotRepeated
  <2>1. /\ crashes \in Nat /\ Times(draft, Note(o)) <= Most(o) /\ Times(draft, Note(o)) \in Nat
        /\ draft \in Drafts
    BY TimesAppended, DraftFacts DEF IInv, NotesInv, CopyInv
  <2>2. CountOf(Note(o)) = Times(draft, Note(o))
    BY DEF CountOf, Times
  <2>3. IsMessage(o) <=> Kind[o] # "voice_turn"
    BY KindAssumption DEF IsMessage
  <2>4. Most(o) <= 1 + (IF Kind[o] = "voice_turn" THEN crashes ELSE 0) /\ Most(o) \in Int
    BY <2>1, <2>3 DEF Most, EarlierRuns
  <2> QED BY <2>1, <2>2, <2>4
<1> QED BY <1>1, Invariant, PTL

\* A claim that is shown as being drafted has a turn under way, one that will
\* come, or one that failed and left the status behind.
THEOREM ShownAsDrafted == Spec => []ShownAsDraftedIsDrafted
<1>1. IInv => ShownAsDraftedIsDrafted
  BY DEF IInv, StatusInv
<1> QED BY <1>1, Invariant, PTL

\* What a publication types from a copy that nothing was saved over.
FreshPublication ==
    [][\A h \in Handlers : At(h, "loaded") /\ pc'[h] = "publishing" /\ stale[h] = {} /\ ~overwritten =>
          \A id \in JobItems(copy[h].items) : decided[id] # "rejected"]_vars

\* An item whose last saved decision is a rejection is published only if a
\* stale copy was saved or is being published: without either, publish_draft
\* types what was not rejected.
THEOREM OnlyStaleCopiesPublishRejected == Spec => FreshPublication
<1>1. IInv /\ [Next]_vars =>
        [\A h \in Handlers : At(h, "loaded") /\ pc'[h] = "publishing" /\ stale[h] = {} /\ ~overwritten =>
            \A id \in JobItems(copy[h].items) : decided[id] # "rejected"]_vars
  <2> SUFFICES ASSUME IInv, NEW h \in Handlers, At(h, "loaded"), stale[h] = {}, ~overwritten,
                      NEW id \in JobItems(copy[h].items), decided[id] = "rejected"
               PROVE  FALSE
    OBVIOUS
  <2>1. CopyInv /\ ItemsInv /\ GoneInv /\ DecisionsAreKept
    BY DEF IInv, KeptInv
  <2>2. copy[h] = draft /\ draft \in Drafts
    BY <2>1, WritersApart DEF CopyInv, At, Fresh
  <2>3. PICK e \in draft.items : e.id = id /\ e.status = "accepted"
    BY <2>2 DEF JobItems
  <2>4. id \in ItemIds \ removed
    BY <2>1, <2>2, <2>3, DraftFacts DEF GoneInv, Items
  <2>5. PICK f \in draft.items : f.id = id /\ f.status = "rejected"
    BY <2>1, <2>4 DEF DecisionsAreKept
  <2>6. e = f
    BY <2>1, <2>3, <2>5 DEF ItemsInv, IdsBelow
  <2> QED BY <2>3, <2>5, <2>6
<1> QED BY <1>1, Invariant, PTL DEF Spec, FreshPublication
===============================================================================
