----------------------------- MODULE DraftTurns -----------------------------
(***************************************************************************)
(* The operations on one claim of the producer API: DraftCoordinator over  *)
(* DraftStore, src/xactimate_producer/drafts.py.  Submissions and turns    *)
(* are coroutines of one event loop; the item and publish endpoints are    *)
(* plain functions, which FastAPI runs in threads.  Every writer loads the *)
(* whole draft, changes its copy and stores the whole copy.                *)
(*                                                                         *)
(* A step is one transaction of the store, or what a coroutine does        *)
(* between two.  Between two awaits a coroutine keeps the loop to itself,  *)
(* while the threads go on and the process may be killed.                  *)
(*                                                                         *)
(* Left out: the rows of claim_rooms, events and tool traces; the legacy   *)
(* agent; failing transactions.                                            *)
(***************************************************************************)
EXTENDS DraftItems, Sorting, SequencesExt

CONSTANTS
    Kind,         \* request -> "message" or "voice_turn"
    MaxPlan,      \* bound on the rooms of a plan
    MaxRequests,  \* bound on the messages and voice notes submitted
    MaxHandlers,  \* bound on the item and publish requests under way at once
    MaxCalls,     \* bound on the item and publish requests in all
    MaxCrashes,   \* bound on the times the process is killed
    NoDraft       \* no copy of the draft

VARIABLES
    draft,         \* claims.draft_json: messages and items
    claim_status,  \* claims.status
    op_status,     \* claim_operations.status, "none" before the row exists
    audio,         \* requests whose upload is on the disk
    requests,      \* how many were submitted; they are numbered in that order
    pc, copy,      \* per writer: its place and its copy of the draft
    todo,          \* per turn: the rooms of the plan that are left
    loop,          \* the coroutine that keeps the event loop, or Free
    holder,        \* the turn that holds the claim's lock, or Free
    waiting,       \* scheduled operations that wait for it, first come first
    next_id,       \* the next uuid
    decided,       \* history: the last decision saved for each item
    removed,       \* history: items a turn took out
    stale,         \* history: per writer, changes saved since it loaded
    overwritten,   \* history: a stale copy was saved
    calls, crashes \* bounds used

Requests == 1..MaxRequests
Handlers == {-h : h \in 1..MaxHandlers}
Writers == Requests \union Handlers
Free == 0

Messages == Seq({"user", "assistant"} \X Requests)
Drafts == [messages : Messages, items : SUBSET Items]

ASSUME KindAssumption == Kind \in [Requests -> {"message", "voice_turn"}]
ASSUME BoundsAssumption == {MaxRequests, MaxHandlers, MaxPlan, MaxCrashes} \subseteq Nat
ASSUME IdsAssumption == ItemIds \subseteq Nat
ASSUME NoDraftAssumption == NoDraft \notin Drafts

store == <<draft, claim_status, op_status, audio>>
tasks == <<requests, todo, loop, holder, waiting>>
history == <<next_id, decided, removed, calls, crashes>>
traced == <<stale, overwritten>>
vars == <<store, tasks, pc, copy, history, traced>>

EmptyDraft == [messages |-> <<>>, items |-> {}]
Note(o) == <<"user", o>>
Reply(o) == <<"assistant", o>>
WithMessage(d, m) == [d EXCEPT !.messages = Append(@, m)]
WithItems(d, items) == [d EXCEPT !.items = items]

\* The claim was opened: POST /drafts/open.
Init ==
    /\ draft = EmptyDraft
    /\ claim_status = "new"
    /\ op_status = [o \in Requests |-> "none"]
    /\ audio = {}
    /\ requests = 0
    /\ pc = [w \in Writers |-> "idle"]
    /\ copy = [w \in Writers |-> NoDraft]
    /\ todo = [o \in Requests |-> <<>>]
    /\ loop = Free /\ holder = Free /\ waiting = <<>>
    /\ next_id = 1
    /\ decided = [id \in ItemIds |-> "none"]
    /\ removed = {}
    /\ stale = [w \in Writers |-> {}]
    /\ overwritten = FALSE
    /\ calls = 0 /\ crashes = 0

-----------------------------------------------------------------------------
At(w, here) == pc[w] = here
Goto(w, to) == pc' = [pc EXCEPT ![w] = to]

\* A coroutine runs when no other one keeps the loop; it keeps it or awaits.
OnLoop(o) == loop \in {Free, o}
Keep(o) == loop' = o
Await == loop' = Free

\* DraftStore.load into w's copy.
Load(w, d) ==
    /\ copy' = [copy EXCEPT ![w] = d]
    /\ stale' = [stale EXCEPT ![w] = {}]

Forget(w) == Load(w, NoDraft)

\* DraftStore.save: the copy replaces the draft, whatever was saved since.
Save(w, d, change) ==
    /\ draft' = d
    /\ copy' = [copy EXCEPT ![w] = d]
    /\ overwritten' = (overwritten \/ stale[w] # {})
    /\ stale' = [v \in Writers |->
                    IF v = w \/ copy[v] = NoDraft THEN {} ELSE stale[v] \union {change}]

-----------------------------------------------------------------------------
(* submit_text_operation and submit_voice_operation, up to the answer *)

NewRequest(o, kind) ==
    /\ o = requests + 1 /\ Kind[o] = kind
    /\ OnLoop(o)
    /\ requests' = o

\* The draft is loaded and the message appended to the copy.
SubmitText(o) ==
    /\ NewRequest(o, "message")
    /\ Load(o, WithMessage(draft, Note(o)))
    /\ Goto(o, "save_note") /\ Keep(o)
    /\ UNCHANGED <<store, todo, holder, waiting, history, overwritten>>

\* create_operation; the draft is only made sure to exist.
SubmitVoice(o) ==
    /\ NewRequest(o, "voice_turn")
    /\ op_status' = [op_status EXCEPT ![o] = "queued"]
    /\ Goto(o, "store_audio") /\ Keep(o)
    /\ UNCHANGED <<draft, claim_status, audio, todo, holder, waiting, copy, history, traced>>

\* The user's message, of a submission or of a transcribed voice note.
SaveNote(o) ==
    /\ At(o, "save_note") /\ OnLoop(o)
    /\ Save(o, copy[o], "note")
    /\ Goto(o, IF Kind[o] = "message" THEN "create" ELSE "unlink") /\ Keep(o)
    /\ UNCHANGED <<claim_status, op_status, audio, requests, todo, holder,
                   waiting, history>>

\* _schedule_operation: a task that will ask for the lock.
Schedule(o) ==
    /\ waiting' = Append(waiting, o)
    /\ Goto(o, "wait") /\ Await
    /\ UNCHANGED <<requests, todo, holder>>

CreateOperation(o) ==
    /\ At(o, "create") /\ OnLoop(o)
    /\ op_status' = [op_status EXCEPT ![o] = "queued"]
    /\ Forget(o)
    /\ Schedule(o)
    /\ UNCHANGED <<draft, claim_status, audio, history, overwritten>>

StoreAudio(o) ==
    /\ At(o, "store_audio") /\ OnLoop(o)
    /\ audio' = audio \union {o}
    /\ Schedule(o)
    /\ UNCHANGED <<draft, claim_status, op_status, copy, history, traced>>

-----------------------------------------------------------------------------
(* _run_operation: the turn, under the claim's lock *)

\* Mutant of Begin: the turn does not wait for the lock.
BeginAtOnce(o) ==
    /\ At(o, "wait") /\ OnLoop(o)
    /\ waiting # <<>> /\ o = Head(waiting)
    /\ waiting' = Tail(waiting)
    /\ holder' = o
    /\ op_status' = [op_status EXCEPT ![o] = "running"]
    /\ Goto(o, IF Kind[o] = "message" THEN "load" ELSE "hear") /\ Keep(o)
    /\ UNCHANGED <<draft, claim_status, audio, requests, todo, copy, history, traced>>

Begin(o) ==
    /\ At(o, "wait") /\ OnLoop(o)
    /\ holder = Free
    /\ waiting # <<>> /\ o = Head(waiting)
    /\ waiting' = Tail(waiting)
    /\ holder' = o
    /\ op_status' = [op_status EXCEPT ![o] = "running"]
    /\ Goto(o, IF Kind[o] = "message" THEN "load" ELSE "hear") /\ Keep(o)
    /\ UNCHANGED <<draft, claim_status, audio, requests, todo, copy, history, traced>>

\* _process_voice_turn: the upload is there and goes to the transcription.
Hear(o) ==
    /\ At(o, "hear") /\ OnLoop(o)
    /\ o \in audio
    /\ Goto(o, "transcribe") /\ Await
    /\ UNCHANGED <<store, requests, todo, holder, waiting, copy, history, traced>>

Transcribed(o) ==
    /\ At(o, "transcribe") /\ OnLoop(o)
    /\ Load(o, WithMessage(draft, Note(o)))
    /\ Goto(o, "save_note") /\ Keep(o)
    /\ UNCHANGED <<store, requests, todo, holder, waiting, history, overwritten>>

Unlink(o) ==
    /\ At(o, "unlink") /\ OnLoop(o)
    /\ audio' = audio \ {o}
    /\ Goto(o, "load") /\ Keep(o)
    /\ UNCHANGED <<draft, claim_status, op_status, requests, todo, holder,
                   waiting, copy, history, traced>>

\* Mutant of LoadDraft: the turn appends the message once more.
LoadDraftAndNote(o) ==
    /\ At(o, "load") /\ OnLoop(o)
    /\ Load(o, WithMessage(draft, Note(o)))
    /\ claim_status' = "ingesting"
    /\ Goto(o, "plan") /\ Await
    /\ UNCHANGED <<draft, op_status, audio, requests, todo, holder, waiting,
                   history, overwritten>>

\* _process_message_turn: the draft is loaded, once for the whole turn.
LoadDraft(o) ==
    /\ At(o, "load") /\ OnLoop(o)
    /\ Load(o, draft)
    /\ claim_status' = "ingesting"
    /\ Goto(o, "plan") /\ Await
    /\ UNCHANGED <<draft, op_status, audio, requests, todo, holder, waiting,
                   history, overwritten>>

\* Mutant of NextRoom: after the last room the reply is forgotten.
NextRoomOnly(o, rooms) ==
    IF rooms = <<>> THEN Goto(o, "refresh") /\ Keep(o) ELSE Goto(o, "room") /\ Await

\* Where a turn goes on with these rooms left to plan.
NextRoom(o, rooms) ==
    IF rooms = <<>> THEN Goto(o, "reply") /\ Keep(o) ELSE Goto(o, "room") /\ Await

\* The orchestrator answers with the rooms the message is about: at least one,
\* and perhaps one twice.
Plans == UNION {[1..n -> Rooms] : n \in 1..MaxPlan}

Planned(o) ==
    /\ At(o, "plan") /\ OnLoop(o)
    /\ claim_status' = "planning_rooms"
    /\ \E p \in Plans : todo' = [todo EXCEPT ![o] = p]
    /\ Goto(o, "room") /\ Await
    /\ UNCHANGED <<draft, op_status, audio, requests, holder, waiting, copy,
                   history, traced>>

\* What the planner may ask for: _apply_planner_operations on its room.
PlannerResults(items, room) ==
    LET kept == {items, ClearSection(items, room)}
                \union {RemoveLineItem(items, room, code) : code \in Codes}
    IN  kept \union (IF next_id \in ItemIds
                     THEN {AddItem(k, room, next_id) : k \in kept} ELSE {})

IdsOf(items) == {e.id : e \in items}

\* The planner answers for the next room, and the turn's copy is stored.
PlanRoom(o) ==
    /\ At(o, "room") /\ OnLoop(o)
    /\ \E items \in PlannerResults(copy[o].items, Head(todo[o])) :
        /\ Save(o, WithItems(copy[o], items), "turn")
        /\ removed' = removed \union (IdsOf(copy[o].items) \ IdsOf(items))
        /\ next_id' = IF next_id \in IdsOf(items) THEN next_id + 1 ELSE next_id
    /\ todo' = [todo EXCEPT ![o] = Tail(@)]
    /\ NextRoom(o, todo'[o])
    /\ UNCHANGED <<claim_status, op_status, audio, requests, holder, waiting,
                   decided, calls, crashes>>

\* The reply is appended, unless it says what the last message says: a model
\* that is asked again after a crash may or may not use the same words.  Those
\* of another operation are taken to differ.
Replied(d, o) ==
    {WithMessage(d, Reply(o))} \union
    (IF d.messages # <<>> /\ Last(d.messages) = Reply(o) THEN {d} ELSE {})

SaveReply(o) ==
    /\ At(o, "reply") /\ OnLoop(o)
    /\ \E d \in Replied(copy[o], o) : Save(o, d, "turn")
    /\ Goto(o, "refresh") /\ Keep(o)
    /\ UNCHANGED <<claim_status, op_status, audio, requests, todo, holder,
                   waiting, history>>

\* Mutant of RefreshStatuses: only the rooms are refreshed, not the claim.
RefreshRoomsOnly(o) ==
    /\ At(o, "refresh") /\ OnLoop(o)
    /\ Goto(o, "complete") /\ Keep(o)
    /\ UNCHANGED <<store, requests, todo, holder, waiting, copy, history, traced>>

\* refresh_review_statuses, from the turn's copy.
RefreshStatuses(o) ==
    /\ At(o, "refresh") /\ OnLoop(o)
    /\ claim_status' = StatusForDraft(copy[o].items)
    /\ Goto(o, "complete") /\ Keep(o)
    /\ UNCHANGED <<draft, op_status, audio, requests, todo, holder, waiting,
                   copy, history, traced>>

\* The turn is over and the lock is given back.
End(o, status) ==
    /\ OnLoop(o)
    /\ op_status' = [op_status EXCEPT ![o] = status]
    /\ Forget(o)
    /\ todo' = [todo EXCEPT ![o] = <<>>]
    /\ holder' = Free
    /\ Goto(o, "end") /\ Await
    /\ UNCHANGED <<draft, claim_status, audio, requests, waiting, history, overwritten>>

Complete(o) == At(o, "complete") /\ End(o, "completed")

\* A model call raises or answers with nothing to work on, or the upload of a
\* voice note is missing.
Fail(o) ==
    /\ \/ pc[o] \in {"transcribe", "plan", "room"}
       \/ At(o, "hear") /\ o \notin audio
    /\ End(o, "failed")

-----------------------------------------------------------------------------
(* The threads: set_item_status, resolve_item, accept_all, publish_draft *)

\* What a reviewer may ask for, given the items of the loaded draft.
Reviews(items) ==
    {[items |-> SetItemStatus(items, id, d), ids |-> {id}, as |-> d] :
        id \in IdsOf(items), d \in Decisions}
    \union {[items |-> ResolveItem(items, id), ids |-> {id}, as |-> "accepted"] :
        id \in IdsOf(items)}
    \union {[items |-> AcceptAll(items), ids |-> IdsOf(items), as |-> "accepted"]}

HandlerLoads(h) ==
    /\ At(h, "idle")
    /\ calls < MaxCalls
    /\ calls' = calls + 1
    /\ Load(h, draft)
    /\ Goto(h, "loaded")
    /\ UNCHANGED <<store, tasks, next_id, decided, removed, crashes, overwritten>>

\* The copy is changed and stored.
SaveReview(h) ==
    /\ At(h, "loaded")
    /\ \E r \in Reviews(copy[h].items) :
        /\ Save(h, WithItems(copy[h], r.items), "review")
        /\ decided' = [id \in ItemIds |-> IF id \in r.ids THEN r.as ELSE decided[id]]
    /\ Goto(h, "refresh")
    /\ UNCHANGED <<claim_status, op_status, audio, tasks, next_id, removed, calls, crashes>>

RefreshReview(h) ==
    /\ At(h, "refresh")
    /\ claim_status' = StatusForDraft(copy[h].items)
    /\ Forget(h)
    /\ Goto(h, "idle")
    /\ UNCHANGED <<draft, op_status, audio, tasks, history, overwritten>>

\* publish_draft turns the draft it loaded into the job, and publishes it.
StartPublish(h) ==
    /\ At(h, "loaded")
    /\ claim_status' = "publishing"
    /\ Forget(h)
    /\ Goto(h, "publishing")
    /\ UNCHANGED <<draft, op_status, audio, tasks, history, overwritten>>

\* publish_job returns, or raises and leaves the status as it is.
EndPublish(h) ==
    /\ At(h, "publishing")
    /\ claim_status' \in {"published", claim_status}
    /\ Goto(h, "idle")
    /\ UNCHANGED <<draft, op_status, audio, tasks, copy, history, traced>>

-----------------------------------------------------------------------------
\* SELECT ... WHERE status IN (...) ORDER BY created_at.
Earlier == {p \in Requests \X Requests : p[1] < p[2]}
OperationsIn(statuses) == Arranged({o \in Requests : op_status[o] \in statuses}, Earlier)

\* Mutants of Incomplete: what was queued is forgotten, what failed is tried
\* again, the latest comes first.
IncompleteRunning == OperationsIn({"running"})
IncompleteOrFailed == OperationsIn({"queued", "running", "failed"})
IncompleteLatestFirst == Reverse(OperationsIn({"queued", "running"}))

\* list_incomplete_operations.
Incomplete == OperationsIn({"queued", "running"})

\* The process is killed and started again: resume_pending_operations
\* schedules what the store still calls queued or running.
Restart ==
    /\ crashes < MaxCrashes
    /\ crashes' = crashes + 1
    /\ waiting' = Incomplete
    /\ pc' = [w \in Writers |->
                IF w \in ToSet(Incomplete) THEN "wait"
                ELSE IF w \in 1..requests THEN "end" ELSE "idle"]
    /\ copy' = [w \in Writers |-> NoDraft]
    /\ stale' = [w \in Writers |-> {}]
    /\ todo' = [o \in Requests |-> <<>>]
    /\ loop' = Free /\ holder' = Free
    /\ UNCHANGED <<store, requests, next_id, decided, removed, calls, overwritten>>

Submit(o) == SubmitText(o) \/ SubmitVoice(o)

Turn(o) ==
    \/ SaveNote(o) \/ CreateOperation(o) \/ StoreAudio(o)
    \/ Begin(o) \/ Hear(o) \/ Transcribed(o) \/ Unlink(o)
    \/ LoadDraft(o) \/ Planned(o) \/ PlanRoom(o)
    \/ SaveReply(o) \/ RefreshStatuses(o) \/ Complete(o) \/ Fail(o)

Handler(h) ==
    \/ HandlerLoads(h) \/ SaveReview(h) \/ RefreshReview(h)
    \/ StartPublish(h) \/ EndPublish(h)

Next ==
    \/ \E o \in Requests : Submit(o) \/ Turn(o)
    \/ \E h \in Handlers : Handler(h)
    \/ Restart

Spec == Init /\ [][Next]_vars

\* The event loop goes on, and every turn of a model ends: each call has a
\* timeout, but how often the planner may ask for tools in a row has no bound
\* (workflow_agents.py, RoomPlannerAgent.plan_room), so that part is assumed.
FairSpec == Spec /\ WF_vars(\E o \in Requests : Turn(o))

-----------------------------------------------------------------------------
Ended == {"completed", "failed"}

TypeOK ==
    /\ draft \in Drafts
    /\ claim_status \in {"new", "ingesting", "planning_rooms", "review_pending",
                         "approved_for_publish", "publishing", "published"}
    /\ op_status \in [Requests -> {"none", "queued", "running"} \union Ended]
    /\ audio \subseteq Requests
    /\ requests \in 0..MaxRequests
    /\ \A w \in Writers : copy[w] = NoDraft \/ copy[w] \in Drafts
    /\ todo \in [Requests -> Seq(Rooms)]
    /\ {loop, holder} \subseteq Requests \union {Free}
    /\ waiting \in Seq(Requests) /\ IsInjective(waiting)
    /\ removed \subseteq ItemIds
    /\ decided \in [ItemIds -> {"none"} \union Decisions]

\* What the claim's lock and the single event loop are for: the copy a turn
\* is to store is never older than what another turn stored, and the copy a
\* note is stored with is older than nothing but a reviewer's change.
LockAndLoopExclude ==
    \A o \in Requests :
        /\ "turn" \notin stale[o]
        /\ At(o, "save_note") => "note" \notin stale[o]

CountOf(m) == Cardinality({i \in DOMAIN draft.messages : draft.messages[i] = m})
Kept(m) == CountOf(m) > 0

\* Unless a stale copy was stored over a change, nothing that was answered for
\* is missing from the draft, whatever fails and restarts: the note of every
\* operation, the reply of every completed one, the last decision on every
\* item that no turn took out.
NothingLostUnlessOverwritten ==
    ~overwritten =>
        /\ \A o \in Requests :
            /\ Kind[o] = "message" /\ op_status[o] # "none" => Kept(Note(o))
            /\ op_status[o] = "completed" => Kept(Note(o)) /\ Kept(Reply(o))
        /\ \A id \in ItemIds \ removed :
            decided[id] # "none" =>
                \E e \in draft.items : e.id = id /\ e.status = decided[id]

\* A text is in the conversation once however often its turn is started again;
\* a voice note once more per restart at most.
NotesAreNotRepeated ==
    \A o \in Requests :
        CountOf(Note(o)) <= 1 + (IF Kind[o] = "voice_turn" THEN crashes ELSE 0)

\* Turns start in the order of their submission, also after a restart.
TurnsStartInOrder ==
    \A o, p \in Requests :
        o < p /\ op_status[p] \in {"running"} \union Ended => op_status[o] # "queued"

\* A claim shown as being drafted is: a turn of it is under way or will be,
\* unless one failed and left the claim's status behind.
ShownAsDraftedIsDrafted ==
    claim_status \in {"ingesting", "planning_rooms"} =>
        \E o \in Requests : op_status[o] \in {"queued", "running", "failed"}

\* An operation that has ended is never run again.
EndedStaysEnded ==
    [][\A o \in Requests : op_status[o] \in Ended => op_status'[o] = op_status[o]]_vars

\* Every operation ends, through restarts and failures of others.
EveryOperationEnds ==
    \A o \in Requests : op_status[o] = "queued" ~> op_status[o] \in Ended

\* "plan or publish the accepted draft": what a publication types was not
\* rejected by the last decision a reviewer saved for it.
RejectedIsNotPublished ==
    [][\A h \in Handlers : At(h, "loaded") /\ pc'[h] = "publishing" =>
          \A id \in JobItems(copy[h].items) : decided[id] # "rejected"]_vars
=============================================================================
