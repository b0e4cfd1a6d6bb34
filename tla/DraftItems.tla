----------------------------- MODULE DraftItems -----------------------------
(***************************************************************************)
(* The line items of a claim's draft and what EstimateDraft of             *)
(* src/xactimate_producer/drafts.py does to them.  A room stands for a     *)
(* room and a section of it, and the planner proposes one code per room:   *)
(* its quantity and wording play no part.  An id is a uuid.                *)
(***************************************************************************)
EXTENDS Integers, FiniteSets

CONSTANTS Rooms, ItemIds

Codes == {"planned", "resolved"}
Decisions == {"accepted", "rejected"}
Items == [id : ItemIds, room : Rooms, code : Codes,
          status : {"pending_review"} \union Decisions]

\* add_item: the same line is there and was not rejected.
IsDuplicate(items, room) ==
    \E e \in items : e.room = room /\ e.code = "planned" /\ e.status # "rejected"

AddItem(items, room, id) ==
    IF IsDuplicate(items, room) THEN items
    ELSE items \union {[id |-> id, room |-> room, code |-> "planned",
                        status |-> "pending_review"]}

\* clear_section; remove_line_item names a code besides.
ClearSection(items, room) == {e \in items : e.room # room}
RemoveLineItem(items, room, code) == {e \in items : e.room # room \/ e.code # code}

\* set_item_status; an unknown id changes nothing.
SetItemStatus(items, id, status) ==
    {IF e.id = id THEN [e EXCEPT !.status = status] ELSE e : e \in items}

\* resolve_item gives an item another code and accepts it.
ResolveItem(items, id) ==
    {IF e.id = id THEN [e EXCEPT !.code = "resolved", !.status = "accepted"]
     ELSE e : e \in items}

\* accept_all takes the rejected ones with it.
AcceptAll(items) == {[e EXCEPT !.status = "accepted"] : e \in items}

\* to_estimate_job: the items a publication types.
JobItems(items) == {e.id : e \in {x \in items : x.status = "accepted"}}

\* Mutant of StatusForDraft: a claim gets the status of a room.
StatusLikeRoom(items) ==
    IF \E e \in items : e.status = "pending_review" THEN "review_pending"
    ELSE IF \E e \in items : e.status = "accepted" THEN "accepted"
    ELSE "new"

\* _claim_status_for_draft
StatusForDraft(items) ==
    LET statuses == {e.status : e \in items}
    IN  IF items = {} THEN "new"
        ELSE IF "pending_review" \in statuses THEN "review_pending"
        ELSE IF "accepted" \in statuses THEN "approved_for_publish"
        ELSE "review_pending"
=============================================================================
