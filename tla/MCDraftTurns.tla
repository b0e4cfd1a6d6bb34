---------------------------- MODULE MCDraftTurns ----------------------------
(* DraftTurns on small instances: a voice note, then messages. *)
EXTENDS DraftTurns

Kinds == [o \in Requests |-> IF o = 1 THEN "voice_turn" ELSE "message"]
AllMessages == [o \in Requests |-> "message"]
=============================================================================
