---------------------------- MODULE OrderedTyping ----------------------------
(***************************************************************************)
(* What the bridge promises of the keystrokes, seen from the Teensy: the   *)
(* commands come in order of seq, each once, except that the last one may  *)
(* be repeated for as long as it is not noted down as applied: the process *)
(* was killed before that, or sending it failed when all of it was out.    *)
(***************************************************************************)
EXTENDS Integers, Sequences, SequencesExt

CONSTANT Seqs

VARIABLES
    out,     \* what the Teensy received
    again    \* the last one is due once more

Init == out = <<>> /\ again = FALSE

\* The send may fail in the end, and the command will be sent again.
Type(s) ==
    /\ ~again
    /\ out = <<>> \/ s > Last(out)
    /\ out' = Append(out, s)
    /\ again' \in BOOLEAN

\* Killed between the keystrokes and the note of them.
Kill ==
    /\ ~again /\ out # <<>>
    /\ again' = TRUE
    /\ UNCHANGED out

Retype ==
    /\ again
    /\ out' = Append(out, Last(out))
    /\ again' \in BOOLEAN

Next == Kill \/ Retype \/ \E s \in Seqs : Type(s)

Spec == Init /\ [][Next]_<<out, again>>
=============================================================================
