--------------------------- MODULE OutputCommands ---------------------------
(***************************************************************************)
(* Keystrokes without a catalogue: a text that is typed as it stands       *)
(* (direct_output.py) and rows of category, selector and quantity that go  *)
(* into the grid of an estimate (estimate_export.py).                      *)
(*                                                                         *)
(* A text is a sequence of characters; letters are upper case and blanks   *)
(* around a cell, and around the slash of a code in one piece, are gone.   *)
(* The delays between keys are left out.                                   *)
(***************************************************************************)
EXTENDS Integers, FiniteSets, Sequences, SequencesExt

LineFeed == "\n"
Return == "\r"

\* What a text may hold: the names of keys are no characters.
KeyNames == {"SPACE", "TAB", "ENTER"}
IsPlain(text) ==
    LET characters == {text[n] : n \in DOMAIN text}
    IN  text \in Seq(characters) /\ characters \intersect KeyNames = {}

\* _key_token_for_character, of both services
KeyToken(character) ==
    CASE character = " " -> "SPACE" [] character = "\t" -> "TAB" [] OTHER -> character

\* A key is typed for a line of the estimate, or for none.
Keystroke(key) == [kind |-> "key", text |-> "", key |-> key, line |-> 0]
ResetModifiers == [kind |-> "upall", text |-> "", key |-> "", line |-> 0]
Keystrokes(cell) == [n \in DOMAIN cell |-> Keystroke(KeyToken(cell[n]))]

-----------------------------------------------------------------------------
\* _normalize_text: line breaks of every system become one character, what a
\* keyboard lacks is replaced, and line breaks at the ends go.
Typable(character) ==
    CASE character = "no-break space" -> " "
      [] character \in {"left single quote", "right single quote"} -> "'"
      [] character \in {"left double quote", "right double quote"} -> "\""
      [] character \in {"en dash", "em dash"} -> "-"
      [] character = Return -> LineFeed
      [] OTHER -> character
NormalizeText(text) ==
    LET InPair(n) == text[n] = Return /\ n < Len(text) /\ text[n + 1] = LineFeed
        plain == FlattenSeq([n \in DOMAIN text |->
                                IF InPair(n) THEN <<>> ELSE <<Typable(text[n])>>])
        solid == {n \in DOMAIN plain : plain[n] # LineFeed}
        first == CHOOSE n \in solid : \A o \in solid : n <= o
        last == CHOOSE n \in solid : \A o \in solid : o <= n
    IN  IF solid = {} THEN <<>> ELSE SubSeq(plain, first, last)

\* compile_text_commands, of a text that is normalized
TextCommands(text, append_enter) ==
    <<ResetModifiers>>
        \o [n \in DOMAIN text |->
              IF text[n] = LineFeed THEN Keystroke("ENTER") ELSE Keystroke(KeyToken(text[n]))]
        \o (IF append_enter THEN <<Keystroke("ENTER")>> ELSE <<>>)

-----------------------------------------------------------------------------
\* EstimateExportRow.from_payload: the code in one piece, at its first slash,
\* serves when a part is missing; a row that stays incomplete raises.
ExportRow(raw) ==
    LET slashes == {n \in DOMAIN raw.cat_sel : raw.cat_sel[n] = "/"}
        slash == CHOOSE n \in slashes : \A o \in slashes : n <= o
        incomplete == raw.cat = <<>> \/ raw.sel = <<>>
    IN  IF incomplete /\ slashes # {}
        THEN [cat |-> SubSeq(raw.cat_sel, 1, slash - 1),
              sel |-> SubSeq(raw.cat_sel, slash + 1, Len(raw.cat_sel)),
              quantity |-> raw.quantity]
        ELSE [cat |-> raw.cat, sel |-> raw.sel, quantity |-> raw.quantity]
RowIsComplete(row) == row.cat # <<>> /\ row.sel # <<>> /\ row.quantity # <<>>

\* compile_row_commands
RowCommands(rows) ==
    <<ResetModifiers>>
        \o FlattenSeq([i \in DOMAIN rows |->
              Keystrokes(rows[i].cat) \o <<Keystroke("TAB")>>
                  \o Keystrokes(rows[i].sel) \o <<Keystroke("TAB")>>
                  \o Keystrokes(rows[i].quantity) \o <<Keystroke("ENTER")>>])

-----------------------------------------------------------------------------
\* What the keys mean on the screen: a text is what its keys spell, and in the
\* grid TAB goes to the next cell and ENTER to the next row.
Spelled(commands) ==
    [n \in DOMAIN commands |->
        CASE commands[n].key = "SPACE" -> " " [] commands[n].key = "TAB" -> "\t"
          [] commands[n].key = "ENTER" -> LineFeed [] OTHER -> commands[n].key]

KeysBefore(commands, n, key) == {o \in 1..(n - 1) : commands[o].key = key}
CellOf(commands, n) ==
    LET enters == KeysBefore(commands, n, "ENTER")
        tabs == {o \in KeysBefore(commands, n, "TAB") : \A e \in enters : e < o}
    IN  <<Cardinality(enters) + 1, Cardinality(tabs) + 1>>
KeysIn(commands, cell) ==
    {n \in DOMAIN commands : /\ commands[n].kind = "key"
                             /\ commands[n].key \notin {"TAB", "ENTER"}
                             /\ CellOf(commands, n) = cell}
\* The keys of a cell follow on one another, and spell what is in it.
IsFilled(commands, cell, text) ==
    LET keys == KeysIn(commands, cell)
    IN  \E before \in 0..Len(commands) :
            /\ keys = (before + 1)..(before + Len(text))
            /\ \A k \in DOMAIN text : Spelled(commands)[before + k] = text[k]
=============================================================================
