------------------------- MODULE MCEstimatePlanning -------------------------
(* A catalogue of three items in two versions: the second one has another
   second item and a first item that became a heater's. *)
EXTENDS EstimatePlanning

CleanWalls == 1
CleanFoundation == 2
PaintWalls == 3

Scenario(id, room, keywords) ==
    [id |-> id, room |-> room, surface |-> {"wall"}, damage |-> {"smoke"},
     keywords |-> keywords, text |-> {}, exclusions |-> {}]
Item(code, category, selector, description) ==
    [code |-> code, category |-> category, selector |-> selector, name |-> {},
     description |-> description, details |-> {}, used |-> FALSE]
Row(item, scenarios) == [item |-> item, scenarios |-> scenarios]

FirstCatalog == {
    Row(Item(CleanWalls, "CLN", "AV", {"clean", "wall", "ceil"}),
        {Scenario(1, {"kitchen"}, {"soot"}), Scenario(2, {}, {})}),
    Row(Item(CleanFoundation, "CLN", "FW", {"clean", "foundation", "wall"}), {}),
    Row(Item(PaintWalls, "PNT", "SP", {"seal", "paint", "wall"}), {})}
SecondCatalog == {
    Row(Item(CleanWalls, "CLN", "AV", {"clean", "wall", "heater"}), {Scenario(1, {}, {"paint"})}),
    Row(Item(CleanFoundation, "CLN", "FW", {"clean", "foundation"}), {Scenario(2, {}, {})}),
    Row(Item(PaintWalls, "PNT", "SP", {"seal", "paint", "wall"}), {})}
Catalogs == [v \in {1, 2} |-> IF v = 1 THEN FirstCatalog ELSE SecondCatalog]

RoomCleaning == <<[component |-> "wall", intent |-> "clean", surface |-> "wall",
                   room_scope |-> TRUE, preferred |-> <<CleanWalls>>]>>
WallCleaning == <<[component |-> "wall", intent |-> "clean", surface |-> "wall",
                   preferred |-> <<CleanWalls, PaintWalls>>,
                   blocked_codes |-> {CleanFoundation}, blocked_terms |-> {{"heater"}}]>>

WordsOf == [t \in {"", "none", "wall", "walls", "clean", "paint", "smoke", "clean wall"} |->
               CASE t = "" -> {}
                 [] t = "clean wall" -> {"clean", "wall"}
                 [] t = "walls" -> {"wall"}
                 [] OTHER -> {t}]

ToolCall(surface, room_scope, limit) ==
    [intent |-> "clean", component |-> "walls", surface |-> surface, room |-> "",
     severity |-> "", keywords |-> "", room_scope |-> room_scope, limit |-> limit]
SomeCalls == {ToolCall("", TRUE, Null), ToolCall("wall", FALSE, 1), ToolCall("wall", FALSE, 30)}
NullCalls == {ToolCall(Null, TRUE, Null)}

Scope(text, damage, limit) ==
    [code |-> NoCode, text |-> text, room |-> "", surface |-> "wall", damage |-> damage,
     keywords |-> "", limit |-> limit]
SomeExplorations == {
    [base |-> Scope("clean wall", "smoke", 1),
     strategies |-> <<Scope("paint", "", 3), Scope("", Null, 3)>>]}

Rooms == [components |-> {"walls"}, intents |-> {"clean", "paint"}]

Line(text, approved, quantity, auto, minimum) ==
    [type |-> "line_item", approved |-> approved, quantity |-> quantity, auto |-> auto,
     minimum |-> minimum, scope |-> [Scope(text, "", Null) EXCEPT !.surface = ""]]
NoteLine == [type |-> "note", approved |-> NoCode, quantity |-> "", auto |-> TRUE, minimum |-> "high"]
SomeJobs == {
    <<NoteLine, Line("clean wall", NoCode, "W", TRUE, "high"),
      Line("", CleanFoundation, "", TRUE, "high")>>,
    <<Line("paint", NoCode, "", TRUE, "medium")>>,
    <<Line("clean wall", NoCode, "", FALSE, "low")>>}

TypedStep(kind, text, key, when) == [kind |-> kind, text |-> text, key |-> key, when |-> when]
PerItem == <<
    TypedStep("text", "category", "", "always"), TypedStep("key", "", "TAB", "always"),
    TypedStep("text", "selector", "", "always"), TypedStep("key", "", "TAB", "always"),
    TypedStep("text", "quantity", "", "has_quantity"), TypedStep("key", "", "ENTER", "always"),
    TypedStep("delay", "", "", "always")>>
Opening == <<TypedStep("key", "", "ESC", "always"), TypedStep("text", "category", "", "always")>>
NoteItems == <<TypedStep("key", "", "F9", "always")>>

SomeTexts == {<<"\r", "\n", "A", " ", "\r", "\n", "\r", "em dash", "\n">>, <<"\n", "\r">>, <<>>}
RawRow(cat, sel, cat_sel, quantity) ==
    [cat |-> cat, sel |-> sel, cat_sel |-> cat_sel, quantity |-> quantity]
SomeExports == {
    <<RawRow(<<"P", "N">>, <<"S">>, <<>>, <<"1", ",", "2">>),
      RawRow(<<"P">>, <<>>, <<"C", "/", "A", "/">>, <<"W", " ", "F">>)>>,
    <<RawRow(<<>>, <<"S">>, <<"C">>, <<"1">>)>>}
=============================================================================
