-------------------------- MODULE CatalogDatabase --------------------------
(***************************************************************************)
(* The catalogue's SQLite file, src/xactimate_catalog_runtime/             *)
(* repository.py: build_runtime_database writes a new file aside and       *)
(* renames it over the old one, while RuntimeCatalogRepository answers     *)
(* requests from the file that has the name.  Every method opens           *)
(* connections of its own; a connection keeps the file that it opened,     *)
(* whatever is renamed over it.                                            *)
(*                                                                         *)
(* A file is the version of the export it is built from and how far the    *)
(* build came.  Full-text search is by whole words.                        *)
(***************************************************************************)
EXTENDS CatalogSearch

CONSTANTS
    Versions,       \* exports of the curator that may be built, in any order
    Catalog,        \* version -> its sources, each an item with its scenarios
    ItemLimit,      \* LIMIT of the full-text search of items (80)
    ScenarioLimit,  \* LIMIT of the full-text search of scenarios (120)
    FallbackLimit,  \* LIMIT of the listing when nothing matches (120)
    MaxBuilds,      \* bound on the builds
    NoFile          \* the name is not taken

ASSUME CatalogAssumption == \A v \in Versions : AreSources(Catalog[v])
ASSUME MaxBuildsAssumption == MaxBuilds \in Nat

VARIABLES
    database,  \* the file at database_path
    builder,   \* the file being built aside, or NoFile
    builds     \* how many builds were started

database_vars == <<database, builder, builds>>

Stages == {"created", "schema", "loaded"}
Files == [version : Versions, stage : Stages]

DatabaseTypeOK ==
    /\ database \in Files \union {NoFile}
    /\ builder \in Files \union {NoFile}
    /\ builds \in 0..MaxBuilds

DatabaseInit ==
    /\ database = NoFile
    /\ builder = NoFile
    /\ builds = 0

-----------------------------------------------------------------------------
\* The export is read and NamedTemporaryFile creates a file of another name.
CreateTemporary(version) ==
    /\ builder = NoFile
    /\ builds < MaxBuilds
    /\ builder' = [version |-> version, stage |-> "created"]
    /\ builds' = builds + 1
    /\ UNCHANGED database

\* Mutant of InitializeSchema: the tables are created in the file that is read.
InitializeInPlace ==
    /\ builder # NoFile
    /\ builder.stage = "created"
    /\ builder' = [builder EXCEPT !.stage = "schema"]
    /\ database' = builder'
    /\ UNCHANGED builds

\* _initialize_schema, one transaction
InitializeSchema ==
    /\ builder # NoFile
    /\ builder.stage = "created"
    /\ builder' = [builder EXCEPT !.stage = "schema"]
    /\ UNCHANGED <<database, builds>>

\* _load_export, one transaction
LoadExport ==
    /\ builder # NoFile
    /\ builder.stage = "schema"
    /\ builder' = [builder EXCEPT !.stage = "loaded"]
    /\ UNCHANGED <<database, builds>>

\* os.replace
Replace ==
    /\ builder # NoFile
    /\ builder.stage = "loaded"
    /\ database' = builder
    /\ builder' = NoFile
    /\ UNCHANGED builds

\* An exception removes the file; a kill leaves it under its own name, where
\* no later build finds it.
AbandonBuild ==
    /\ builder # NoFile
    /\ builder' = NoFile
    /\ UNCHANGED <<database, builds>>

DatabaseNext ==
    \/ \E v \in Versions : CreateTemporary(v)
    \/ InitializeSchema
    \/ LoadExport
    \/ Replace
    \/ AbandonBuild

-----------------------------------------------------------------------------
\* The rows of a file: none before the export is loaded.
Sources(file) == IF file.stage = "loaded" THEN Catalog[file.version] ELSE {}
CodesOf(sources) == {s.item.code : s \in sources}

\* At most n of the matches come back, in no order.
Limited(S, n) ==
    IF Cardinality(S) <= n THEN {S} ELSE {T \in SUBSET S : Cardinality(T) = n}

ItemWords(item) == item.name \union item.description \union item.details
ScenarioWords(scenario) ==
    scenario.room \union scenario.surface \union scenario.damage
        \union scenario.keywords \union scenario.text \union scenario.exclusions

\* _candidate_codes, one connection: the item of a code that the query spells
\* out, what the two full-text searches find, and everything in the categories
\* the query speaks of; when that is nothing, the first items of the catalogue.
CandidateCodes(file, query) ==
    LET rows == Sources(file)
        tokens == QueryTokens(query)
        exact == {query.code} \intersect CodesOf(rows)
        categories == PreferredCategories(tokens)
        inCategory == CodesOf({s \in rows : s.item.category \in categories})
        items == CodesOf({s \in rows : tokens \intersect ItemWords(s.item) # {}})
        scenarios == CodesOf({s \in rows : \E n \in s.scenarios :
                                              tokens \intersect ScenarioWords(n) # {}})
        first == {c \in CodesOf(rows) :
                     Cardinality({d \in CodesOf(rows) : d < c}) < FallbackLimit}
        collected == {exact \union i \union n \union inCategory :
                         i \in Limited(items, ItemLimit),
                         n \in Limited(scenarios, ScenarioLimit)}
    IN  IF tokens = {} THEN {CodesOf(rows)}
        ELSE {IF codes = {} THEN first ELSE codes : codes \in collected}

\* _load_sources, its two statements on one connection
ItemRows(file, codes) == {s.item : s \in {x \in Sources(file) : x.item.code \in codes}}
ScenariosOf(file, code) == UNION {s.scenarios : s \in {x \in Sources(file) : x.item.code = code}}
JoinScenarios(file, items) ==
    {[item |-> i, scenarios |-> ScenariosOf(file, i.code)] : i \in items}

\* get_item: the item of a code, or none
GetItem(file, code) == ItemRows(file, {code})

-----------------------------------------------------------------------------
\* Readers never meet a file without its rows, though builds fail and are
\* killed at any point (repository.py, build_runtime_database).
DatabaseIsWhole == database # NoFile => database.stage = "loaded"
=============================================================================
