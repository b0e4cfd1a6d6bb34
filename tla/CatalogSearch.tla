--------------------------- MODULE CatalogSearch ---------------------------
(***************************************************************************)
(* The scoring of src/xactimate_catalog_runtime/search.py.                 *)
(*                                                                         *)
(* A text is the set of its words as SearchTokenizer leaves them: lower    *)
(* case, stemmed, stop words dropped.  A phrase inside another one is a    *)
(* subset of it.  Scores are in hundredths.  A code is a number whose      *)
(* order is the alphabetical order of the codes.  Reasons and matched      *)
(* terms, which only explain a score, are left out.                        *)
(***************************************************************************)
EXTENDS Sorting

Lesser(a, b) == IF a <= b THEN a ELSE b
Greater(a, b) == IF a >= b THEN a ELSE b
Meets(a, b) == a \intersect b # {}

Cut(list, n) == SubSeq(list, 1, Lesser(Len(list), n))

\* Sources as the tables hold them: a code has one item, and an id one scenario.
IsSource(source) ==
    /\ source.item.code \in Int
    /\ IsFiniteSet(source.item.description) /\ IsFiniteSet(source.item.details)
    /\ IsFiniteSet(source.scenarios)
    /\ \A m, n \in source.scenarios : m.id \in Int /\ (m.id = n.id => m = n)
AreSources(sources) ==
    /\ IsFiniteSet(sources)
    /\ \A s \in sources : IsSource(s)
    /\ \A s, t \in sources : s.item.code = t.item.code => s = t

-----------------------------------------------------------------------------
\* The tables.  Stemming turns "ceiling", "casing", "molding", "hanging" and
\* "opening" into other words: those entries never match.
PaintSpecialty == {"acoustic", "popcorn", "tile", "grid", "medallion", "handrail",
                   "niche", "epoxy", "elastomeric", "wallpaper", "joist"}
CleanSpecialty == {"acoustic", "popcorn", "texture", "textur", "suspended", "grid",
                   "tile", "handrail", "baseboard", "crown", "chair", "trim", "door",
                   "blind", "cabinet", "fixture"}
ActionFamilies == {
    {"clean", "wash", "wipe", "scrub", "soot", "deodor"},
    {"paint", "prime", "seal", "shellac", "coat", "repaint"},
    {"patch", "repair", "drywall", "texture", "tape", "mud", "float"},
    {"detach", "reset", "remove", "reinstall", "replace"}}

\* _SURFACE_PROFILES, and the words by which _surface_profile picks one, in
\* the order in which it looks for them.
SurfaceProfile(cues, preferred, blocked) ==
    [cues |-> cues, preferred |-> preferred, blocked |-> blocked]
SurfaceProfiles == <<
    SurfaceProfile({"baseboard"}, {"baseboard"}, {"heater"}),
    SurfaceProfile({"crown", "chair", "trim", "casing", "molding"},
            {"trim", "crown", "chair", "corner", "casing", "baseboard", "molding"},
            {"heater", "blind", "window", "door", "fan"}),
    SurfaceProfile({"door", "jamb", "open"}, {"door", "jamb", "casing", "open"},
            {"window", "blind", "heater", "fan"}),
    SurfaceProfile({"ceil", "ceiling"},
            {"ceil", "acoustic", "popcorn", "texture", "textur", "grid", "tile", "suspended"},
            {"fan", "light", "fixture", "medallion"}),
    SurfaceProfile({"floor", "carpet", "tile", "wood", "vinyl", "lvp", "laminate"},
            {"floor", "carpet", "tile", "wood", "vinyl", "lvp", "laminate"},
            {"wall", "ceiling", "baseboard"}),
    SurfaceProfile({"wall", "wallpaper", "plaster", "drywall"},
            {"wall", "wallpaper", "stud", "foundation", "drywall", "plaster"},
            {"ac", "unit", "heater", "hanging", "shelf", "handrail", "cover", "blind",
             "window", "door", "opening", "cove"})>>

PhraseGroups == {
    <<{"paint", "ceil"}, 800>>, <<{"paint", "wall"}, 800>>,
    <<{"clean", "baseboard"}, 900>>, <<{"clean", "trim"}, 800>>,
    <<{"clean", "door"}, 800>>, <<{"seal", "paint"}, 600>>,
    <<{"drywall", "patch"}, 800>>, <<{"carpet", "protect"}, 800>>,
    <<{"protect", "coat", "carpet"}, 1000>>, <<{"acoustic", "ceil"}, 600>>}

-----------------------------------------------------------------------------
\* SearchTokenizer.query_tokens: the words of the room do not count.
QueryTokens(query) ==
    (query.text \union query.surface \union query.damage \union query.keywords)
        \ query.room

PreferredCategories(tokens) ==
    {c \in {"PNT", "DRY", "CLN"} :
        Meets(tokens,
             CASE c = "PNT" -> {"paint", "prime", "seal", "shellac", "coat", "repaint"}
               [] c = "DRY" -> {"drywall", "patch", "texture", "popcorn", "float", "tape", "mud"}
               [] c = "CLN" -> {"carpet", "clean", "deodorize", "protect", "coat"})}

IsEmptyQuery(query) ==
    query.room = {} /\ query.surface = {} /\ query.damage = {} /\ QueryTokens(query) = {}

-----------------------------------------------------------------------------
\* _structured_field_reason: all of the weight for the same phrase, a part of
\* it when one contains the other.
FieldMatch(asked, said, weight, percent) ==
    IF asked = {} \/ said = {} THEN 0
    ELSE IF asked = said THEN weight
    ELSE IF said \subseteq asked \/ asked \subseteq said THEN (weight * percent) \div 100
    ELSE 0

\* _score_scenario
ScenarioScore(scenario, query) ==
    LET tokens == QueryTokens(query)
    IN  FieldMatch(query.room, scenario.room, 1800, 65)
        + FieldMatch(query.surface, scenario.surface, 1600, 65)
        + FieldMatch(query.damage, scenario.damage, 1800, 40)
        + 600 * Cardinality(tokens \intersect scenario.keywords)
        + 300 * Cardinality(tokens \intersect scenario.text)
        - 400 * Cardinality(tokens \intersect scenario.exclusions)

\* _field_overlap_reason: the weight, by the share of the words that are found.
FieldOverlap(asked, said, weight) ==
    LET overlap == Cardinality(asked \intersect said)
        words == Cardinality(asked)
    IN  IF overlap = 0 THEN 0 ELSE (2 * weight * overlap + words) \div (2 * words)

\* _generic_scope_bonus: plain painting and washing of walls and ceilings.
GenericScopeBonus(item, tokens) ==
    LET categories == PreferredCategories(tokens)
        large == Meets(tokens, {"wall", "ceil"})
    IN  IF /\ item.category = "PNT" /\ "PNT" \in categories
           /\ Meets(tokens, {"paint", "prime", "seal"}) /\ large
           /\ item.selector \in {"SP", "SP+", "SP2", "SP2+"}
        THEN IF Meets(tokens, PaintSpecialty) THEN 600 ELSE 1800
        ELSE IF /\ item.category = "CLN" /\ "CLN" \in categories
                /\ "clean" \in tokens /\ large
                /\ item.selector \in {"AV", "AV+", "AV-"}
        THEN IF Meets(tokens, CleanSpecialty) THEN 800 ELSE 2400
        ELSE 0

\* _phrase_bonus: the best group that the query and the item share.
PhraseBonus(item, tokens) ==
    LET shared == {g[2] : g \in {p \in PhraseGroups :
                                    p[1] \subseteq tokens \intersect item.description}}
    IN  IF shared = {} THEN 0 ELSE CHOOSE s \in shared : \A t \in shared : t <= s

\* _surface_alignment_reasons with _surface_profile: words that fit the surface
\* count for the item, words of a more special component against it, unless
\* the query has them too.
SurfaceAlignment(item, query) ==
    LET tokens == QueryTokens(query)
        pool == query.surface \union tokens
        fitting == {i \in DOMAIN SurfaceProfiles : Meets(pool, SurfaceProfiles[i].cues)}
        profile == SurfaceProfiles[CHOOSE i \in fitting : \A j \in fitting : i <= j]
        words == item.description \union item.details
        preferred == Cardinality(words \intersect profile.preferred)
        blocked == Cardinality((words \intersect profile.blocked) \ tokens)
    IN  IF fitting = {} THEN 0
        ELSE (IF preferred = 0 THEN 0 ELSE Lesser(1000, 400 + 200 * preferred))
             - (IF blocked = 0 THEN 0 ELSE Lesser(1800, 1000 + 300 * blocked))

\* _action_coverage_reason: a request for two kinds of work at once.
ActionCoverage(item, tokens) ==
    LET requested == {f \in ActionFamilies : Meets(tokens, f)}
        missing == {f \in requested : ~Meets(item.description \union item.details, f)}
    IN  IF Cardinality(requested) <= 1 THEN 0
        ELSE IF missing = {} THEN 400
        ELSE -Lesser(1600, 800 * Cardinality(missing))

-----------------------------------------------------------------------------
\* _confidence_level
ConfidenceLevel(score, highlights) ==
    IF score >= 4200 \/ (score >= 3400 /\ highlights # <<>>) THEN "high"
    ELSE IF score >= 2000 THEN "medium" ELSE "low"

\* The scenarios that count, best first and among equals the oldest first.
ScoredScenarios(scenarios, query) ==
    LET Score(s) == ScenarioScore(s, query)
        counted == {s \in scenarios : Score(s) > 0}
    IN  Arranged(counted, {p \in counted \X counted :
                             \/ Score(p[1]) > Score(p[2])
                             \/ Score(p[1]) = Score(p[2]) /\ p[1].id < p[2].id})

\* _candidate, up to its score: a source is an item with its scenarios.
SourceScore(source, query) ==
    LET item == source.item
        tokens == QueryTokens(query)
        categories == PreferredCategories(tokens)
        scored == ScoredScenarios(source.scenarios, query)
        saved == Cardinality(source.scenarios)
    IN  800 * Cardinality(tokens \intersect item.name)
        + 700 * Cardinality(tokens \intersect item.description)
        + 50 * Cardinality((tokens \intersect item.details)
                               \ (item.description \union item.name))
        + (IF categories = {} THEN 0 ELSE IF item.category \in categories THEN 1200 ELSE -1000)
        + FieldOverlap(query.surface, item.description, 600)
        + FieldOverlap(query.damage, item.description, 600)
        + FieldOverlap(query.damage, item.details, 150)
        + PhraseBonus(item, tokens)
        + GenericScopeBonus(item, tokens)
        + SurfaceAlignment(item, query)
        + ActionCoverage(item, tokens)
        + (IF scored = <<>> THEN 0 ELSE ScenarioScore(scored[1], query))
        + (IF saved > 1 THEN Lesser(150 * (saved - 1), 600) ELSE 0)
        + (IF item.used THEN 200 ELSE 0)

\* _candidate
Candidate(source, query) ==
    LET scored == ScoredScenarios(source.scenarios, query)
        highlights == Cut(scored, 3)
        score == SourceScore(source, query)
    IN  [item |-> source.item, score |-> score, highlights |-> highlights,
         confidence |-> ConfidenceLevel(score, highlights)]

\* Candidates in the order in which they are shown: by score, then by code.
Ranked(candidates) ==
    Arranged(candidates,
             {p \in candidates \X candidates :
                 \/ p[1].score > p[2].score
                 \/ p[1].score = p[2].score /\ p[1].item.code < p[2].item.code})

\* recommend
Recommend(query, sources, limit) ==
    IF IsEmptyQuery(query) THEN <<>>
    ELSE Cut(Ranked({Candidate(s, query) : s \in {x \in sources : SourceScore(x, query) > 0}}),
             Greater(1, Lesser(limit, 20)))
=============================================================================
