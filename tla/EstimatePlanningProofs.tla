----------------------- MODULE EstimatePlanningProofs -----------------------
(***************************************************************************)
(* For every catalogue, policy, room and job, any number of turns, calls   *)
(* and builds, and whatever the language model asks for: readers never see *)
(* half a catalogue, an answer stands in one catalogue, the planner sees   *)
(* nothing that the policy blocks, merged searches keep the best, and only *)
(* what was decided is typed.                                              *)
(*                                                                         *)
(* The invariants are proved one after the other, each with the ones       *)
(* before it at hand.                                                      *)
(***************************************************************************)
EXTENDS EstimatePlanning, OrderLemmas

-----------------------------------------------------------------------------
(* The ranking of search.py and the merge of explore_strategies *)

\* A sequence that is cut keeps its beginning.
LEMMA CutKeepsTheBeginning ==
    ASSUME NEW S, NEW list \in Seq(S), NEW n \in Nat
    PROVE  /\ Cut(list, n) \in Seq(S)
           /\ Len(Cut(list, n)) = Lesser(Len(list), n)
           /\ \A i \in DOMAIN Cut(list, n) : i \in DOMAIN list /\ Cut(list, n)[i] = list[i]
           /\ Elements(Cut(list, n)) \subseteq Elements(list)
<1> DEFINE m == Lesser(Len(list), n)
           cut == Cut(list, n)
<1>1. m \in 0..Len(list)
  BY DEF Lesser
<1>2. cut = SubSeq(list, 1, m)
  BY DEF Cut
<1> HIDE DEF m, cut
<1>3. cut \in Seq(S) /\ Len(cut) = m /\ \A i \in 1..m : cut[i] = list[i]
  BY <1>1, <1>2
<1>4. DOMAIN cut = 1..m /\ DOMAIN list = 1..Len(list)
  BY <1>1, <1>3
<1>5. \A i \in DOMAIN cut : i \in DOMAIN list /\ cut[i] = list[i]
  BY <1>1, <1>3, <1>4
<1>6. Elements(cut) \subseteq Elements(list)
  BY <1>5 DEF Elements
<1> QED BY <1>3, <1>5, <1>6 DEF m, cut

-----------------------------------------------------------------------------
(* Scores are numbers *)

\* A query of finitely many words; the words of its room do not matter.
IsQuery(query) ==
    /\ IsFiniteSet(query.text) /\ IsFiniteSet(query.surface)
    /\ IsFiniteSet(query.damage) /\ IsFiniteSet(query.keywords)

LEMMA TokensAreFinite ==
    ASSUME NEW query, IsQuery(query)
    PROVE  IsFiniteSet(QueryTokens(query))
BY FS_Union, FS_Difference DEF IsQuery, QueryTokens

LEMMA SharedWordsAreCounted ==
    ASSUME NEW S, IsFiniteSet(S), NEW T
    PROVE  /\ Cardinality(S \intersect T) \in Nat
           /\ Cardinality(T \intersect S) \in Nat
           /\ Cardinality(S \intersect T) <= Cardinality(S)
BY FS_Intersection, FS_CardinalityType

LEMMA FieldMatchIsInt ==
    ASSUME NEW asked, NEW said, NEW weight \in Int, NEW percent \in Int
    PROVE  FieldMatch(asked, said, weight, percent) \in Int
<1>1. weight * percent \in Int
  OBVIOUS
<1>2. (weight * percent) \div 100 \in Int
  BY <1>1
<1> QED BY <1>2 DEF FieldMatch

LEMMA ScenarioScoreIsInt ==
    ASSUME NEW scenario, NEW query, IsQuery(query)
    PROVE  ScenarioScore(scenario, query) \in Int
<1> DEFINE room == FieldMatch(query.room, scenario.room, 1800, 65)
           surface == FieldMatch(query.surface, scenario.surface, 1600, 65)
           damage == FieldMatch(query.damage, scenario.damage, 1800, 40)
           keywords == Cardinality(QueryTokens(query) \intersect scenario.keywords)
           text == Cardinality(QueryTokens(query) \intersect scenario.text)
           exclusions == Cardinality(QueryTokens(query) \intersect scenario.exclusions)
<1>1. {room, surface, damage} \subseteq Int
  BY FieldMatchIsInt
<1>2. IsFiniteSet(QueryTokens(query))
  BY TokensAreFinite
<1>4. keywords \in Int /\ text \in Int /\ exclusions \in Int
  BY <1>2, SharedWordsAreCounted
<1>3. ScenarioScore(scenario, query) =
        room + surface + damage + 600 * keywords + 300 * text - 400 * exclusions
  BY DEF ScenarioScore
<1> HIDE DEF room, surface, damage, keywords, text, exclusions
<1> QED BY <1>1, <1>3, <1>4

LEMMA FieldOverlapIsInt ==
    ASSUME NEW asked, IsFiniteSet(asked), NEW said, NEW weight \in Int
    PROVE  FieldOverlap(asked, said, weight) \in Int
<1> DEFINE overlap == Cardinality(asked \intersect said)
           words == Cardinality(asked)
<1>1. overlap \in Nat /\ words \in Nat /\ overlap <= words
  BY SharedWordsAreCounted, FS_CardinalityType
<1>2. FieldOverlap(asked, said, weight) =
        IF overlap = 0 THEN 0 ELSE (2 * weight * overlap + words) \div (2 * words)
  BY DEF FieldOverlap
<1> HIDE DEF overlap, words
<1>3. 2 * weight * overlap + words \in Int /\ 2 * words \in Int
  BY <1>1
<1>4. ASSUME overlap # 0
      PROVE  (2 * weight * overlap + words) \div (2 * words) \in Int
  <2>1. 2 * words > 0
    BY <1>1, <1>4
  <2>2. \A a \in Int, b \in Int : b > 0 => a \div b \in Int
    OBVIOUS
  <2> QED BY <1>3, <2>1, <2>2
<1> QED BY <1>2, <1>4

LEMMA PhraseBonusIsInt ==
    ASSUME NEW item, NEW tokens
    PROVE  PhraseBonus(item, tokens) \in Int
<1> DEFINE groups == {p \in PhraseGroups : p[1] \subseteq tokens \intersect item.description}
           shared == {g[2] : g \in groups}
<1>1. shared \subseteq {600, 800, 900, 1000}
  BY DEF PhraseGroups
<1>2. PhraseBonus(item, tokens) =
        IF shared = {} THEN 0 ELSE CHOOSE s \in shared : \A t \in shared : t <= s
  BY DEF PhraseBonus
<1> HIDE DEF shared
<1>3. ASSUME shared # {} PROVE \E s \in shared : \A t \in shared : t <= s
  <2> DEFINE best == IF 1000 \in shared THEN 1000 ELSE IF 900 \in shared THEN 900
                     ELSE IF 800 \in shared THEN 800 ELSE 600
  <2>1. best \in shared
    <3>1. PICK s \in shared : TRUE
      BY <1>3
    <3>2. s \in {600, 800, 900, 1000}
      BY <1>1
    <3> QED BY <3>2
  <2>2. \A t \in shared : t <= best
    BY <1>1
  <2> QED BY <2>1, <2>2
<1> DEFINE best == CHOOSE s \in shared : \A t \in shared : t <= s
<1>4. shared # {} => best \in shared
  BY <1>3, Zenon
<1>5. shared \subseteq Int
  BY <1>1
<1> HIDE DEF best
<1>6. shared # {} => best \in Int
  BY <1>4, <1>5
<1>7. PhraseBonus(item, tokens) = IF shared = {} THEN 0 ELSE best
  BY <1>2, Zenon DEF best
<1> QED BY <1>6, <1>7

LEMMA GenericScopeBonusIsInt ==
    ASSUME NEW item, NEW tokens
    PROVE  GenericScopeBonus(item, tokens) \in Int
BY DEF GenericScopeBonus

LEMMA SurfaceAlignmentIsInt ==
    ASSUME NEW item, IsFiniteSet(item.description), IsFiniteSet(item.details), NEW query
    PROVE  SurfaceAlignment(item, query) \in Int
<1> DEFINE tokens == QueryTokens(query)
           pool == query.surface \union tokens
           fitting == {i \in DOMAIN SurfaceProfiles : Meets(pool, SurfaceProfiles[i].cues)}
           profile == SurfaceProfiles[CHOOSE i \in fitting : \A j \in fitting : i <= j]
           words == item.description \union item.details
           preferred == Cardinality(words \intersect profile.preferred)
           blocked == Cardinality((words \intersect profile.blocked) \ tokens)
<1>1. IsFiniteSet(words)
  BY FS_Union
<1>2. preferred \in Int
  <2> HIDE DEF words, profile
  <2> QED BY <1>1, SharedWordsAreCounted
<1>3. blocked \in Int
  <2> HIDE DEF words, profile, tokens
  <2>1. IsFiniteSet(words \intersect profile.blocked)
    BY <1>1, FS_Intersection
  <2>2. IsFiniteSet((words \intersect profile.blocked) \ tokens)
    BY <2>1, FS_Difference
  <2> QED BY <2>2, FS_CardinalityType
<1>4. SurfaceAlignment(item, query) =
        IF fitting = {} THEN 0
        ELSE (IF preferred = 0 THEN 0 ELSE Lesser(1000, 400 + 200 * preferred))
             - (IF blocked = 0 THEN 0 ELSE Lesser(1800, 1000 + 300 * blocked))
  BY DEF SurfaceAlignment
<1> HIDE DEF fitting, preferred, blocked
<1> QED BY <1>2, <1>3, <1>4 DEF Lesser

LEMMA FourAreFinite ==
    ASSUME NEW a, NEW b, NEW c, NEW d
    PROVE  IsFiniteSet({a, b, c, d})
<1>1. IsFiniteSet({a})
  BY FS_Singleton
<1>2. IsFiniteSet({a} \union {b})
  BY <1>1, FS_AddElement
<1>3. IsFiniteSet(({a} \union {b}) \union {c})
  BY <1>2, FS_AddElement
<1>4. IsFiniteSet((({a} \union {b}) \union {c}) \union {d})
  BY <1>3, FS_AddElement
<1>5. {a, b, c, d} = (({a} \union {b}) \union {c}) \union {d}
  OBVIOUS
<1> QED BY <1>4, <1>5

LEMMA ActionCoverageIsInt ==
    ASSUME NEW item, NEW tokens
    PROVE  ActionCoverage(item, tokens) \in Int
<1> DEFINE requested == {f \in ActionFamilies : Meets(tokens, f)}
           missing == {f \in requested : ~Meets(item.description \union item.details, f)}
<1>1. IsFiniteSet(ActionFamilies)
  BY FourAreFinite DEF ActionFamilies
<1>2. missing \in SUBSET ActionFamilies
  OBVIOUS
<1>3. ActionCoverage(item, tokens) =
        IF Cardinality(requested) <= 1 THEN 0
        ELSE IF missing = {} THEN 400
        ELSE -Lesser(1600, 800 * Cardinality(missing))
  BY DEF ActionCoverage
<1> HIDE DEF requested, missing
<1>4. IsFiniteSet(missing)
  BY <1>1, <1>2, FS_Subset
<1>5. Cardinality(missing) \in Int
  BY <1>4, FS_CardinalityType
<1> QED BY <1>3, <1>5 DEF Lesser

LEMMA SourceScoreIsInt ==
    ASSUME NEW source, IsSource(source), NEW query, IsQuery(query)
    PROVE  SourceScore(source, query) \in Int
<1> DEFINE item == source.item
           tokens == QueryTokens(query)
           categories == PreferredCategories(tokens)
           scored == ScoredScenarios(source.scenarios, query)
           saved == Cardinality(source.scenarios)
           name == Cardinality(tokens \intersect item.name)
           description == Cardinality(tokens \intersect item.description)
           details == Cardinality((tokens \intersect item.details)
                                      \ (item.description \union item.name))
           surface == FieldOverlap(query.surface, item.description, 600)
           damage == FieldOverlap(query.damage, item.description, 600)
           detail == FieldOverlap(query.damage, item.details, 150)
           phrase == PhraseBonus(item, tokens)
           generic == GenericScopeBonus(item, tokens)
           aligned == SurfaceAlignment(item, query)
           covered == ActionCoverage(item, tokens)
           best == ScenarioScore(scored[1], query)
<1>1. IsFiniteSet(tokens)
  BY TokensAreFinite
<1>2. name \in Int /\ description \in Int
  <2> HIDE DEF tokens
  <2> QED BY <1>1, SharedWordsAreCounted
<1>3. details \in Int
  <2> HIDE DEF tokens, item
  <2>1. IsFiniteSet(tokens \intersect item.details)
    BY <1>1, FS_Intersection
  <2>2. IsFiniteSet((tokens \intersect item.details) \ (item.description \union item.name))
    BY <2>1, FS_Difference
  <2> QED BY <2>2, FS_CardinalityType
<1>4. surface \in Int /\ damage \in Int /\ detail \in Int
  BY FieldOverlapIsInt DEF IsQuery
<1>5. phrase \in Int /\ generic \in Int /\ covered \in Int
  BY PhraseBonusIsInt, GenericScopeBonusIsInt, ActionCoverageIsInt
<1>6. aligned \in Int
  BY SurfaceAlignmentIsInt DEF IsSource
<1>7. best \in Int
  BY ScenarioScoreIsInt
<1>8. saved \in Int
  BY FS_CardinalityType DEF IsSource
<1>9. SourceScore(source, query) =
        800 * name + 700 * description + 50 * details
        + (IF categories = {} THEN 0 ELSE IF item.category \in categories THEN 1200 ELSE -1000)
        + surface + damage + detail + phrase + generic + aligned + covered
        + (IF scored = <<>> THEN 0 ELSE best)
        + (IF saved > 1 THEN Lesser(150 * (saved - 1), 600) ELSE 0)
        + (IF item.used THEN 200 ELSE 0)
  BY DEF SourceScore
<1> HIDE DEF tokens, categories, scored, saved, name, description, details, surface, damage,
             detail, phrase, generic, aligned, covered, best
<1> QED BY <1>2, <1>3, <1>4, <1>5, <1>6, <1>7, <1>8, <1>9 DEF Lesser

-----------------------------------------------------------------------------
(* Candidates and recommendations *)

Confidences == {"low", "medium", "high"}
IsCandidate(c) ==
    /\ c \in [item : {c.item}, score : Int, highlights : {c.highlights}, confidence : Confidences]
    /\ c.item.code \in Int
OneOfACode(S) == \A c, d \in S : c.item.code = d.item.code => c = d

\* A list of candidates, no code twice.
IsList(list) ==
    /\ list \in Seq(Elements(list))
    /\ \A i \in DOMAIN list : IsCandidate(list[i])
    /\ \A i, j \in DOMAIN list : list[i].item.code = list[j].item.code => i = j

\* c stands in one of the sources, and so do the scenarios that it shows.
StandsIn(c, sources) ==
    \E s \in sources : c.item = s.item /\ Elements(c.highlights) \subseteq s.scenarios

LEMMA RankedIsList ==
    ASSUME NEW S, IsFiniteSet(S), \A c \in S : IsCandidate(c), OneOfACode(S)
    PROVE  IsList(Ranked(S)) /\ Elements(Ranked(S)) = S
<1> DEFINE above == {p \in S \X S :
                        \/ p[1].score > p[2].score
                        \/ p[1].score = p[2].score /\ p[1].item.code < p[2].item.code}
           list == Ranked(S)
<1>1. \A c, d \in S :
         <<c, d>> \in above <=>
             \/ c.score > d.score
             \/ c.score = d.score /\ c.item.code < d.item.code
  OBVIOUS
<1>2. \A c \in S : c.score \in Int /\ c.item.code \in Int
  BY DEF IsCandidate
<1>3. Ranked(S) = Arranged(S, above)
  BY DEF Ranked
<1> HIDE DEF above, list
<1>4. Orders(above, S)
  <2>1. \A c \in S : <<c, c>> \notin above
    BY <1>1, <1>2
  <2>2. \A c, d, e \in S : <<c, d>> \in above /\ <<d, e>> \in above => <<c, e>> \in above
    BY <1>1, <1>2
  <2>3. \A c, d \in S : c # d => <<c, d>> \in above \/ <<d, c>> \in above
    BY <1>1, <1>2 DEF OneOfACode
  <2> QED BY <2>1, <2>2, <2>3 DEF Orders
<1>5. /\ list \in Seq(S) /\ Elements(list) = S
      /\ \A i, j \in DOMAIN list : i < j => <<list[i], list[j]>> \in above
  BY <1>3, <1>4, ArrangedEnumerates DEF list
<1>6. DOMAIN list \subseteq Int /\ \A i \in DOMAIN list : list[i] \in S
  BY <1>5
<1>7. \A i, j \in DOMAIN list : list[i].item.code = list[j].item.code => i = j
  <2> SUFFICES ASSUME NEW i \in DOMAIN list, NEW j \in DOMAIN list,
                      list[i].item.code = list[j].item.code, i # j
               PROVE  FALSE
    OBVIOUS
  <2>1. list[i] = list[j]
    BY <1>6 DEF OneOfACode
  <2>2. i < j \/ j < i
    BY <1>6
  <2> QED BY <1>4, <1>5, <1>6, <2>1, <2>2 DEF Orders
<1>8. IsList(list)
  BY <1>5, <1>6, <1>7 DEF IsList
<1> QED BY <1>5, <1>8 DEF list

LEMMA CutIsList ==
    ASSUME NEW list, IsList(list), NEW n \in Nat
    PROVE  IsList(Cut(list, n)) /\ Elements(Cut(list, n)) \subseteq Elements(list)
<1> DEFINE cut == Cut(list, n)
<1>1. /\ cut \in Seq(Elements(list))
      /\ \A i \in DOMAIN cut : i \in DOMAIN list /\ cut[i] = list[i]
      /\ Elements(cut) \subseteq Elements(list)
  BY CutKeepsTheBeginning DEF IsList
<1> HIDE DEF cut
<1>2. cut \in Seq(Elements(cut))
  <2>1. cut \in [1..Len(cut) -> Elements(cut)] /\ Len(cut) \in Nat
    BY <1>1 DEF Elements
  <2> QED BY <2>1
<1>3. IsList(cut)
  BY <1>1, <1>2 DEF IsList
<1> QED BY <1>1, <1>3 DEF cut

LEMMA ElementsAreFinite ==
    ASSUME NEW list, IsList(list)
    PROVE  IsFiniteSet(Elements(list))
<1>1. list \in Seq(Elements(list))
  BY DEF IsList
<1>2. DOMAIN list = 1..Len(list) /\ Len(list) \in Nat
  BY <1>1
<1>3. IsFiniteSet(1..Len(list))
  BY <1>2, FS_Interval
<1>4. list \in Surjection(1..Len(list), Elements(list))
  BY <1>1, <1>2 DEF Surjection, Elements
<1> QED BY <1>3, <1>4, FS_Surjection

LEMMA ScoredScenariosAreScenarios ==
    ASSUME NEW source, IsSource(source), NEW query, IsQuery(query)
    PROVE  /\ ScoredScenarios(source.scenarios, query)
                  \in Seq(Elements(ScoredScenarios(source.scenarios, query)))
           /\ Elements(ScoredScenarios(source.scenarios, query)) \subseteq source.scenarios
<1> DEFINE S == {s \in source.scenarios : ScenarioScore(s, query) > 0}
           above == {p \in S \X S :
                        \/ ScenarioScore(p[1], query) > ScenarioScore(p[2], query)
                        \/ /\ ScenarioScore(p[1], query) = ScenarioScore(p[2], query)
                           /\ p[1].id < p[2].id}
<1>1. ScoredScenarios(source.scenarios, query) = Arranged(S, above)
  BY DEF ScoredScenarios
<1>2. \A c, d \in S :
         <<c, d>> \in above <=>
             \/ ScenarioScore(c, query) > ScenarioScore(d, query)
             \/ ScenarioScore(c, query) = ScenarioScore(d, query) /\ c.id < d.id
  OBVIOUS
<1>3. \A c \in S : ScenarioScore(c, query) \in Int
  BY ScenarioScoreIsInt
<1>4. \A c, d \in S : c.id \in Int /\ (c.id = d.id => c = d)
  BY DEF IsSource
<1>5. S \in SUBSET source.scenarios
  OBVIOUS
<1> HIDE DEF S, above
<1>6. IsFiniteSet(S)
  BY <1>5, FS_Subset DEF IsSource
<1>7. Orders(above, S)
  <2>1. \A c \in S : <<c, c>> \notin above
    BY <1>2, <1>3, <1>4
  <2>2. \A c, d, e \in S : <<c, d>> \in above /\ <<d, e>> \in above => <<c, e>> \in above
    BY <1>2, <1>3, <1>4
  <2>3. \A c, d \in S : c # d => <<c, d>> \in above \/ <<d, c>> \in above
    BY <1>2, <1>3, <1>4
  <2> QED BY <2>1, <2>2, <2>3 DEF Orders
<1> QED BY <1>1, <1>5, <1>6, <1>7, ArrangedEnumerates

LEMMA CandidateStandsInItsSource ==
    ASSUME NEW source, IsSource(source), NEW query, IsQuery(query)
    PROVE  /\ Candidate(source, query).item = source.item
           /\ IsCandidate(Candidate(source, query))
           /\ Elements(Candidate(source, query).highlights) \subseteq source.scenarios
<1> DEFINE scored == ScoredScenarios(source.scenarios, query)
           score == SourceScore(source, query)
           confidence == ConfidenceLevel(score, Cut(scored, 3))
<1>1. Candidate(source, query) =
        [item |-> source.item, score |-> score, highlights |-> Cut(scored, 3),
         confidence |-> confidence]
  BY DEF Candidate
<1>2. score \in Int
  BY SourceScoreIsInt
<1>3. confidence \in Confidences
  BY DEF ConfidenceLevel, Confidences
<1>4. scored \in Seq(Elements(scored)) /\ Elements(scored) \subseteq source.scenarios
  BY ScoredScenariosAreScenarios
<1> HIDE DEF scored, score, confidence
<1>5. Elements(Cut(scored, 3)) \subseteq source.scenarios
  BY <1>4, CutKeepsTheBeginning
<1> QED BY <1>1, <1>2, <1>3, <1>5 DEF IsCandidate, IsSource

\* A recommendation has no code twice and is made of its sources.
LEMMA RecommendStandsInItsSources ==
    ASSUME NEW sources, AreSources(sources), NEW query, IsQuery(query), NEW limit \in Int
    PROVE  /\ IsList(Recommend(query, sources, limit))
           /\ \A c \in Elements(Recommend(query, sources, limit)) : StandsIn(c, sources)
<1> DEFINE scored == {s \in sources : SourceScore(s, query) > 0}
           S == {Candidate(s, query) : s \in scored}
           n == Greater(1, Lesser(limit, 20))
<1>1. \A s \in scored : /\ Candidate(s, query).item = s.item
                        /\ IsCandidate(Candidate(s, query))
                        /\ Elements(Candidate(s, query).highlights) \subseteq s.scenarios
  BY CandidateStandsInItsSource DEF AreSources
<1>2. n \in Nat
  BY DEF Greater, Lesser
<1>3. IsFiniteSet(S)
  <2>1. scored \in SUBSET sources
    OBVIOUS
  <2> DEFINE f == [s \in scored |-> Candidate(s, query)]
  <2>2. f \in Surjection(scored, S)
    BY DEF Surjection
  <2> HIDE DEF scored, S, f
  <2>3. IsFiniteSet(scored)
    BY <2>1, FS_Subset DEF AreSources
  <2> QED BY <2>2, <2>3, FS_Surjection
<1>4. OneOfACode(S)
  BY <1>1 DEF AreSources, OneOfACode
<1>5. \A c \in S : IsCandidate(c) /\ StandsIn(c, sources)
  BY <1>1 DEF StandsIn
<1>6. Recommend(query, sources, limit) = IF IsEmptyQuery(query) THEN <<>> ELSE Cut(Ranked(S), n)
  BY DEF Recommend
<1> HIDE DEF scored, S, n
<1>7. CASE IsEmptyQuery(query)
  <2>1. IsList(<<>>) /\ Elements(<<>>) = {}
    BY DEF IsList, Elements
  <2> QED BY <1>6, <1>7, <2>1
<1>8. CASE ~IsEmptyQuery(query)
  <2>1. IsList(Ranked(S)) /\ Elements(Ranked(S)) = S
    BY <1>3, <1>4, <1>5, RankedIsList
  <2>2. IsList(Cut(Ranked(S), n)) /\ Elements(Cut(Ranked(S), n)) \subseteq S
    BY <1>2, <2>1, CutIsList
  <2> QED BY <1>5, <1>6, <1>8, <2>2
<1> QED BY <1>7, <1>8

-----------------------------------------------------------------------------
(* Outranks is a strict weak order, and ties have one code *)

LEMMA OutranksByKeys ==
    ASSUME NEW c, NEW d, IsCandidate(c), IsCandidate(d)
    PROVE  /\ {c.score, d.score, c.item.code, d.item.code,
               ConfidenceRank(c.confidence), ConfidenceRank(d.confidence)} \subseteq Int
           /\ Outranks(c, d) <=>
                 \/ c.score > d.score
                 \/ /\ c.score = d.score
                    /\ \/ ConfidenceRank(c.confidence) > ConfidenceRank(d.confidence)
                       \/ /\ ConfidenceRank(c.confidence) = ConfidenceRank(d.confidence)
                          /\ c.item.code > d.item.code
<1>1. c.score \in Int /\ d.score \in Int /\ c.item.code \in Int /\ d.item.code \in Int
  BY DEF IsCandidate
<1>2. c.confidence \in Confidences /\ d.confidence \in Confidences
  BY DEF IsCandidate
<1>3. /\ ConfidenceRank(c.confidence) \in Int /\ ConfidenceRank(d.confidence) \in Int
      /\ c.confidence = d.confidence
            <=> ConfidenceRank(c.confidence) = ConfidenceRank(d.confidence)
  BY <1>2 DEF ConfidenceRank, Confidences
<1> QED BY <1>1, <1>3 DEF Outranks

LEMMA OutranksIsWeakOrder ==
    ASSUME NEW c, NEW d, NEW e, IsCandidate(c), IsCandidate(d), IsCandidate(e)
    PROVE  /\ ~Outranks(c, c)
           /\ Outranks(c, d) /\ Outranks(d, e) => Outranks(c, e)
           /\ Outranks(c, d) /\ ~Outranks(e, d) => Outranks(c, e)
           /\ c.item.code # d.item.code => Outranks(c, d) \/ Outranks(d, c)
<1> DEFINE Rank(x) == ConfidenceRank(x.confidence)
           Code(x) == x.item.code
           By(x, y) == \/ x.score > y.score
                       \/ /\ x.score = y.score
                          /\ Rank(x) > Rank(y) \/ (Rank(x) = Rank(y) /\ Code(x) > Code(y))
<1>1. \A x, y \in {c, d, e} : Outranks(x, y) <=> By(x, y)
  BY OutranksByKeys
<1>2. \A x \in {c, d, e} : x.score \in Int /\ Rank(x) \in Int /\ Code(x) \in Int
  BY OutranksByKeys
<1>3. c.item.code # d.item.code => Code(c) # Code(d)
  OBVIOUS
<1> HIDE DEF Rank, Code
<1> QED BY <1>1, <1>2, <1>3

-----------------------------------------------------------------------------
(* Merging *)

Found(lists) == UNION {Elements(lists[k]) : k \in DOMAIN lists}
Codes(S) == {c.item.code : c \in S}

\* Codes in two of the lists.
Repeated(lists, code) ==
    \E j, k \in DOMAIN lists :
        j # k /\ code \in Codes(Elements(lists[j])) /\ code \in Codes(Elements(lists[k]))

KeepsTheBest(best, found) ==
    /\ best \in SUBSET found
    /\ OneOfACode(best)
    /\ \A c \in found : \E b \in best : b.item.code = c.item.code /\ ~Outranks(c, b)

\* What has been merged is what the lists amount to, in whatever order.
IsMerge(m, lists) ==
    /\ lists \in Seq(Elements(lists)) /\ \A k \in DOMAIN lists : IsList(lists[k])
    /\ IsFiniteSet(m.best) /\ KeepsTheBest(m.best, Found(lists))
    /\ m.seen = Codes(Found(lists))
    /\ \A code : code \in m.overlap <=> Repeated(lists, code)

LEMMA NothingIsMerged == IsMerge(NothingMerged, <<>>)
<1>1. Found(<<>>) = {} /\ Elements(<<>>) = {}
  BY DEF Found, Elements
<1>2. IsFiniteSet({})
  BY FS_EmptySet
<1> QED
  BY <1>1, <1>2 DEF IsMerge, NothingMerged, KeepsTheBest, OneOfACode, Codes, Repeated

LEMMA FoundAreCandidates ==
    ASSUME NEW lists, \A k \in DOMAIN lists : IsList(lists[k])
    PROVE  \A c \in Found(lists) : IsCandidate(c)
<1> TAKE c \in Found(lists)
<1>1. PICK k \in DOMAIN lists : c \in Elements(lists[k])
  BY DEF Found
<1>2. PICK i \in DOMAIN lists[k] : lists[k][i] = c
  BY <1>1 DEF Elements
<1> QED BY <1>2 DEF IsList

\* One list enters: of each code the best appearance stays.
LEMMA BestIsKept ==
    ASSUME NEW best, NEW found, KeepsTheBest(best, found),
           NEW more, OneOfACode(more), \A c \in found \union more : IsCandidate(c),
           NEW new, new = {c \in more : \A d \in best : d.item.code = c.item.code => Outranks(c, d)},
           NEW kept, kept = {c \in best : ~\E d \in more : /\ d.item.code = c.item.code
                                                            /\ Outranks(d, c)}
    PROVE  KeepsTheBest(new \union kept, found \union more)
<1>1. new \union kept \in SUBSET (found \union more)
  BY DEF KeepsTheBest
<1>2. OneOfACode(new \union kept)
  BY DEF KeepsTheBest, OneOfACode
<1>3. ASSUME NEW c \in found
      PROVE  \E b \in new \union kept : b.item.code = c.item.code /\ ~Outranks(c, b)
  <2>1. PICK b \in best : b.item.code = c.item.code /\ ~Outranks(c, b)
    BY DEF KeepsTheBest
  <2>2. CASE b \in kept
    BY <2>1, <2>2
  <2>3. CASE b \notin kept
    <3>1. PICK d \in more : d.item.code = b.item.code /\ Outranks(d, b)
      BY <2>3
    <3>2. d \in new
      BY <3>1 DEF KeepsTheBest, OneOfACode
    <3>3. ~Outranks(c, d)
      BY <2>1, <3>1, OutranksIsWeakOrder DEF KeepsTheBest
    <3> QED BY <2>1, <3>1, <3>2, <3>3
  <2> QED BY <2>2, <2>3
<1>4. ASSUME NEW c \in more
      PROVE  \E b \in new \union kept : b.item.code = c.item.code /\ ~Outranks(c, b)
  <2>1. CASE c \in new
    BY <2>1, OutranksIsWeakOrder
  <2>2. CASE c \notin new
    <3>1. PICK d \in best : d.item.code = c.item.code /\ ~Outranks(c, d)
      BY <2>2
    <3>2. d \in kept
      BY <3>1 DEF OneOfACode
    <3> QED BY <3>1, <3>2
  <2> QED BY <2>1, <2>2
<1> QED BY <1>1, <1>2, <1>3, <1>4 DEF KeepsTheBest

LEMMA MergeIsMerge ==
    ASSUME NEW m, NEW lists, IsMerge(m, lists), NEW list, IsList(list)
    PROVE  IsMerge(Merge(m, list), Append(lists, list))
<1> DEFINE more == Elements(list)
           all == Append(lists, list)
           n == Len(lists)
           new == {c \in more : \A d \in m.best : d.item.code = c.item.code => Outranks(c, d)}
           kept == {c \in m.best : ~\E d \in more : d.item.code = c.item.code /\ Outranks(d, c)}
           result == Merge(m, list)
<1>1. /\ result.best = new \union kept
      /\ result.seen = m.seen \union Codes(more)
      /\ result.overlap = m.overlap \union (m.seen \intersect Codes(more))
  BY DEF Merge, Elements, Codes
<1>2. /\ n \in Nat /\ DOMAIN lists = 1..n /\ DOMAIN all = 1..(n + 1)
      /\ all[n + 1] = list /\ \A k \in 1..n : all[k] = lists[k]
  BY DEF IsMerge
<1>3. all \in Seq(Elements(all))
  <2>1. all \in [1..Len(all) -> Elements(all)] /\ Len(all) \in Nat
    <3>1. all \in Seq(Elements(lists) \union {list})
      BY DEF IsMerge
    <3> HIDE DEF all
    <3> QED BY <3>1 DEF Elements
  <2> HIDE DEF all
  <2> QED BY <2>1
<1>4. \A k \in DOMAIN all : IsList(all[k])
  BY <1>2 DEF IsMerge
<1> HIDE DEF all, n, result
<1>5. Found(all) = Found(lists) \union more
  <2>1. \A k \in 1..n : Elements(all[k]) = Elements(lists[k])
    BY <1>2
  <2>2. Elements(all[n + 1]) = more
    BY <1>2
  <2>3. \A k : k \in 1..(n + 1) <=> k \in 1..n \/ k = n + 1
    BY <1>2
  <2> HIDE DEF more
  <2> QED BY <1>2, <2>1, <2>2, <2>3 DEF Found
<1>6. OneOfACode(more)
  BY DEF IsList, OneOfACode, Elements
<1>7. \A c \in Found(lists) \union more : IsCandidate(c)
  BY FoundAreCandidates DEF IsMerge, IsList, Elements
<1>8. IsFiniteSet(more)
  BY ElementsAreFinite
<1> HIDE DEF more
<1>9. KeepsTheBest(new \union kept, Found(lists) \union more)
  BY <1>6, <1>7, BestIsKept DEF IsMerge
<1>10. IsFiniteSet(new \union kept)
  <2>1. new \in SUBSET more /\ kept \in SUBSET m.best
    OBVIOUS
  <2> HIDE DEF new, kept
  <2>2. IsFiniteSet(new) /\ IsFiniteSet(kept)
    BY <1>8, <2>1, FS_Subset DEF IsMerge
  <2> QED BY <2>2, FS_Union
<1> HIDE DEF new, kept
<1>11. result.seen = Codes(Found(all))
  BY <1>1, <1>5 DEF IsMerge, Codes
<1>12. ASSUME NEW code PROVE code \in result.overlap <=> Repeated(all, code)
  <2> DEFINE In(k) == code \in Codes(Elements(all[k]))
  <2>1. Repeated(all, code) <=> \E j, k \in 1..(n + 1) : j # k /\ In(j) /\ In(k)
    BY <1>2 DEF Repeated
  <2>2. Repeated(lists, code) <=> \E j, k \in 1..n : j # k /\ In(j) /\ In(k)
    BY <1>2 DEF Repeated
  <2>3. code \in m.seen <=> \E k \in 1..n : In(k)
    BY <1>2 DEF IsMerge, Found, Codes
  <2>4. code \in Codes(more) <=> In(n + 1)
    BY <1>2 DEF more
  <2>5. \A k : k \in 1..(n + 1) <=> k \in 1..n \/ k = n + 1
    BY <1>2
  <2>6. n + 1 \notin 1..n
    BY <1>2
  <2>7. code \in m.overlap <=> Repeated(lists, code)
    BY DEF IsMerge
  <2>8. code \in result.overlap <=> code \in m.overlap \/ (code \in m.seen /\ code \in Codes(more))
    BY <1>1
  <2> HIDE DEF In
  <2> QED BY <2>1, <2>2, <2>3, <2>4, <2>5, <2>6, <2>7, <2>8
<1> QED
  BY <1>1, <1>3, <1>4, <1>5, <1>9, <1>10, <1>11, <1>12 DEF IsMerge, all, result

-----------------------------------------------------------------------------
(* The list that is shown *)

\* The best of each code, ordered by rank; what is left out is outranked by
\* everything that is shown, and then the list is as long as it must be.
LEMMA CombinedIsBest ==
    ASSUME NEW m, NEW lists, IsMerge(m, lists), NEW limit \in Nat
    PROVE  LET list == Combined(m, limit)
           IN  /\ Elements(list) \subseteq Found(lists)
               /\ \A i, j \in DOMAIN list : i < j => /\ Outranks(list[i], list[j])
                                                     /\ list[i].item.code # list[j].item.code
               /\ \A c \in Found(lists) :
                     \/ \E i \in DOMAIN list : list[i].item.code = c.item.code /\ ~Outranks(c, list[i])
                     \/ /\ Len(list) >= MergeLeast
                        /\ \A i \in DOMAIN list : Outranks(list[i], c)
<1> DEFINE S == m.best
           above == {p \in S \X S : Outranks(p[1], p[2])}
           whole == Arranged(S, above)
           most == IF 2 * limit < MergeMost THEN 2 * limit ELSE MergeMost
           n == IF most > MergeLeast THEN most ELSE MergeLeast
           list == Combined(m, limit)
<1>1. list = Cut(whole, n)
  BY DEF Combined
<1>2. n \in Nat /\ n >= MergeLeast
  BY MergeAssumption
<1>3. \A c, d \in S : <<c, d>> \in above <=> Outranks(c, d)
  OBVIOUS
<1>4. /\ IsFiniteSet(S) /\ OneOfACode(S) /\ S \subseteq Found(lists)
      /\ \A c \in Found(lists) : IsCandidate(c)
      /\ \A c \in Found(lists) : \E b \in S : b.item.code = c.item.code /\ ~Outranks(c, b)
  BY FoundAreCandidates DEF IsMerge, KeepsTheBest
<1> HIDE DEF S, above, n
<1>5. Orders(above, S)
  <2>1. \A c \in S : <<c, c>> \notin above
    BY <1>3, <1>4, OutranksIsWeakOrder
  <2>2. \A c, d, e \in S : <<c, d>> \in above /\ <<d, e>> \in above => <<c, e>> \in above
    BY <1>3, <1>4, OutranksIsWeakOrder
  <2>3. \A c, d \in S : c # d => <<c, d>> \in above \/ <<d, c>> \in above
    BY <1>3, <1>4, OutranksIsWeakOrder DEF OneOfACode
  <2> QED BY <2>1, <2>2, <2>3 DEF Orders
<1>6. /\ whole \in Seq(S) /\ Elements(whole) = S
      /\ \A i, j \in DOMAIN whole : i < j => <<whole[i], whole[j]>> \in above
  BY <1>4, <1>5, ArrangedEnumerates
<1> HIDE DEF whole, list
<1>7. /\ list \in Seq(S) /\ Len(list) = Lesser(Len(whole), n)
      /\ \A i \in DOMAIN list : i \in DOMAIN whole /\ list[i] = whole[i]
      /\ Elements(list) \subseteq S
  BY <1>1, <1>2, <1>6, CutKeepsTheBeginning
<1>8. DOMAIN list = 1..Len(list) /\ Len(list) \in Nat /\ Len(whole) \in Nat
      /\ DOMAIN whole = 1..Len(whole) /\ \A i \in DOMAIN whole : whole[i] \in S
  BY <1>6, <1>7
<1>9. ASSUME NEW i \in DOMAIN whole, NEW j \in DOMAIN whole, i < j
      PROVE  Outranks(whole[i], whole[j]) /\ whole[i].item.code # whole[j].item.code
  <2>1. whole[i] \in S /\ whole[j] \in S /\ Outranks(whole[i], whole[j])
    BY <1>3, <1>6, <1>8, <1>9
  <2>2. whole[i] # whole[j]
    BY <1>4, <2>1, OutranksIsWeakOrder
  <2> QED BY <1>4, <2>1, <2>2 DEF OneOfACode
<1>10. ASSUME NEW c \in Found(lists)
       PROVE  \/ \E i \in DOMAIN list : list[i].item.code = c.item.code /\ ~Outranks(c, list[i])
              \/ /\ Len(list) >= MergeLeast
                 /\ \A i \in DOMAIN list : Outranks(list[i], c)
  <2>1. PICK b \in S : b.item.code = c.item.code /\ ~Outranks(c, b)
    BY <1>4
  <2>2. PICK k \in DOMAIN whole : whole[k] = b
    BY <1>6 DEF Elements
  <2>3. CASE k \in DOMAIN list
    BY <1>7, <2>1, <2>2, <2>3
  <2>4. CASE k \notin DOMAIN list
    <3>1. Len(list) < k /\ Len(list) = n
      <4>1. k \in 1..Len(whole) /\ k \notin 1..Len(list)
        BY <1>8, <2>4
      <4>2. Len(list) = IF Len(whole) <= n THEN Len(whole) ELSE n
        BY <1>7 DEF Lesser
      <4>3. \A l, w, m_, k_ \in Nat :
               /\ k_ \in 1..w /\ k_ \notin 1..l
               /\ l = IF w <= m_ THEN w ELSE m_
               => l < k_ /\ l = m_
        OBVIOUS
      <4>4. n \in Nat /\ Len(list) \in Nat /\ Len(whole) \in Nat /\ k \in Nat
        BY <1>2, <1>8, <4>1
      <4> QED BY <4>1, <4>2, <4>3, <4>4
    <3>2. ASSUME NEW i \in DOMAIN list PROVE Outranks(list[i], c)
      <4>1. i \in DOMAIN whole /\ list[i] = whole[i] /\ i < k
        BY <1>7, <1>8, <3>1
      <4>2. Outranks(list[i], b) /\ list[i] \in S
        BY <1>8, <1>9, <2>2, <4>1
      <4>3. IsCandidate(list[i]) /\ IsCandidate(b) /\ IsCandidate(c)
        BY <1>4, <4>2
      <4> QED BY <2>1, <4>2, <4>3, OutranksIsWeakOrder
    <3> QED BY <1>2, <3>1, <3>2
  <2> QED BY <2>3, <2>4
<1>11. Elements(list) \subseteq Found(lists)
  BY <1>4, <1>7
<1>12. \A i, j \in DOMAIN list : i < j => /\ Outranks(list[i], list[j])
                                          /\ list[i].item.code # list[j].item.code
  BY <1>7, <1>9
<1> QED BY <1>10, <1>11, <1>12 DEF list

-----------------------------------------------------------------------------
(* Sequences that are put together *)

\* A sequence of sequences is put together from left to right: where each of
\* them starts, how long the whole is and what stands in it.
Starts(start, seqs) ==
    /\ start \in [1..(Len(seqs) + 1) -> Nat]
    /\ start[1] = 0
    /\ \A i \in 1..Len(seqs) : start[i + 1] = start[i] + Len(seqs[i])

\* The beginnings of the whole.
Puts(f, seqs, n) ==
    /\ DOMAIN f = 1..n
    /\ \A i \in 1..n : f[i] = IF i = 1 THEN seqs[i] ELSE f[i - 1] \o seqs[i]

\* The beginnings of a whole are put together one after the other.
LEMMA BeginningsExist ==
    ASSUME NEW S, NEW seqs \in Seq(Seq(S)), NEW n \in 0..Len(seqs)
    PROVE  \E f \in [1..n -> Seq(S)] : Puts(f, seqs, n)
<1> DEFINE Good(m) == \E f \in [1..m -> Seq(S)] : Puts(f, seqs, m)
           Bad == {m \in Nat : m <= Len(seqs) /\ ~Good(m)}
<1>1. Len(seqs) \in Nat /\ DOMAIN seqs = 1..Len(seqs)
  OBVIOUS
<1>2. Good(0)
  <2> DEFINE f == [i \in 1..0 |-> <<>>]
  <2>1. f \in [1..0 -> Seq(S)]
    OBVIOUS
  <2>2. Puts(f, seqs, 0)
    BY DEF Puts
  <2> QED BY <2>1, <2>2
<1>3. ASSUME NEW m \in Nat, m < Len(seqs), Good(m) PROVE Good(m + 1)
  <2>1. PICK f \in [1..m -> Seq(S)] : Puts(f, seqs, m)
    BY <1>3
  <2> DEFINE next == IF m + 1 = 1 THEN seqs[m + 1] ELSE f[m] \o seqs[m + 1]
             g == [i \in 1..(m + 1) |-> IF i = m + 1 THEN next ELSE f[i]]
  <2>2. next \in Seq(S)
    <3>1. seqs[m + 1] \in Seq(S)
      BY <1>1, <1>3
    <3>2. m # 0 => f[m] \in Seq(S)
      BY <1>3
    <3> QED BY <1>3, <3>1, <3>2
  <2> HIDE DEF next
  <2>3. g \in [1..(m + 1) -> Seq(S)]
    BY <1>3, <2>2
  <2>4. ASSUME NEW i \in 1..(m + 1)
        PROVE  g[i] = IF i = 1 THEN seqs[i] ELSE g[i - 1] \o seqs[i]
    <3>1. CASE i = m + 1
      <4>1. m + 1 # 1 => m \in 1..(m + 1) /\ g[m] = f[m]
        BY <1>3
      <4> QED BY <1>3, <3>1, <4>1 DEF next
    <3>2. CASE i \in 1..m
      <4>1. i # 1 => i - 1 \in 1..m /\ g[i - 1] = f[i - 1]
        BY <1>3, <3>2
      <4>2. g[i] = f[i]
        BY <1>3, <3>2
      <4>3. f[i] = IF i = 1 THEN seqs[i] ELSE f[i - 1] \o seqs[i]
        BY <2>1, <3>2 DEF Puts
      <4> QED BY <4>1, <4>2, <4>3
    <3> QED BY <1>3, <3>1, <3>2
  <2>5. Puts(g, seqs, m + 1)
    <3>1. DOMAIN g = 1..(m + 1)
      OBVIOUS
    <3> HIDE DEF g
    <3> QED BY <2>4, <3>1 DEF Puts
  <2> QED BY <2>3, <2>5
<1> HIDE DEF Good
<1>4. Bad = {}
  <2> SUFFICES ASSUME Bad # {} PROVE FALSE
    OBVIOUS
  <2>1. PICK m \in Bad : \A x \in Bad : m <= x
    BY SmallestNat
  <2>2. m \in Nat /\ m <= Len(seqs) /\ ~Good(m)
    OBVIOUS
  <2>3. m # 0
    BY <1>2, <2>2
  <2>4. m - 1 \in Nat /\ m - 1 < Len(seqs) /\ m - 1 \notin Bad
    BY <1>1, <2>1, <2>2, <2>3
  <2>5. Good(m - 1)
    BY <2>4
  <2>6. Good((m - 1) + 1)
    BY <1>3, <2>4, <2>5
  <2> QED BY <2>2, <2>6
<1> QED BY <1>1, <1>4 DEF Good

\* FlattenSeq gives the last of the beginnings.
LEMMA FlattenIsLast ==
    ASSUME NEW S, NEW seqs \in Seq(Seq(S)), Len(seqs) # 0
    PROVE  \E f : Puts(f, seqs, Len(seqs)) /\ FlattenSeq(seqs) = f[Len(seqs)]
<1> DEFINE F == CHOOSE f : f = [i \in 1..Len(seqs) |->
                                  IF i = 1 THEN seqs[i] ELSE f[i - 1] \o seqs[i]]
           n == Len(seqs)
<1>1. FlattenSeq(seqs) = F[n]
  BY DEF FlattenSeq
<1>2. n \in Nat
  OBVIOUS
<1>3. \E f \in [1..n -> Seq(S)] : Puts(f, seqs, n)
  <2> HIDE DEF F, n
  <2>1. n \in 0..Len(seqs)
    BY <1>2 DEF n
  <2> QED BY <2>1, BeginningsExist
<1>4. PICK f \in [1..n -> Seq(S)] : Puts(f, seqs, n)
  BY <1>3
<1>5. f = [i \in 1..n |-> IF i = 1 THEN seqs[i] ELSE f[i - 1] \o seqs[i]]
  BY <1>4 DEF Puts
<1>6. F = [i \in 1..n |-> IF i = 1 THEN seqs[i] ELSE F[i - 1] \o seqs[i]]
  BY <1>5
<1> HIDE DEF F
<1>7. Puts(F, seqs, n)
  BY <1>2, <1>6 DEF Puts
<1> QED BY <1>1, <1>7

\* What is put together starts, piece by piece, where the piece before it ends.
LEMMA FlattenPlaces ==
    ASSUME NEW S, NEW seqs \in Seq(Seq(S))
    PROVE  /\ FlattenSeq(seqs) \in Seq(S)
           /\ \E start : /\ Starts(start, seqs)
                         /\ Len(FlattenSeq(seqs)) = start[Len(seqs) + 1]
                         /\ \A i \in DOMAIN seqs : \A k \in DOMAIN seqs[i] :
                               FlattenSeq(seqs)[start[i] + k] = seqs[i][k]
<1> DEFINE n == Len(seqs)
<1>1. n \in Nat /\ DOMAIN seqs = 1..n /\ \A i \in 1..n : seqs[i] \in Seq(S)
  OBVIOUS
<1>2. CASE n = 0
  <2> DEFINE start == [i \in 1..1 |-> 0]
  <2>1. seqs = <<>>
    BY <1>2
  <2>2. FlattenSeq(seqs) = <<>>
    BY <2>1 DEF FlattenSeq
  <2>3. Starts(start, seqs)
    BY <1>2 DEF Starts
  <2>4. Len(FlattenSeq(seqs)) = start[n + 1]
    BY <1>2, <2>2
  <2>5. DOMAIN seqs = {} /\ FlattenSeq(seqs) \in Seq(S)
    BY <1>1, <1>2, <2>2
  <2> HIDE DEF start
  <2> QED BY <2>3, <2>4, <2>5
<1>3. CASE n # 0
  <2>1. PICK F : Puts(F, seqs, n) /\ FlattenSeq(seqs) = F[n]
    BY <1>3, FlattenIsLast
  <2> DEFINE start == [i \in 1..(n + 1) |-> IF i = 1 THEN 0 ELSE Len(F[i - 1])]
             Good(m) == /\ F[m] \in Seq(S)
                        /\ start[m + 1] = start[m] + Len(seqs[m])
                        /\ \A i \in 1..m : start[i] + Len(seqs[i]) <= Len(F[m])
                        /\ \A i \in 1..m : \A k \in 1..Len(seqs[i]) :
                              F[m][start[i] + k] = seqs[i][k]
                        /\ \A i \in 1..m : start[i] \in Nat
             Bad == {m \in 1..n : ~Good(m)}
  <2> HIDE DEF n, Good, Bad
  <2>2. F[1] = seqs[1] /\ \A m \in 1..n : m # 1 => F[m] = F[m - 1] \o seqs[m]
    <3> HIDE DEF start
    <3>1. \A m \in 1..n : F[m] = IF m = 1 THEN seqs[m] ELSE F[m - 1] \o seqs[m]
      BY <2>1 DEF Puts
    <3>2. 1 \in 1..n
      BY <1>1, <1>3
    <3>3. F[1] = seqs[1]
      BY ONLY <3>1, <3>2
    <3> QED BY ONLY <3>1, <3>3
  <2>3. start[1] = 0 /\ \A m \in 1..n : start[m + 1] = Len(F[m])
    BY <1>1, <1>3
  <2> HIDE DEF start
  <2>4. Good(1)
    <3>1. seqs[1] \in Seq(S) /\ Len(seqs[1]) \in Nat
      BY <1>1, <1>3
    <3>2. start[2] = Len(F[1])
      BY <1>1, <1>3, <2>3
    <3> QED BY <2>2, <2>3, <3>1, <3>2 DEF Good
  <2>5. ASSUME NEW m \in 1..n, m # n, Good(m) PROVE Good(m + 1)
    <3> DEFINE f == F[m]
               s == seqs[m + 1]
    <3>1. F[m + 1] = f \o s
      <4>1. m + 1 \in 1..n /\ m + 1 # 1 /\ (m + 1) - 1 = m
        BY <1>1, <2>5
      <4> QED BY <2>2, <4>1
    <3>2. f \in Seq(S) /\ s \in Seq(S)
      BY <1>1, <2>5 DEF Good
    <3>3. start[m + 1] = Len(f) /\ start[(m + 1) + 1] = Len(F[m + 1])
      BY <1>1, <2>3, <2>5
    <3>7. seqs[m + 1] = s
      OBVIOUS
    <3> HIDE DEF f, s
    <3>4. /\ f \o s \in Seq(S) /\ Len(f \o s) = Len(f) + Len(s)
          /\ Len(f) \in Nat /\ Len(s) \in Nat
          /\ \A k \in 1..Len(f) : (f \o s)[k] = f[k]
          /\ \A k \in 1..Len(s) : (f \o s)[Len(f) + k] = s[k]
      BY <3>2
    <3>5. ASSUME NEW i \in 1..(m + 1)
          PROVE  /\ start[i] \in Nat
                 /\ start[i] + Len(seqs[i]) <= Len(f \o s)
                 /\ \A k \in 1..Len(seqs[i]) : (f \o s)[start[i] + k] = seqs[i][k]
      <4>1. CASE i = m + 1
        <5>1. start[i] = Len(f) /\ seqs[i] = s
          BY <3>3, <3>7, <4>1
        <5> QED BY <3>4, <5>1
      <4>2. CASE i \in 1..m
        <5>1. /\ start[i] \in Nat
              /\ start[i] + Len(seqs[i]) <= Len(f)
              /\ \A k \in 1..Len(seqs[i]) : f[start[i] + k] = seqs[i][k]
          BY <2>5, <4>2 DEF f, Good
        <5>2. Len(seqs[i]) \in Nat
          BY <1>1, <2>5, <4>2
        <5>3. ASSUME NEW k \in 1..Len(seqs[i]) PROVE start[i] + k \in 1..Len(f)
          BY <3>4, <5>1, <5>2
        <5>4. start[i] + Len(seqs[i]) <= Len(f \o s)
          BY <3>4, <5>1, <5>2
        <5> QED BY <3>4, <5>1, <5>3, <5>4
      <4>3. i = m + 1 \/ i \in 1..m
        BY <1>1
      <4> QED BY <4>1, <4>2, <4>3
    <3>6. start[(m + 1) + 1] = start[m + 1] + Len(seqs[m + 1])
      BY <3>1, <3>3, <3>4 DEF s
    <3> QED BY <3>1, <3>4, <3>5, <3>6 DEF Good
  <2>6. Bad = {}
    <3> SUFFICES ASSUME Bad # {} PROVE FALSE
      OBVIOUS
    <3>1. Bad \subseteq Nat
      BY <1>1 DEF Bad
    <3>2. PICK m \in Bad : \A x \in Bad : m <= x
      BY <3>1, SmallestNat
    <3>3. m \in 1..n /\ ~Good(m) /\ m # 1
      BY <2>4 DEF Bad
    <3>4. m - 1 \in 1..n /\ m - 1 # n /\ m - 1 \notin Bad
      BY <1>1, <3>2, <3>3
    <3>5. Good((m - 1) + 1)
      BY <2>5, <3>4 DEF Bad
    <3> QED BY <1>1, <3>3, <3>5
  <2>7. \A m \in 1..n : Good(m)
    BY <2>6 DEF Bad
  <2>8. Good(n)
    BY <1>1, <1>3, <2>7
  <2>9. Starts(start, seqs)
    <3>1. \A m \in 1..n : start[m + 1] = start[m] + Len(seqs[m]) /\ start[m] \in Nat
      <4> SUFFICES ASSUME NEW m \in 1..n
                   PROVE  start[m + 1] = start[m] + Len(seqs[m]) /\ start[m] \in Nat
        OBVIOUS
      <4>1. m \in 1..m
        BY <1>1
      <4> QED BY <2>7, <4>1 DEF Good
    <3>2. start[n + 1] \in Nat
      <4>1. Len(F[n]) \in Nat
        BY <2>8 DEF Good
      <4>2. n \in 1..n
        BY <1>1, <1>3
      <4> QED BY <2>3, <4>1, <4>2
    <3>3. DOMAIN start = 1..(n + 1) /\ start = [i \in 1..(n + 1) |-> start[i]]
      BY DEF start
    <3>4. \A i \in 1..(n + 1) : start[i] \in Nat
      BY <1>1, <3>1, <3>2
    <3> QED BY <2>3, <3>1, <3>3, <3>4 DEF Starts, n
  <2>10. start[n + 1] = Len(F[n])
    BY <1>1, <1>3, <2>3
  <2> QED BY <1>1, <2>1, <2>8, <2>9, <2>10 DEF Good, n
<1> QED BY <1>2, <1>3

\* Later pieces start after earlier ones end.
LEMMA StartsGrow ==
    ASSUME NEW S, NEW seqs \in Seq(Seq(S)), NEW start, Starts(start, seqs)
    PROVE  \A i, j \in 1..(Len(seqs) + 1) : i < j => start[i] + Len(seqs[i]) <= start[j]
<1> DEFINE n == Len(seqs)
           Good(j) == \A i \in 1..(n + 1) : i < j => start[i] + Len(seqs[i]) <= start[j]
           Bad == {j \in 1..(n + 1) : ~Good(j)}
<1>1. n \in Nat /\ \A i \in 1..n : Len(seqs[i]) \in Nat
  OBVIOUS
<1>2. /\ \A i \in 1..(n + 1) : start[i] \in Nat
      /\ \A i \in 1..n : start[i + 1] = start[i] + Len(seqs[i])
  BY DEF Starts
<1> HIDE DEF n, Good, Bad
<1>3. Good(1)
  BY <1>1 DEF Good
<1>4. ASSUME NEW j \in 1..n, Good(j) PROVE Good(j + 1)
  <2> SUFFICES ASSUME NEW i \in 1..(n + 1), i < j + 1
               PROVE  start[i] + Len(seqs[i]) <= start[j + 1]
    BY DEF Good
  <2>1. start[j + 1] = start[j] + Len(seqs[j]) /\ Len(seqs[j]) \in Nat /\ start[j] \in Nat
    BY <1>1, <1>2
  <2>2. CASE i = j
    BY <2>1, <2>2
  <2>3. CASE i < j
    <3>1. start[i] + Len(seqs[i]) <= start[j]
      BY <1>4, <2>3 DEF Good
    <3>2. start[i] \in Nat /\ Len(seqs[i]) \in Nat
      BY <1>1, <1>2, <2>3
    <3> QED BY <2>1, <3>1, <3>2
  <2> QED BY <1>1, <2>2, <2>3
<1>5. Bad = {}
  <2> SUFFICES ASSUME Bad # {} PROVE FALSE
    OBVIOUS
  <2>1. Bad \subseteq Nat
    BY <1>1 DEF Bad
  <2>2. PICK j \in Bad : \A x \in Bad : j <= x
    BY <2>1, SmallestNat
  <2>3. j \in 1..(n + 1) /\ ~Good(j) /\ j # 1
    BY <1>3 DEF Bad
  <2>4. j - 1 \in 1..n /\ j - 1 \in 1..(n + 1) /\ j - 1 \notin Bad
    BY <1>1, <2>2, <2>3
  <2>5. Good((j - 1) + 1)
    BY <1>4, <2>4 DEF Bad
  <2> QED BY <1>1, <2>3, <2>5
<1> QED BY <1>5 DEF Bad, Good, n

\* whole consists of seqs, which start at start.
Pieces(start, seqs, whole) ==
    /\ start \in [1..(Len(seqs) + 1) -> Nat]
    /\ start[1] = 0
    /\ \A i \in DOMAIN seqs : start[i + 1] = start[i] + Len(seqs[i])
    /\ \A i \in DOMAIN seqs, j \in 1..(Len(seqs) + 1) : i < j => start[i] + Len(seqs[i]) <= start[j]
    /\ Len(whole) = start[Len(seqs) + 1]
    /\ \A i \in DOMAIN seqs : \A k \in DOMAIN seqs[i] :
          start[i] + k \in DOMAIN whole /\ whole[start[i] + k] = seqs[i][k]
    /\ \A n \in DOMAIN whole : \E i \in DOMAIN seqs : \E k \in DOMAIN seqs[i] : n = start[i] + k

\* FlattenSeq gives a whole of its pieces, and nothing else stands in it.
LEMMA FlattenHasPieces ==
    ASSUME NEW S, NEW seqs \in Seq(Seq(S))
    PROVE  FlattenSeq(seqs) \in Seq(S) /\ \E start : Pieces(start, seqs, FlattenSeq(seqs))
<1> DEFINE whole == FlattenSeq(seqs)
           n == Len(seqs)
<1>1. n \in Nat /\ DOMAIN seqs = 1..n
  OBVIOUS
<1>2. \A i \in 1..n : Len(seqs[i]) \in Nat /\ DOMAIN seqs[i] = 1..Len(seqs[i])
  <2>1. \A i \in 1..n : seqs[i] \in Seq(S)
    BY <1>1
  <2> QED BY <2>1
<1> HIDE DEF whole
<1>3. PICK start : /\ Starts(start, seqs)
                   /\ Len(whole) = start[n + 1]
                   /\ \A i \in DOMAIN seqs : \A k \in DOMAIN seqs[i] :
                         whole[start[i] + k] = seqs[i][k]
  BY FlattenPlaces DEF whole
<1>4. whole \in Seq(S)
  BY FlattenPlaces DEF whole
<1>5. \A i, j \in 1..(n + 1) : i < j => start[i] + Len(seqs[i]) <= start[j]
  BY <1>3, StartsGrow
<1>6. /\ start \in [1..(n + 1) -> Nat] /\ start[1] = 0
      /\ \A i \in 1..n : start[i + 1] = start[i] + Len(seqs[i])
  BY <1>3 DEF Starts
<1>7. DOMAIN whole = 1..start[n + 1] /\ start[n + 1] \in Nat
  BY <1>1, <1>3, <1>4, <1>6
<1> HIDE DEF n
<1>8. ASSUME NEW i \in 1..n, NEW k \in 1..Len(seqs[i]) PROVE start[i] + k \in DOMAIN whole
  <2>1. start[i] + Len(seqs[i]) <= start[n + 1] /\ start[i] \in Nat
    BY <1>1, <1>5, <1>6
  <2> QED BY <1>2, <1>7, <2>1
<1>9. ASSUME NEW m \in DOMAIN whole
      PROVE  \E i \in 1..n : \E k \in 1..Len(seqs[i]) : m = start[i] + k
  <2> DEFINE before == {i \in 1..n : start[i] < m}
  <2>1. m \in Nat /\ 1 <= m /\ m <= start[n + 1]
    BY <1>7
  <2>2. n # 0 /\ 1 \in before
    BY <1>1, <1>6, <2>1
  <2>3. before \subseteq Nat /\ \A x \in before : x <= n
    BY <1>1
  <2>4. PICK i \in before : \A x \in before : x <= i
    <3> HIDE DEF before
    <3> QED BY <1>1, <2>2, <2>3, LargestBounded
  <2>5. i \in 1..n /\ start[i] < m /\ start[i] \in Nat /\ i + 1 \in 1..(n + 1)
    BY <1>1, <1>6
  <2>6. m <= start[i + 1]
    <3>1. CASE i = n
      BY <2>1, <3>1
    <3>2. CASE i # n
      <4>1. i + 1 \in 1..n /\ i + 1 \notin before
        BY <1>1, <2>4, <2>5, <3>2
      <4>2. start[i + 1] \in Nat
        BY <1>6, <2>5
      <4> QED BY <2>1, <4>1, <4>2
    <3> QED BY <3>1, <3>2
  <2>7. start[i + 1] = start[i] + Len(seqs[i]) /\ Len(seqs[i]) \in Nat
    BY <1>2, <1>6, <2>5
  <2>8. m - start[i] \in 1..Len(seqs[i]) /\ m = start[i] + (m - start[i])
    BY <2>1, <2>5, <2>6, <2>7
  <2> QED BY <2>5, <2>8
<1>10. Pieces(start, seqs, whole)
  <2>1. \A i \in DOMAIN seqs : start[i + 1] = start[i] + Len(seqs[i])
    BY <1>1, <1>6
  <2>2. \A i \in DOMAIN seqs, j \in 1..(n + 1) : i < j => start[i] + Len(seqs[i]) <= start[j]
    <3>1. DOMAIN seqs \subseteq 1..(n + 1)
      BY <1>1
    <3> QED BY <1>5, <3>1
  <2>3. \A i \in DOMAIN seqs : \A k \in DOMAIN seqs[i] :
           start[i] + k \in DOMAIN whole /\ whole[start[i] + k] = seqs[i][k]
    BY <1>1, <1>2, <1>3, <1>8
  <2>4. \A m \in DOMAIN whole : \E i \in DOMAIN seqs : \E k \in DOMAIN seqs[i] : m = start[i] + k
    <3> SUFFICES ASSUME NEW m \in DOMAIN whole
                 PROVE  \E i \in DOMAIN seqs : \E k \in DOMAIN seqs[i] : m = start[i] + k
      OBVIOUS
    <3>1. PICK i \in 1..n : \E k \in 1..Len(seqs[i]) : m = start[i] + k
      BY <1>9
    <3>2. PICK k \in 1..Len(seqs[i]) : m = start[i] + k
      BY <3>1
    <3> QED BY <1>1, <1>2, <3>2
  <2> QED BY <1>3, <1>6, <2>1, <2>2, <2>3, <2>4 DEF Pieces, n
<1> QED BY <1>4, <1>10 DEF whole

-----------------------------------------------------------------------------
(* The keys of a text *)

\* A sequence of characters is a text.
LEMMA PlainOver ==
    ASSUME NEW S, S \intersect KeyNames = {}, NEW text \in Seq(S)
    PROVE  IsPlain(text)
<1> DEFINE characters == {text[n] : n \in DOMAIN text}
<1>1. characters \subseteq S
  OBVIOUS
<1>2. text \in Seq(characters)
  <2>1. text \in [1..Len(text) -> characters] /\ Len(text) \in Nat
    OBVIOUS
  <2> HIDE DEF characters
  <2> QED BY <2>1
<1> QED BY <1>1, <1>2 DEF IsPlain

\* No replacement is the name of a key.
LEMMA TypableIsNoKeyName ==
    ASSUME NEW character, character \notin KeyNames
    PROVE  Typable(character) \notin KeyNames
BY DEF Typable, KeyNames, Return, LineFeed

\* What is normalized is still a text.
LEMMA NormalizedIsPlain ==
    ASSUME NEW text, IsPlain(text)
    PROVE  IsPlain(NormalizeText(text))
<1> DEFINE InPair(n) == text[n] = Return /\ n < Len(text) /\ text[n + 1] = LineFeed
           S == {Typable(text[n]) : n \in DOMAIN text}
           pieces == [n \in DOMAIN text |-> IF InPair(n) THEN <<>> ELSE <<Typable(text[n])>>]
           plain == FlattenSeq(pieces)
           solid == {n \in DOMAIN plain : plain[n] # LineFeed}
           first == CHOOSE n \in solid : \A o \in solid : n <= o
           last == CHOOSE n \in solid : \A o \in solid : o <= n
<1>1. NormalizeText(text) = IF solid = {} THEN <<>> ELSE SubSeq(plain, first, last)
  BY DEF NormalizeText
<1>2. S \intersect KeyNames = {}
  <2>1. \A n \in DOMAIN text : text[n] \notin KeyNames
    BY DEF IsPlain
  <2> QED BY <2>1, TypableIsNoKeyName
<1>3. DOMAIN text = 1..Len(text) /\ Len(text) \in Nat
  BY DEF IsPlain
<1>4. pieces \in Seq(Seq(S))
  <2>1. \A n \in DOMAIN text : Typable(text[n]) \in S
    OBVIOUS
  <2> HIDE DEF S, InPair
  <2>2. \A n \in DOMAIN text : <<Typable(text[n])>> \in Seq(S) /\ <<>> \in Seq(S)
    BY <2>1
  <2>3. pieces \in [1..Len(text) -> Seq(S)]
    BY <1>3, <2>2
  <2> HIDE DEF pieces
  <2> QED BY <1>3, <2>3
<1> HIDE DEF pieces, S
<1>5. plain \in Seq(S)
  BY <1>4, FlattenHasPieces
<1> HIDE DEF plain
<1>6. ASSUME solid # {} PROVE first \in DOMAIN plain /\ last \in DOMAIN plain
  <2>1. Len(plain) \in Nat /\ DOMAIN plain = 1..Len(plain)
    BY <1>5
  <2>2. solid \subseteq Nat /\ solid \subseteq DOMAIN plain /\ \A n \in solid : n <= Len(plain)
    BY <2>1
  <2> HIDE DEF solid
  <2>3. \E n \in solid : \A o \in solid : n <= o
    BY <1>6, <2>2, SmallestNat
  <2>4. \E n \in solid : \A o \in solid : o <= n
    BY <1>6, <2>1, <2>2, LargestBounded
  <2>5. first \in solid
    BY <2>3, Zenon
  <2>6. last \in solid
    BY <2>4, Zenon
  <2> QED BY <2>2, <2>5, <2>6
<1> HIDE DEF solid, first, last
<1>7. NormalizeText(text) \in Seq(S)
  <2>1. ASSUME solid # {} PROVE SubSeq(plain, first, last) \in Seq(S)
    BY <1>5, <1>6, <2>1
  <2> QED BY <1>1, <2>1
<1> QED BY <1>2, <1>7, PlainOver

\* What a key types that stands for a character.
LEMMA TokenIsSpelled ==
    ASSUME NEW c, c \notin KeyNames
    PROVE  /\ KeyToken(c) = "SPACE" => c = " "
           /\ KeyToken(c) = "TAB" => c = "\t"
           /\ KeyToken(c) # "ENTER"
           /\ KeyToken(c) \notin KeyNames => KeyToken(c) = c
BY DEF KeyToken, KeyNames

\* The keys of a text spell it.
LEMMA TextIsTyped ==
    ASSUME NEW text, IsPlain(text), NEW append_enter
    PROVE  Spelled(Tail(TextCommands(text, append_enter))) =
              text \o (IF append_enter THEN <<LineFeed>> ELSE <<>>)
<1> DEFINE Key(c) == IF c = LineFeed THEN Keystroke("ENTER") ELSE Keystroke(KeyToken(c))
           keys == [n \in DOMAIN text |-> Key(text[n])]
           end == IF append_enter THEN <<Keystroke("ENTER")>> ELSE <<>>
           added == IF append_enter THEN <<LineFeed>> ELSE <<>>
           Spell(key) == CASE key = "SPACE" -> " " [] key = "TAB" -> "\t"
                           [] key = "ENTER" -> LineFeed [] OTHER -> key
           Chars == {text[n] : n \in DOMAIN text} \union {LineFeed}
           Keys == {Key(c) : c \in Chars} \union {Keystroke("ENTER"), ResetModifiers}
<1>1. DOMAIN text = 1..Len(text) /\ Len(text) \in Nat /\ text \in Seq(Chars)
  BY DEF IsPlain
<1>2. \A n \in DOMAIN text : text[n] \notin KeyNames
  BY DEF IsPlain
<1>3. keys \in Seq(Keys) /\ Len(keys) = Len(text)
  <2>1. keys \in [1..Len(text) -> Keys]
    BY <1>1
  <2> HIDE DEF keys, Keys
  <2> QED BY <1>1, <2>1
<1>4. \A n \in 1..Len(text) : keys[n] = Key(text[n])
  BY <1>1
<1>5. TextCommands(text, append_enter) = (<<ResetModifiers>> \o keys) \o end
  BY DEF TextCommands
<1>6. Spell("ENTER") = LineFeed /\ Keystroke("ENTER").key = "ENTER"
  BY DEF Keystroke
<1>7. ASSUME NEW n \in DOMAIN text PROVE Spell(Key(text[n]).key) = text[n]
  <2> DEFINE c == text[n]
  <2>1. c \notin KeyNames
    BY <1>2
  <2> HIDE DEF c
  <2>2. CASE c = LineFeed
    BY <1>6, <2>2 DEF c
  <2>3. CASE c # LineFeed
    <3>1. Key(c).key = KeyToken(c)
      BY <2>3 DEF Keystroke
    <3>2. Spell(KeyToken(c)) = c
      BY <2>1, TokenIsSpelled DEF KeyNames
    <3> QED BY <3>1, <3>2 DEF c
  <2> QED BY <2>2, <2>3
<1> DEFINE keyed == Tail((<<ResetModifiers>> \o keys) \o end)
<1>8. end \in Seq(Keys) /\ ResetModifiers \in Keys /\ added \in Seq(Chars) /\ Len(end) = Len(added)
  <2>1. Keystroke("ENTER") \in Keys /\ ResetModifiers \in Keys /\ LineFeed \in Chars
    OBVIOUS
  <2> HIDE DEF Keys, Chars
  <2> QED BY <2>1
<1>9. \A n \in 1..Len(end) : end[n] = Keystroke("ENTER") /\ added[n] = LineFeed
  OBVIOUS
<1> HIDE DEF keys, end, added, Keys, Chars, Key, Spell
<1>10. keyed = keys \o end
  BY <1>3, <1>8
<1>11. /\ DOMAIN keyed = 1..(Len(text) + Len(end))
       /\ DOMAIN (text \o added) = 1..(Len(text) + Len(end))
       /\ Len(end) \in Nat
  BY <1>1, <1>3, <1>8, <1>10
<1>12. Spelled(keyed) = [n \in DOMAIN keyed |-> Spell(keyed[n].key)]
  BY DEF Spelled, Spell
<1> HIDE DEF keyed
<1>13. ASSUME NEW n \in DOMAIN keyed PROVE Spell(keyed[n].key) = (text \o added)[n]
  <2>1. CASE n \in 1..Len(text)
    <3>1. keyed[n] = keys[n] /\ (text \o added)[n] = text[n]
      BY <1>1, <1>3, <1>8, <1>10, <2>1
    <3> QED BY <1>1, <1>4, <1>7, <2>1, <3>1
  <2>2. CASE n \in (Len(text) + 1)..(Len(text) + Len(end))
    <3>1. /\ n - Len(text) \in 1..Len(end)
          /\ keyed[n] = end[n - Len(text)]
          /\ (text \o added)[n] = added[n - Len(text)]
      BY <1>1, <1>3, <1>8, <1>10, <1>11, <2>2
    <3> QED BY <1>6, <1>9, <3>1
  <2> QED BY <1>1, <1>11, <2>1, <2>2
<1>14. text \o added = [n \in DOMAIN keyed |-> (text \o added)[n]]
  <2> DEFINE whole == text \o added
  <2>1. whole \in Seq(Chars)
    BY <1>1, <1>8
  <2> HIDE DEF whole
  <2>2. whole = [n \in DOMAIN whole |-> whole[n]]
    BY <2>1
  <2>3. DOMAIN whole = DOMAIN keyed
    BY <1>11 DEF whole
  <2> QED BY <2>2, <2>3 DEF whole
<1>15. Spelled(keyed) = text \o added
  BY <1>12, <1>13, <1>14
<1> QED BY <1>5, <1>15 DEF keyed, added

-----------------------------------------------------------------------------
(* The keys of rows *)

HoldsNoTab(text) == \A n \in DOMAIN text : text[n] # "\t"
IsCell(text) == IsPlain(text) /\ HoldsNoTab(text)
IsRow(row) == IsCell(row.cat) /\ IsCell(row.sel) /\ IsCell(row.quantity)

\* The keys of a row, and where its tabs and its enter are among them.
RowKeys(row) ==
    Keystrokes(row.cat) \o <<Keystroke("TAB")>>
        \o Keystrokes(row.sel) \o <<Keystroke("TAB")>>
        \o Keystrokes(row.quantity) \o <<Keystroke("ENTER")>>
FirstTab(row) == Len(row.cat) + 1
SecondTab(row) == FirstTab(row) + Len(row.sel) + 1
RowEnter(row) == SecondTab(row) + Len(row.quantity) + 1

\* The keys of a cell neither leave the cell nor mean anything else.
LEMMA CellKeys ==
    ASSUME NEW text, IsCell(text)
    PROVE  /\ Len(text) \in Nat /\ Len(Keystrokes(text)) = Len(text)
           /\ Keystrokes(text) \in Seq({Keystroke(KeyToken(text[n])) : n \in DOMAIN text})
           /\ \A n \in 1..Len(text) :
                 /\ Keystrokes(text)[n] = Keystroke(KeyToken(text[n]))
                 /\ KeyToken(text[n]) \notin {"TAB", "ENTER"}
<1> DEFINE S == {Keystroke(KeyToken(text[n])) : n \in DOMAIN text}
           keys == Keystrokes(text)
<1>1. DOMAIN text = 1..Len(text) /\ Len(text) \in Nat
  BY DEF IsCell, IsPlain
<1>2. keys = [n \in 1..Len(text) |-> Keystroke(KeyToken(text[n]))]
  BY <1>1 DEF Keystrokes
<1>3. keys \in [1..Len(text) -> S]
  BY <1>1, <1>2
<1>4. \A n \in 1..Len(text) : text[n] \notin KeyNames /\ text[n] # "\t"
  BY <1>1 DEF IsCell, IsPlain, HoldsNoTab
<1>5. \A n \in 1..Len(text) : KeyToken(text[n]) \notin {"TAB", "ENTER"}
  BY <1>4, TokenIsSpelled
<1> HIDE DEF S, keys
<1>6. keys \in Seq(S) /\ Len(keys) = Len(text)
  BY <1>1, <1>3
<1> QED BY <1>1, <1>2, <1>5, <1>6 DEF S, keys

\* What two sequences are when they are put together.
IsJoin(whole, f, g) ==
    /\ Len(whole) = Len(f) + Len(g)
    /\ \A k \in 1..Len(f) : whole[k] = f[k]
    /\ \A k \in 1..Len(g) : whole[Len(f) + k] = g[k]

\* The two parts of a join stand in it one after the other.
LEMMA Joined ==
    ASSUME NEW S, NEW f \in Seq(S), NEW g \in Seq(S)
    PROVE  f \o g \in Seq(S) /\ IsJoin(f \o g, f, g)
BY DEF IsJoin

\* What the keys of a row are, place by place.
LEMMA RowKeysAre ==
    ASSUME NEW row, IsRow(row)
    PROVE  /\ RowKeys(row) \in Seq(Range(RowKeys(row)))
           /\ Len(RowKeys(row)) = RowEnter(row)
           /\ \A k \in 1..Len(row.cat) : RowKeys(row)[k] = Keystrokes(row.cat)[k]
           /\ RowKeys(row)[FirstTab(row)] = Keystroke("TAB")
           /\ \A k \in 1..Len(row.sel) : RowKeys(row)[FirstTab(row) + k] = Keystrokes(row.sel)[k]
           /\ RowKeys(row)[SecondTab(row)] = Keystroke("TAB")
           /\ \A k \in 1..Len(row.quantity) :
                 RowKeys(row)[SecondTab(row) + k] = Keystrokes(row.quantity)[k]
           /\ RowKeys(row)[RowEnter(row)] = Keystroke("ENTER")
<1> DEFINE S == {Keystroke(KeyToken(row.cat[n])) : n \in DOMAIN row.cat}
                  \union {Keystroke(KeyToken(row.sel[n])) : n \in DOMAIN row.sel}
                  \union {Keystroke(KeyToken(row.quantity[n])) : n \in DOMAIN row.quantity}
                  \union {Keystroke("TAB"), Keystroke("ENTER")}
           a == Len(row.cat)
           b == Len(row.sel)
           c == Len(row.quantity)
           x == FirstTab(row)
           y == SecondTab(row)
           z == RowEnter(row)
           A == Keystrokes(row.cat)
           B == Keystrokes(row.sel)
           C == Keystrokes(row.quantity)
           tab == Keystroke("TAB")
           enter == Keystroke("ENTER")
           keys == RowKeys(row)
<1>1. /\ a \in Nat /\ b \in Nat /\ c \in Nat
      /\ Len(A) = a /\ Len(B) = b /\ Len(C) = c
      /\ A \in Seq(S) /\ B \in Seq(S) /\ C \in Seq(S)
  <2>1. \A T, U, list : T \subseteq U /\ list \in Seq(T) => list \in Seq(U)
    OBVIOUS
  <2> DEFINE Keys(text) == {Keystroke(KeyToken(text[n])) : n \in DOMAIN text}
  <2>2. \A text : IsCell(text) =>
           Len(text) \in Nat /\ Len(Keystrokes(text)) = Len(text) /\ Keystrokes(text) \in Seq(Keys(text))
    BY CellKeys
  <2>3. Keys(row.cat) \subseteq S /\ Keys(row.sel) \subseteq S /\ Keys(row.quantity) \subseteq S
    OBVIOUS
  <2> HIDE DEF S, Keys
  <2>4. IsCell(row.cat) /\ IsCell(row.sel) /\ IsCell(row.quantity)
    BY DEF IsRow
  <2>5. A \in Seq(S) /\ B \in Seq(S) /\ C \in Seq(S)
    BY <2>1, <2>2, <2>3, <2>4
  <2> QED BY <2>2, <2>4, <2>5
<1>2. <<tab>> \in Seq(S) /\ <<enter>> \in Seq(S)
  <2>1. tab \in S /\ enter \in S
    OBVIOUS
  <2> HIDE DEF S, tab, enter
  <2> QED BY <2>1
<1>3. keys = A \o <<tab>> \o B \o <<tab>> \o C \o <<enter>>
  BY DEF RowKeys
<1>4. x = a + 1 /\ y = x + b + 1 /\ z = y + c + 1
  BY DEF FirstTab, SecondTab, RowEnter
<1>5. Len(<<tab>>) = 1 /\ <<tab>>[1] = tab /\ Len(<<enter>>) = 1 /\ <<enter>>[1] = enter
  OBVIOUS
<1> HIDE DEF A, B, C, a, b, c, x, y, z, tab, enter, S, keys
<1> DEFINE p == A \o <<tab>>
           q == p \o B
           r == q \o <<tab>>
           s == r \o C
<1>10. keys = s \o <<enter>>
  BY <1>3
<1>6. p \in Seq(S) /\ IsJoin(p, A, <<tab>>)
  BY <1>1, <1>2, Joined
<1> HIDE DEF p
<1>7. q \in Seq(S) /\ IsJoin(q, p, B)
  BY <1>1, <1>6, Joined
<1> HIDE DEF q
<1>8. r \in Seq(S) /\ IsJoin(r, q, <<tab>>)
  BY <1>2, <1>7, Joined
<1> HIDE DEF r
<1>9. s \in Seq(S) /\ IsJoin(s, r, C)
  BY <1>1, <1>8, Joined
<1> HIDE DEF s
<1>11. keys \in Seq(S) /\ IsJoin(keys, s, <<enter>>)
  BY <1>2, <1>9, <1>10, Joined
<1>23. Len(p) = x /\ Len(q) = x + b /\ Len(r) = y /\ Len(s) = y + c /\ Len(keys) = z
  BY <1>1, <1>4, <1>5, <1>6, <1>7, <1>8, <1>9, <1>11 DEF IsJoin
<1>12. x \in Nat /\ y \in Nat /\ z \in Nat /\ 1 <= x /\ a < x /\ x + b < y /\ y + c < z
  BY <1>1, <1>4
<1>13. \A k \in 1..y : keys[k] = r[k]
  BY <1>1, <1>9, <1>11, <1>12, <1>23 DEF IsJoin
<1>14. \A k \in 1..(x + b) : keys[k] = q[k]
  BY <1>1, <1>8, <1>12, <1>13, <1>23 DEF IsJoin
<1>15. \A k \in 1..x : keys[k] = p[k]
  BY <1>1, <1>7, <1>12, <1>14, <1>23 DEF IsJoin
<1>16. \A k \in 1..a : keys[k] = A[k]
  BY <1>1, <1>6, <1>12, <1>15, <1>23 DEF IsJoin
<1>17. keys[x] = tab
  <2>1. p[a + 1] = tab
    BY <1>1, <1>5, <1>6 DEF IsJoin
  <2> QED BY <1>4, <1>12, <1>15, <2>1
<1>18. \A k \in 1..b : keys[x + k] = B[k]
  <2> SUFFICES ASSUME NEW k \in 1..b PROVE keys[x + k] = B[k]
    OBVIOUS
  <2>1. x + k \in 1..(x + b)
    BY <1>1, <1>12
  <2> QED BY <1>1, <1>7, <1>14, <1>23, <2>1 DEF IsJoin
<1>19. keys[y] = tab
  <2>1. r[(x + b) + 1] = tab
    BY <1>5, <1>8, <1>23 DEF IsJoin
  <2>2. y \in 1..y /\ y = (x + b) + 1
    BY <1>1, <1>4, <1>12
  <2> QED BY <1>13, <2>1, <2>2
<1>20. \A k \in 1..c : keys[y + k] = C[k]
  <2> SUFFICES ASSUME NEW k \in 1..c PROVE keys[y + k] = C[k]
    OBVIOUS
  <2>1. y + k \in 1..(y + c)
    BY <1>1, <1>12
  <2> QED BY <1>1, <1>9, <1>11, <1>23, <2>1 DEF IsJoin
<1>21. keys[z] = enter
  <2>1. keys[(y + c) + 1] = enter
    BY <1>5, <1>11, <1>23 DEF IsJoin
  <2> QED BY <1>1, <1>4, <2>1
<1>22. keys \in Seq(Range(keys)) /\ Len(keys) = z
  <2>1. keys \in [1..Len(keys) -> Range(keys)] /\ Len(keys) \in Nat
    BY <1>11 DEF Range
  <2> QED BY <1>23, <2>1
<1> QED
  BY <1>16, <1>17, <1>18, <1>19, <1>20, <1>21, <1>22
     DEF a, b, c, x, y, z, A, B, C, tab, enter, keys

\* A row has two tabs and ends with its only enter.
LEMMA RowMoves ==
    ASSUME NEW row, IsRow(row)
    PROVE  /\ FirstTab(row) \in Nat /\ SecondTab(row) \in Nat /\ RowEnter(row) \in Nat
           /\ 1 <= FirstTab(row) /\ FirstTab(row) < SecondTab(row) /\ SecondTab(row) < RowEnter(row)
           /\ DOMAIN RowKeys(row) = 1..RowEnter(row)
           /\ \A k \in 1..RowEnter(row) :
                 /\ RowKeys(row)[k].kind = "key"
                 /\ RowKeys(row)[k].key = "TAB" <=> k \in {FirstTab(row), SecondTab(row)}
                 /\ RowKeys(row)[k].key = "ENTER" <=> k = RowEnter(row)
<1> DEFINE a == Len(row.cat)
           b == Len(row.sel)
           c == Len(row.quantity)
           keys == RowKeys(row)
           x == FirstTab(row)
           y == SecondTab(row)
           z == RowEnter(row)
<1>1. a \in Nat /\ b \in Nat /\ c \in Nat
  BY CellKeys DEF IsRow
<1>2. x = a + 1 /\ y = x + b + 1 /\ z = y + c + 1
  BY DEF FirstTab, SecondTab, RowEnter
<1>3. /\ keys \in Seq(Range(keys)) /\ Len(keys) = z
      /\ \A k \in 1..a : keys[k] = Keystrokes(row.cat)[k]
      /\ keys[x] = Keystroke("TAB")
      /\ \A k \in 1..b : keys[x + k] = Keystrokes(row.sel)[k]
      /\ keys[y] = Keystroke("TAB")
      /\ \A k \in 1..c : keys[y + k] = Keystrokes(row.quantity)[k]
      /\ keys[z] = Keystroke("ENTER")
  BY RowKeysAre
<1>4. \A token : Keystroke(token).kind = "key" /\ Keystroke(token).key = token
  BY DEF Keystroke
<1>5. \A text : IsCell(text) =>
         \A k \in 1..Len(text) : /\ Keystrokes(text)[k].kind = "key"
                                 /\ Keystrokes(text)[k].key \notin {"TAB", "ENTER"}
  <2> SUFFICES ASSUME NEW text, IsCell(text), NEW k \in 1..Len(text)
               PROVE  /\ Keystrokes(text)[k].kind = "key"
                      /\ Keystrokes(text)[k].key \notin {"TAB", "ENTER"}
    OBVIOUS
  <2>1. /\ Keystrokes(text)[k] = Keystroke(KeyToken(text[k]))
        /\ KeyToken(text[k]) \notin {"TAB", "ENTER"}
    BY CellKeys
  <2> QED BY <1>4, <2>1
<1>9. /\ \A k \in 1..a : /\ Keystrokes(row.cat)[k].kind = "key"
                         /\ Keystrokes(row.cat)[k].key \notin {"TAB", "ENTER"}
      /\ \A k \in 1..b : /\ Keystrokes(row.sel)[k].kind = "key"
                         /\ Keystrokes(row.sel)[k].key \notin {"TAB", "ENTER"}
      /\ \A k \in 1..c : /\ Keystrokes(row.quantity)[k].kind = "key"
                         /\ Keystrokes(row.quantity)[k].key \notin {"TAB", "ENTER"}
  BY <1>5 DEF IsRow
<1> HIDE DEF a, b, c, keys, x, y, z
<1>6. ASSUME NEW k \in 1..z
      PROVE  /\ keys[k].kind = "key"
             /\ keys[k].key = "TAB" <=> k \in {x, y}
             /\ keys[k].key = "ENTER" <=> k = z
  <2>1. CASE k \in 1..a
    BY <1>1, <1>2, <1>3, <1>9, <2>1
  <2>2. CASE k = x
    BY <1>1, <1>2, <1>3, <1>4, <2>2
  <2>3. CASE k > x /\ k < y
    <3>1. k - x \in 1..b /\ k = x + (k - x)
      BY <1>1, <1>2, <2>3
    <3>2. keys[k].kind = "key" /\ keys[k].key \notin {"TAB", "ENTER"}
      BY <1>3, <1>9, <3>1
    <3> QED BY <1>1, <1>2, <2>3, <3>2
  <2>4. CASE k = y
    BY <1>1, <1>2, <1>3, <1>4, <2>4
  <2>5. CASE k > y /\ k < z
    <3>1. k - y \in 1..c /\ k = y + (k - y)
      BY <1>1, <1>2, <2>5
    <3>2. keys[k].kind = "key" /\ keys[k].key \notin {"TAB", "ENTER"}
      BY <1>3, <1>9, <3>1
    <3> QED BY <1>1, <1>2, <2>5, <3>2
  <2>6. CASE k = z
    BY <1>1, <1>2, <1>3, <1>4, <2>6
  <2> QED BY <1>1, <1>2, <2>1, <2>2, <2>3, <2>4, <2>5, <2>6
<1>7. DOMAIN keys = 1..z
  BY <1>3
<1>8. x \in Nat /\ y \in Nat /\ z \in Nat /\ 1 <= x /\ x < y /\ y < z
  BY <1>1, <1>2
<1> QED BY <1>6, <1>7, <1>8 DEF x, y, z, keys

\* The commands of rows: before[i] of them come before those of the i-th row.
InGrid(rows, commands, before) ==
    /\ before \in [1..(Len(rows) + 1) -> Nat]
    /\ before[1] = 1
    /\ \A i \in DOMAIN rows : before[i + 1] = before[i] + RowEnter(rows[i])
    /\ \A i \in DOMAIN rows, j \in 1..(Len(rows) + 1) :
          i < j => before[i] + RowEnter(rows[i]) <= before[j]
    /\ Len(commands) = before[Len(rows) + 1] /\ DOMAIN commands = 1..Len(commands)
    /\ commands[1] = ResetModifiers
    /\ \A i \in DOMAIN rows : \A k \in 1..RowEnter(rows[i]) :
          before[i] + k \in DOMAIN commands /\ commands[before[i] + k] = RowKeys(rows[i])[k]
    /\ \A n \in DOMAIN commands : n # 1 =>
          \E i \in DOMAIN rows : \E k \in 1..RowEnter(rows[i]) : n = before[i] + k

\* The commands of rows are those of each row, after the reset of the modifiers.
LEMMA RowsAreInGrid ==
    ASSUME NEW S, NEW rows \in Seq(S), \A i \in DOMAIN rows : IsRow(rows[i])
    PROVE  \E before : InGrid(rows, RowCommands(rows), before)
<1> DEFINE N == Len(rows)
           blocks == [i \in DOMAIN rows |-> RowKeys(rows[i])]
           K == UNION {Range(RowKeys(rows[i])) : i \in DOMAIN rows}
           flat == FlattenSeq(blocks)
           commands == <<ResetModifiers>> \o flat
<1>1. N \in Nat /\ DOMAIN rows = 1..N
  OBVIOUS
<1>2. RowCommands(rows) = commands
  BY DEF RowCommands, RowKeys
<1>3. \A i \in 1..N : RowKeys(rows[i]) \in Seq(K) /\ Len(RowKeys(rows[i])) = RowEnter(rows[i])
                      /\ DOMAIN RowKeys(rows[i]) = 1..RowEnter(rows[i])
                      /\ RowEnter(rows[i]) \in Nat
  <2> SUFFICES ASSUME NEW i \in 1..N
               PROVE  /\ RowKeys(rows[i]) \in Seq(K)
                      /\ Len(RowKeys(rows[i])) = RowEnter(rows[i])
                      /\ DOMAIN RowKeys(rows[i]) = 1..RowEnter(rows[i])
                      /\ RowEnter(rows[i]) \in Nat
    OBVIOUS
  <2>1. IsRow(rows[i])
    BY <1>1
  <2>2. RowKeys(rows[i]) \in Seq(Range(RowKeys(rows[i])))
    BY <2>1, RowKeysAre
  <2>3. Range(RowKeys(rows[i])) \subseteq K
    BY <1>1
  <2>4. \A T, U, list : T \subseteq U /\ list \in Seq(T) => list \in Seq(U)
    OBVIOUS
  <2>5. RowKeys(rows[i]) \in Seq(K)
    <3> HIDE DEF K
    <3> QED BY <2>2, <2>3, <2>4
  <2> QED BY <2>1, <2>5, RowKeysAre, RowMoves
<1>4. blocks \in Seq(Seq(K)) /\ Len(blocks) = N /\ DOMAIN blocks = 1..N
      /\ \A i \in 1..N : blocks[i] = RowKeys(rows[i])
  <2> HIDE DEF K
  <2>1. blocks \in [1..N -> Seq(K)]
    BY <1>1, <1>3
  <2>2. \A i \in 1..N : blocks[i] = RowKeys(rows[i])
    BY <1>1
  <2> HIDE DEF blocks
  <2> QED BY <1>1, <2>1, <2>2
<1> HIDE DEF blocks, K
<1>5. PICK start : Pieces(start, blocks, flat)
  BY <1>4, FlattenHasPieces
<1>6. flat \in Seq(K)
  BY <1>4, FlattenHasPieces
<1> HIDE DEF flat, N
<1> DEFINE before == [i \in 1..(N + 1) |-> 1 + start[i]]
<1>7. /\ start \in [1..(N + 1) -> Nat]
      /\ start[1] = 0
      /\ \A i \in 1..N : start[i + 1] = start[i] + RowEnter(rows[i])
      /\ \A i \in 1..N, j \in 1..(N + 1) : i < j => start[i] + RowEnter(rows[i]) <= start[j]
      /\ Len(flat) = start[N + 1]
  <2>1. /\ start \in [1..(Len(blocks) + 1) -> Nat]
        /\ start[1] = 0
        /\ \A i \in DOMAIN blocks : start[i + 1] = start[i] + Len(blocks[i])
        /\ \A i \in DOMAIN blocks, j \in 1..(Len(blocks) + 1) :
              i < j => start[i] + Len(blocks[i]) <= start[j]
        /\ Len(flat) = start[Len(blocks) + 1]
    BY <1>5 DEF Pieces
  <2>2. \A i \in 1..N : Len(blocks[i]) = RowEnter(rows[i])
    BY <1>3, <1>4
  <2>3. /\ start \in [1..(N + 1) -> Nat]
        /\ Len(flat) = start[N + 1]
    BY <1>4, <2>1
  <2>4. \A i \in 1..N : start[i + 1] = start[i] + RowEnter(rows[i])
    BY <1>4, <2>1, <2>2
  <2>5. \A i \in 1..N, j \in 1..(N + 1) : i < j => start[i] + RowEnter(rows[i]) <= start[j]
    BY <1>4, <2>1, <2>2
  <2> QED BY <2>1, <2>3, <2>4, <2>5
<1>8. \A i \in 1..N : \A k \in 1..RowEnter(rows[i]) :
         start[i] + k \in DOMAIN flat /\ flat[start[i] + k] = RowKeys(rows[i])[k]
  <2>1. \A i \in DOMAIN blocks : \A k \in DOMAIN blocks[i] :
           start[i] + k \in DOMAIN flat /\ flat[start[i] + k] = blocks[i][k]
    BY <1>5 DEF Pieces
  <2>2. \A i \in 1..N : i \in DOMAIN blocks /\ DOMAIN blocks[i] = 1..RowEnter(rows[i])
    BY <1>3, <1>4
  <2> SUFFICES ASSUME NEW i \in 1..N, NEW k \in 1..RowEnter(rows[i])
               PROVE  start[i] + k \in DOMAIN flat /\ flat[start[i] + k] = RowKeys(rows[i])[k]
    OBVIOUS
  <2>3. i \in DOMAIN blocks /\ k \in DOMAIN blocks[i] /\ blocks[i] = RowKeys(rows[i])
    BY <1>4, <2>2
  <2> QED BY <2>1, <2>3, Zenon
<1>9. \A n \in DOMAIN flat : \E i \in 1..N : \E k \in 1..RowEnter(rows[i]) : n = start[i] + k
  <2>1. \A n \in DOMAIN flat : \E i \in DOMAIN blocks : \E k \in DOMAIN blocks[i] : n = start[i] + k
    BY <1>5 DEF Pieces
  <2> QED BY <1>3, <1>4, <2>1
<1>10. DOMAIN flat = 1..start[N + 1] /\ start[N + 1] \in Nat
  BY <1>1, <1>6, <1>7
<1>11. /\ Len(commands) = 1 + start[N + 1]
       /\ DOMAIN commands = 1..(1 + start[N + 1])
       /\ commands[1] = ResetModifiers
       /\ \A n \in 1..start[N + 1] : commands[1 + n] = flat[n]
  <2> DEFINE T == K \union {ResetModifiers}
  <2>1. ResetModifiers \in T /\ K \subseteq T
    OBVIOUS
  <2> HIDE DEF T
  <2>2. flat \in Seq(T)
    BY <1>6, <2>1
  <2> QED BY <1>7, <1>10, <2>1, <2>2
<1>12. /\ before \in [1..(N + 1) -> Nat] /\ before[1] = 1
       /\ \A i \in 1..(N + 1) : before[i] = 1 + start[i] /\ start[i] \in Nat
  BY <1>1, <1>7
<1> HIDE DEF before, commands
<1>13. \A i \in 1..N : before[i + 1] = before[i] + RowEnter(rows[i])
  <2> SUFFICES ASSUME NEW i \in 1..N PROVE before[i + 1] = before[i] + RowEnter(rows[i])
    OBVIOUS
  <2>1. i \in 1..(N + 1) /\ i + 1 \in 1..(N + 1)
    BY <1>1
  <2>2. /\ before[i] = 1 + start[i] /\ before[i + 1] = 1 + start[i + 1]
        /\ start[i] \in Nat /\ start[i + 1] \in Nat /\ RowEnter(rows[i]) \in Nat
    BY <1>3, <1>12, <2>1
  <2>3. start[i + 1] = start[i] + RowEnter(rows[i])
    BY <1>7
  <2> QED BY <2>2, <2>3
<1>14. \A i \in 1..N, j \in 1..(N + 1) : i < j => before[i] + RowEnter(rows[i]) <= before[j]
  <2> SUFFICES ASSUME NEW i \in 1..N, NEW j \in 1..(N + 1), i < j
               PROVE  before[i] + RowEnter(rows[i]) <= before[j]
    OBVIOUS
  <2>1. i \in 1..(N + 1)
    BY <1>1
  <2>2. /\ before[i] = 1 + start[i] /\ before[j] = 1 + start[j]
        /\ start[i] \in Nat /\ start[j] \in Nat /\ RowEnter(rows[i]) \in Nat
    BY <1>3, <1>12, <2>1
  <2>3. start[i] + RowEnter(rows[i]) <= start[j]
    BY <1>7
  <2> QED BY <2>2, <2>3
<1>15. ASSUME NEW i \in 1..N, NEW k \in 1..RowEnter(rows[i])
       PROVE  before[i] + k \in DOMAIN commands /\ commands[before[i] + k] = RowKeys(rows[i])[k]
  <2>1. start[i] + k \in DOMAIN flat /\ flat[start[i] + k] = RowKeys(rows[i])[k]
    BY <1>8
  <2>2. before[i] + k = 1 + (start[i] + k) /\ k \in Nat
    BY <1>1, <1>3, <1>12
  <2>3. start[i] + k \in 1..start[N + 1]
    BY <1>10, <2>1
  <2> QED BY <1>10, <1>11, <2>1, <2>2, <2>3
<1>16. ASSUME NEW n \in DOMAIN commands, n # 1
       PROVE  \E i \in 1..N : \E k \in 1..RowEnter(rows[i]) : n = before[i] + k
  <2>1. n - 1 \in DOMAIN flat /\ n \in Nat
    BY <1>10, <1>11, <1>16
  <2>2. PICK i \in 1..N : \E k \in 1..RowEnter(rows[i]) : n - 1 = start[i] + k
    BY <1>9, <2>1
  <2>3. PICK k \in 1..RowEnter(rows[i]) : n - 1 = start[i] + k
    BY <2>2
  <2>4. n = before[i] + k
    <3>1. k \in Nat /\ start[i] \in Nat /\ before[i] = 1 + start[i]
      <4>1. i \in 1..(N + 1) /\ RowEnter(rows[i]) \in Nat
        BY <1>1, <1>3
      <4> QED BY <1>12, <4>1
    <3>2. \A u \in Nat, v \in Nat, w \in Nat : u - 1 = v + w => u = (1 + v) + w
      OBVIOUS
    <3>3. n \in Nat /\ n - 1 = start[i] + k
      BY <2>1, <2>3
    <3>4. n = (1 + start[i]) + k
      BY <3>1, <3>2, <3>3, Zenon
    <3> QED BY <3>1, <3>4, Zenon
  <2> QED BY <2>4
<1>17. Len(commands) = before[N + 1] /\ DOMAIN commands = 1..Len(commands)
  BY <1>1, <1>11, <1>12
<1>18. InGrid(rows, commands, before)
  <2>1. DOMAIN rows = 1..N
    BY <1>1
  <2>2. \A i \in DOMAIN rows : \A k \in 1..RowEnter(rows[i]) :
           before[i] + k \in DOMAIN commands /\ commands[before[i] + k] = RowKeys(rows[i])[k]
    BY <1>15, <2>1
  <2>3. \A n \in DOMAIN commands : n # 1 =>
           \E i \in DOMAIN rows : \E k \in 1..RowEnter(rows[i]) : n = before[i] + k
    BY <1>16, <2>1
  <2>4. /\ \A i \in DOMAIN rows : before[i + 1] = before[i] + RowEnter(rows[i])
        /\ \A i \in DOMAIN rows, j \in 1..(N + 1) :
              i < j => before[i] + RowEnter(rows[i]) <= before[j]
    BY <1>13, <1>14, <2>1
  <2>5. /\ before \in [1..(N + 1) -> Nat] /\ before[1] = 1 /\ commands[1] = ResetModifiers
        /\ Len(commands) = before[N + 1] /\ DOMAIN commands = 1..Len(commands)
    BY <1>11, <1>12, <1>17
  <2> HIDE DEF commands, before
  <2> QED
    BY <2>2, <2>3, <2>4, <2>5, Zenon DEF InGrid, N
<1> QED BY <1>2, <1>18

\* How many numbers an interval has.
LEMMA IntervalSize ==
    ASSUME NEW m \in Nat
    PROVE  IsFiniteSet(1..m) /\ Cardinality(1..m) = m
<1>1. IsFiniteSet(1..m) /\ Cardinality(1..m) = IF 1 > m THEN 0 ELSE m - 1 + 1
  BY FS_Interval
<1> QED BY <1>1

\* The enters before a key of a row are those of the rows before it.
LEMMA EntersOfRows ==
    ASSUME NEW rows, NEW commands, NEW before, InGrid(rows, commands, before), Len(rows) \in Nat,
           DOMAIN rows = 1..Len(rows), \A i \in DOMAIN rows : IsRow(rows[i]),
           NEW i \in 1..(Len(rows) + 1), NEW n \in Nat, before[i] < n,
           i = Len(rows) + 1 => n = before[i] + 1, i # Len(rows) + 1 => n <= before[i + 1]
    PROVE  /\ KeysBefore(commands, n, "ENTER") = {before[j + 1] : j \in 1..(i - 1)}
           /\ \A j \in 1..(i - 1) : before[j + 1] <= before[i]
           /\ i # 1 => before[i] \in KeysBefore(commands, n, "ENTER")
           /\ Cardinality(KeysBefore(commands, n, "ENTER")) = i - 1
<1> DEFINE N == Len(rows)
           enters == {before[j + 1] : j \in 1..(i - 1)}
<1>1. /\ \A j \in 1..(N + 1) : before[j] \in Nat
      /\ \A j \in 1..N : before[j + 1] = before[j] + RowEnter(rows[j])
      /\ \A j \in 1..N : \A k \in 1..(N + 1) : j < k => before[j + 1] <= before[k]
      /\ DOMAIN commands = 1..before[N + 1]
  <2>1. /\ before \in [1..(N + 1) -> Nat]
        /\ \A j \in 1..N : before[j + 1] = before[j] + RowEnter(rows[j])
        /\ \A j \in 1..N, k \in 1..(N + 1) : j < k => before[j] + RowEnter(rows[j]) <= before[k]
        /\ DOMAIN commands = 1..before[N + 1]
    BY DEF InGrid
  <2> HIDE DEF N
  <2>2. \A j \in 1..N : \A k \in 1..(N + 1) : j < k => before[j + 1] <= before[k]
    BY <2>1
  <2> QED BY <2>1, <2>2
<1>2. \A j \in 1..N : /\ RowEnter(rows[j]) \in Nat /\ 1 <= RowEnter(rows[j])
                      /\ \A k \in 1..RowEnter(rows[j]) :
                            commands[before[j] + k].key = "ENTER" <=> k = RowEnter(rows[j])
  <2> SUFFICES ASSUME NEW j \in 1..N
               PROVE  /\ RowEnter(rows[j]) \in Nat /\ 1 <= RowEnter(rows[j])
                      /\ \A k \in 1..RowEnter(rows[j]) :
                            commands[before[j] + k].key = "ENTER" <=> k = RowEnter(rows[j])
    OBVIOUS
  <2>1. IsRow(rows[j])
    OBVIOUS
  <2>2. \A k \in 1..RowEnter(rows[j]) : commands[before[j] + k] = RowKeys(rows[j])[k]
    BY DEF InGrid
  <2> QED BY <2>1, <2>2, RowMoves
<1>3. commands[1].key # "ENTER"
  <2>1. commands[1] = ResetModifiers
    BY DEF InGrid
  <2>2. ResetModifiers.key = ""
    BY DEF ResetModifiers
  <2> QED BY <2>1, <2>2
<1> HIDE DEF N
<1>4. N \in Nat /\ i \in 1..(N + 1) /\ before[i] \in Nat
  BY <1>1 DEF N
<1>5. \A j \in 1..(i - 1) : j \in 1..N /\ before[j + 1] <= before[i] /\ before[j + 1] \in Nat
  BY <1>1, <1>4
<1>6. n - 1 <= before[N + 1]
  <2>1. CASE i = N + 1
    BY <1>4, <2>1 DEF N
  <2>2. CASE i # N + 1
    <3>1. i \in 1..N /\ i < N + 1 /\ N + 1 \in 1..(N + 1) /\ i + 1 \in 1..(N + 1)
      BY <1>4, <2>2
    <3>2. before[i + 1] <= before[N + 1] /\ n <= before[i + 1]
      BY <1>1, <2>2, <3>1 DEF N
    <3> QED BY <1>1, <3>1, <3>2
  <2> QED BY <2>1, <2>2
<1>7. ASSUME NEW o \in KeysBefore(commands, n, "ENTER") PROVE o \in enters
  <2>1. o \in 1..(n - 1) /\ commands[o].key = "ENTER"
    BY DEF KeysBefore
  <2>2. o \in DOMAIN commands /\ o # 1
    <3>1. before[N + 1] \in Nat
      BY <1>1, <1>4
    <3> QED BY <1>1, <1>3, <1>6, <2>1, <3>1
  <2>3. PICK j \in 1..N : \E k \in 1..RowEnter(rows[j]) : o = before[j] + k
    BY <2>2 DEF InGrid, N
  <2>4. o = before[j + 1]
    BY <1>1, <1>2, <2>1, <2>3
  <2>5. j \in 1..(i - 1)
    <3> SUFFICES ASSUME j >= i PROVE FALSE
      BY <1>4
    <3>1. i \in 1..N /\ i + 1 \in 1..(N + 1) /\ j + 1 \in 1..(N + 1)
      BY <1>4
    <3>2. n <= before[i + 1]
      BY <1>4, <3>1 DEF N
    <3>3. before[i + 1] <= before[j + 1]
      BY <1>1, <1>4, <3>1
    <3> QED BY <1>1, <2>1, <2>4, <3>1, <3>2, <3>3
  <2> QED BY <2>4, <2>5
<1>8. ASSUME NEW j \in 1..(i - 1) PROVE before[j + 1] \in KeysBefore(commands, n, "ENTER")
  <2>1. j \in 1..N /\ before[j + 1] <= before[i] /\ before[j + 1] \in Nat
    BY <1>5
  <2>2. /\ before[j + 1] = before[j] + RowEnter(rows[j]) /\ before[j] \in Nat
        /\ RowEnter(rows[j]) \in 1..RowEnter(rows[j]) /\ RowEnter(rows[j]) \in Nat
    BY <1>1, <1>2, <1>4, <2>1
  <2>3. commands[before[j + 1]].key = "ENTER"
    BY <1>2, <2>1, <2>2
  <2>4. before[j + 1] \in 1..(n - 1)
    BY <1>4, <2>1, <2>2
  <2> QED BY <2>3, <2>4 DEF KeysBefore
<1>9. KeysBefore(commands, n, "ENTER") = enters
  BY <1>7, <1>8
<1>10. i # 1 => before[i] \in enters
  <2>1. i # 1 => i - 1 \in 1..(i - 1) /\ (i - 1) + 1 = i
    BY <1>4
  <2> QED BY <2>1
<1>11. IsFiniteSet(enters) /\ Cardinality(enters) = i - 1
  <2> DEFINE f == [j \in 1..(i - 1) |-> before[j + 1]]
  <2>1. f \in Surjection(1..(i - 1), enters)
    BY DEF Surjection
  <2>2. f \in Injection(1..(i - 1), enters)
    <3> SUFFICES ASSUME NEW j \in 1..(i - 1), NEW k \in 1..(i - 1), f[j] = f[k] PROVE j = k
      BY DEF Injection, IsInjective
    <3>1. /\ j \in 1..N /\ k \in 1..N /\ j + 1 \in 1..(N + 1) /\ k + 1 \in 1..(N + 1)
          /\ j \in 1..(N + 1) /\ k \in 1..(N + 1)
          /\ before[j + 1] = before[k + 1]
      BY <1>4
    <3>2. ~(j < k)
      <4> SUFFICES ASSUME j < k PROVE FALSE
        OBVIOUS
      <4>1. before[j + 1] <= before[k] /\ before[k + 1] = before[k] + RowEnter(rows[k])
        BY <1>1, <3>1
      <4>2. RowEnter(rows[k]) \in Nat /\ 1 <= RowEnter(rows[k]) /\ before[k] \in Nat
        BY <1>1, <1>2, <1>4, <3>1
      <4> QED BY <1>1, <3>1, <4>1, <4>2
    <3>3. ~(k < j)
      <4> SUFFICES ASSUME k < j PROVE FALSE
        OBVIOUS
      <4>1. before[k + 1] <= before[j] /\ before[j + 1] = before[j] + RowEnter(rows[j])
        BY <1>1, <3>1
      <4>2. RowEnter(rows[j]) \in Nat /\ 1 <= RowEnter(rows[j]) /\ before[j] \in Nat
        BY <1>1, <1>2, <1>4, <3>1
      <4> QED BY <1>1, <3>1, <4>1, <4>2
    <3> QED BY <1>4, <3>1, <3>2, <3>3
  <2>3. ExistsBijection(1..(i - 1), enters)
    BY <2>1, <2>2 DEF ExistsBijection, Bijection
  <2> HIDE DEF enters
  <2> DEFINE m == i - 1
  <2>4. m \in Nat
    BY <1>4
  <2> HIDE DEF m
  <2>5. IsFiniteSet(1..m) /\ Cardinality(1..m) = m
    BY <2>4, IntervalSize
  <2>6. IsFiniteSet(enters) /\ Cardinality(enters) = m
    BY <2>3, <2>5, FS_Bijection DEF m
  <2> QED BY <2>6 DEF m
<1> QED BY <1>5, <1>9, <1>10, <1>11

\* The tabs between the last enter before a key and the key, and the tabs of
\* the key's row before it.
TabsSinceEnter(commands, n) ==
    {o \in KeysBefore(commands, n, "TAB") : \A e \in KeysBefore(commands, n, "ENTER") : e < o}
TabsOfRow(rows, i) ==
    IF i = Len(rows) + 1 THEN {} ELSE {FirstTab(rows[i]), SecondTab(rows[i])}
OwnTabs(rows, before, i, n) ==
    {before[i] + t : t \in {u \in TabsOfRow(rows, i) : before[i] + u < n}}

\* The tabs before a key of a row, after the last enter, are of its own row.
LEMMA TabsOfRows ==
    ASSUME NEW rows, NEW commands, NEW before, InGrid(rows, commands, before), Len(rows) \in Nat,
           DOMAIN rows = 1..Len(rows), \A i \in DOMAIN rows : IsRow(rows[i]),
           NEW i \in 1..(Len(rows) + 1), NEW n \in Nat, before[i] < n,
           i = Len(rows) + 1 => n = before[i] + 1, i # Len(rows) + 1 => n <= before[i + 1]
    PROVE  TabsSinceEnter(commands, n) = OwnTabs(rows, before, i, n)
<1> DEFINE N == Len(rows)
           enters == KeysBefore(commands, n, "ENTER")
           moves == IF i = N + 1 THEN {} ELSE {FirstTab(rows[i]), SecondTab(rows[i])}
           tabs == {o \in KeysBefore(commands, n, "TAB") : \A e \in enters : e < o}
           own == {before[i] + t : t \in {u \in moves : before[i] + u < n}}
<1>1. /\ before \in [1..(N + 1) -> Nat] /\ before[1] = 1
      /\ \A j \in 1..N : before[j + 1] = before[j] + RowEnter(rows[j])
      /\ \A j \in 1..N, k \in 1..(N + 1) : j < k => before[j] + RowEnter(rows[j]) <= before[k]
      /\ DOMAIN commands = 1..before[N + 1]
      /\ commands[1] = ResetModifiers
  BY DEF InGrid
<1>2. /\ enters = {before[j + 1] : j \in 1..(i - 1)}
      /\ \A j \in 1..(i - 1) : before[j + 1] <= before[i]
      /\ i # 1 => before[i] \in enters
  BY EntersOfRows
<1>3. \A j \in 1..N : RowEnter(rows[j]) \in Nat /\ FirstTab(rows[j]) \in 1..RowEnter(rows[j])
                      /\ SecondTab(rows[j]) \in 1..RowEnter(rows[j])
  BY RowMoves
<1>4. \A j \in 1..N : \A k \in 1..RowEnter(rows[j]) :
         commands[before[j] + k].key = "TAB" <=> k \in {FirstTab(rows[j]), SecondTab(rows[j])}
  <2> SUFFICES ASSUME NEW j \in 1..N, NEW k \in 1..RowEnter(rows[j])
               PROVE  commands[before[j] + k].key = "TAB"
                         <=> k \in {FirstTab(rows[j]), SecondTab(rows[j])}
    OBVIOUS
  <2>1. IsRow(rows[j])
    OBVIOUS
  <2>2. commands[before[j] + k] = RowKeys(rows[j])[k]
    BY DEF InGrid
  <2> QED BY <2>1, <2>2, RowMoves
<1>5. commands[1].key # "TAB"
  <2>1. ResetModifiers.key = ""
    BY DEF ResetModifiers
  <2> QED BY <1>1, <2>1
<1>6. \A o \in DOMAIN commands : o # 1 =>
         \E j \in 1..N : \E k \in 1..RowEnter(rows[j]) : o = before[j] + k
  BY DEF InGrid
<1>7. /\ N \in Nat /\ i \in 1..(N + 1) /\ before[i] \in Nat
      /\ i = N + 1 => n = before[i] + 1
      /\ i # N + 1 => n <= before[i + 1]
  BY <1>1
<1> HIDE DEF N, enters, moves
<1>8. ASSUME NEW o \in tabs PROVE o \in own
  <2>1. o \in 1..(n - 1) /\ commands[o].key = "TAB" /\ \A e \in enters : e < o
    BY DEF KeysBefore
  <2>2. before[i] < o
    <3>1. CASE i = 1
      BY <1>1, <1>5, <2>1, <3>1
    <3>2. CASE i # 1
      BY <1>2, <2>1, <3>2
    <3> QED BY <3>1, <3>2
  <2>3. i # N + 1
    BY <1>7, <2>1, <2>2
  <2>4. i \in 1..N /\ i + 1 \in 1..(N + 1) /\ n <= before[i + 1] /\ before[i + 1] \in Nat
    BY <1>1, <1>7, <2>3
  <2>5. before[i + 1] <= before[N + 1]
    <3>1. CASE i = N
      BY <1>1, <1>7, <3>1
    <3>2. CASE i # N
      <4>1. i < N + 1 /\ N + 1 \in 1..(N + 1)
        BY <1>7, <2>4
      <4> QED BY <1>1, <2>4, <4>1
    <3> QED BY <3>1, <3>2
  <2>6. o \in DOMAIN commands /\ o # 1
    <3>1. before[N + 1] \in Nat
      BY <1>1, <1>7
    <3>2. o # 1
      BY <1>5, <2>1
    <3> QED BY <1>1, <2>1, <2>4, <2>5, <3>1, <3>2
  <2>7. PICK j \in 1..N : \E k \in 1..RowEnter(rows[j]) : o = before[j] + k
    BY <1>6, <2>6
  <2>8. PICK k \in 1..RowEnter(rows[j]) : o = before[j] + k
    BY <2>7
  <2>9. /\ RowEnter(rows[j]) \in Nat /\ k \in Nat /\ 1 <= k /\ k <= RowEnter(rows[j])
        /\ before[j] \in Nat /\ j \in 1..(N + 1)
    BY <1>1, <1>3, <1>7
  <2>10. ~(j < i)
    <3> SUFFICES ASSUME j < i PROVE FALSE
      OBVIOUS
    <3>1. before[j] + RowEnter(rows[j]) <= before[i]
      BY <1>1, <1>7
    <3> QED BY <1>7, <2>2, <2>8, <2>9, <3>1
  <2>11. ~(i < j)
    <3> SUFFICES ASSUME i < j PROVE FALSE
      OBVIOUS
    <3>1. before[i + 1] <= before[j]
      BY <1>1, <2>4, <2>9
    <3> QED BY <2>1, <2>4, <2>8, <2>9, <3>1
  <2>12. j = i
    BY <1>7, <2>10, <2>11
  <2>13. k \in moves
    <3>1. k \in {FirstTab(rows[j]), SecondTab(rows[j])}
      BY <1>4, <2>1, <2>8
    <3> QED BY <2>3, <2>12, <3>1 DEF moves
  <2>14. before[i] + k < n
    BY <2>1, <2>8, <2>12
  <2> QED BY <2>8, <2>12, <2>13, <2>14
<1>9. ASSUME NEW t \in moves, before[i] + t < n PROVE before[i] + t \in tabs
  <2>1. i # N + 1 /\ t \in {FirstTab(rows[i]), SecondTab(rows[i])}
    BY DEF moves
  <2>2. i \in 1..N
    BY <1>7, <2>1
  <2>3. t \in 1..RowEnter(rows[i]) /\ RowEnter(rows[i]) \in Nat
    BY <1>3, <2>1, <2>2
  <2>4. commands[before[i] + t].key = "TAB"
    BY <1>4, <2>1, <2>2, <2>3
  <2>5. before[i] + t \in 1..(n - 1) /\ before[i] < before[i] + t
    BY <1>7, <1>9, <2>3
  <2>6. ASSUME NEW e \in enters PROVE e < before[i] + t
    <3>1. PICK j \in 1..(i - 1) : e = before[j + 1]
      BY <1>2
    <3>2. before[j + 1] \in Nat /\ before[j + 1] <= before[i]
      <4>1. j + 1 \in 1..(N + 1)
        BY <1>7
      <4> QED BY <1>1, <1>2, <4>1
    <3> QED BY <1>7, <2>3, <2>5, <3>1, <3>2
  <2> QED BY <2>4, <2>5, <2>6 DEF KeysBefore
<1>10. tabs = own
  BY <1>8, <1>9
<1> QED BY <1>10 DEF enters, moves, N, TabsSinceEnter, OwnTabs, TabsOfRow

\* The cell of a key is its row and one more than the tabs of the row before it.
LEMMA CellsOfRows ==
    ASSUME NEW rows, NEW commands, NEW before, InGrid(rows, commands, before), Len(rows) \in Nat,
           DOMAIN rows = 1..Len(rows), \A i \in DOMAIN rows : IsRow(rows[i])
    PROVE  /\ \A i \in DOMAIN rows : \A k \in 1..RowEnter(rows[i]) :
                 CellOf(commands, before[i] + k) =
                    <<i, IF k <= FirstTab(rows[i]) THEN 1
                         ELSE IF k <= SecondTab(rows[i]) THEN 2 ELSE 3>>
           /\ CellOf(commands, Len(commands) + 1) = <<Len(rows) + 1, 1>>
<1> DEFINE N == Len(rows)
           Tabs(n) == TabsSinceEnter(commands, n)
<1>1. /\ before \in [1..(N + 1) -> Nat]
      /\ \A j \in 1..N : before[j + 1] = before[j] + RowEnter(rows[j])
      /\ Len(commands) = before[N + 1]
  BY DEF InGrid
<1>2. \A n : CellOf(commands, n) =
                <<Cardinality(KeysBefore(commands, n, "ENTER")) + 1, Cardinality(Tabs(n)) + 1>>
  BY DEF CellOf, TabsSinceEnter
<1>3. N \in Nat /\ DOMAIN rows = 1..N
  OBVIOUS
<1> HIDE DEF Tabs
<1>4. ASSUME NEW i \in 1..N, NEW k \in 1..RowEnter(rows[i])
      PROVE  CellOf(commands, before[i] + k) =
                <<i, IF k <= FirstTab(rows[i]) THEN 1
                     ELSE IF k <= SecondTab(rows[i]) THEN 2 ELSE 3>>
  <2> DEFINE n == before[i] + k
             x == FirstTab(rows[i])
             y == SecondTab(rows[i])
             z == RowEnter(rows[i])
  <2>1. x \in Nat /\ y \in Nat /\ z \in Nat /\ 1 <= x /\ x < y /\ y < z
    BY RowMoves
  <2>2. before[i] \in Nat /\ before[i + 1] = before[i] + z /\ i \in 1..(N + 1) /\ i # N + 1
    BY <1>1
  <2>3. n \in Nat /\ before[i] < n /\ n <= before[i + 1] /\ k \in Nat
    BY <2>1, <2>2
  <2> HIDE DEF x, y, z, n, N
  <2>4. Cardinality(KeysBefore(commands, n, "ENTER")) = i - 1
    BY <2>2, <2>3, EntersOfRows DEF N
  <2>5. Tabs(n) = {before[i] + t : t \in {u \in {x, y} : before[i] + u < n}}
    <3>1. Tabs(n) = OwnTabs(rows, before, i, n)
      BY <2>2, <2>3, TabsOfRows DEF N, Tabs
    <3>2. TabsOfRow(rows, i) = {x, y}
      BY <2>2 DEF TabsOfRow, N, x, y
    <3> QED BY <3>1, <3>2 DEF OwnTabs
  <2>6. \A u \in {x, y} : before[i] + u < n <=> u < k
    BY <2>1, <2>2, <2>3 DEF n
  <2>7. Tabs(n) = {before[i] + t : t \in {u \in {x, y} : u < k}}
    BY <2>5, <2>6
  <2>8. CASE k <= x
    <3>1. Tabs(n) = {}
      BY <2>1, <2>3, <2>7, <2>8
    <3>2. Cardinality(Tabs(n)) = 0
      BY <3>1, FS_EmptySet
    <3> QED BY <1>2, <2>2, <2>4, <2>8, <3>2 DEF n, x
  <2>9. CASE x < k /\ k <= y
    <3>1. {u \in {x, y} : u < k} = {x}
      BY <2>1, <2>3, <2>9
    <3>2. Tabs(n) = {before[i] + x}
      BY <2>7, <3>1
    <3>3. Cardinality(Tabs(n)) = 1
      BY <3>2, FS_Singleton
    <3>4. ~(k <= x)
      BY <2>1, <2>3, <2>9
    <3> QED BY <1>2, <2>2, <2>4, <2>9, <3>3, <3>4 DEF n, x, y
  <2>10. CASE y < k
    <3>1. {u \in {x, y} : u < k} = {x, y}
      BY <2>1, <2>3, <2>10
    <3>2. Tabs(n) = {before[i] + x} \union {before[i] + y}
      BY <2>7, <3>1
    <3>3. before[i] + y \notin {before[i] + x}
      BY <2>1, <2>2
    <3>4. Cardinality(Tabs(n)) = 2
      <4>1. IsFiniteSet({before[i] + x}) /\ Cardinality({before[i] + x}) = 1
        BY FS_Singleton
      <4>2. Cardinality({before[i] + x} \union {before[i] + y}) = Cardinality({before[i] + x}) + 1
        BY <3>3, <4>1, FS_AddElement
      <4> QED BY <3>2, <4>1, <4>2
    <3>5. ~(k <= x) /\ ~(k <= y)
      BY <2>1, <2>3, <2>10
    <3> QED BY <1>2, <2>2, <2>4, <3>4, <3>5 DEF n, x, y
  <2>11. k <= x \/ (x < k /\ k <= y) \/ y < k
    BY <2>1, <2>3
  <2> QED BY <2>8, <2>9, <2>10, <2>11
<1>5. CellOf(commands, Len(commands) + 1) = <<N + 1, 1>>
  <2> DEFINE n == before[N + 1] + 1
  <2>1. n \in Nat /\ before[N + 1] < n /\ N + 1 \in 1..(N + 1) /\ n = Len(commands) + 1
    BY <1>1, <1>3
  <2> HIDE DEF N
  <2>2. Cardinality(KeysBefore(commands, n, "ENTER")) = (N + 1) - 1
    <3> HIDE DEF n
    <3>1. n = before[N + 1] + 1
      BY DEF n
    <3> QED BY <2>1, <3>1, EntersOfRows DEF N
  <2>3. Tabs(n) = {}
    <3> HIDE DEF n
    <3>1. n = before[N + 1] + 1
      BY DEF n
    <3>2. Tabs(n) = OwnTabs(rows, before, N + 1, n)
      BY <2>1, <3>1, TabsOfRows DEF N, Tabs
    <3> QED BY <3>2 DEF OwnTabs, TabsOfRow, N
  <2>4. Cardinality(Tabs(n)) = 0
    BY <2>3, FS_EmptySet
  <2> HIDE DEF n
  <2> QED BY <1>2, <1>3, <2>1, <2>2, <2>4 DEF N
<1> QED BY <1>3, <1>4, <1>5

\* The column in which the k-th key of a row is typed.
ColumnOf(row, k) == IF k <= FirstTab(row) THEN 1 ELSE IF k <= SecondTab(row) THEN 2 ELSE 3

\* The keys after the first d of a row are those that stay in a column.
Column(row, column, d, text) ==
    /\ \A k \in 1..Len(text) :
          d + k \in 1..RowEnter(row) /\ RowKeys(row)[d + k] = Keystrokes(text)[k]
    /\ \A k \in 1..RowEnter(row) :
          k \notin {FirstTab(row), SecondTab(row), RowEnter(row)} /\ ColumnOf(row, k) = column
             <=> k \in (d + 1)..(d + Len(text))

\* The keys of each of the three columns stand together in their row.
LEMMA ColumnsOfRow ==
    ASSUME NEW row, IsRow(row)
    PROVE  /\ Column(row, 1, 0, row.cat)
           /\ Column(row, 2, FirstTab(row), row.sel)
           /\ Column(row, 3, SecondTab(row), row.quantity)
<1> DEFINE a == Len(row.cat)
           b == Len(row.sel)
           c == Len(row.quantity)
           x == FirstTab(row)
           y == SecondTab(row)
           z == RowEnter(row)
           keys == RowKeys(row)
<1>1. a \in Nat /\ b \in Nat /\ c \in Nat
  BY CellKeys DEF IsRow
<1>2. x = a + 1 /\ y = x + b + 1 /\ z = y + c + 1
  BY DEF FirstTab, SecondTab, RowEnter
<1>3. /\ \A k \in 1..a : keys[k] = Keystrokes(row.cat)[k]
      /\ \A k \in 1..b : keys[x + k] = Keystrokes(row.sel)[k]
      /\ \A k \in 1..c : keys[y + k] = Keystrokes(row.quantity)[k]
  BY RowKeysAre
<1>4. \A k : ColumnOf(row, k) = IF k <= x THEN 1 ELSE IF k <= y THEN 2 ELSE 3
  BY DEF ColumnOf
<1> HIDE DEF a, b, c, x, y, z, keys
<1>5. Column(row, 1, 0, row.cat)
  <2>1. \A k \in 1..a : 0 + k \in 1..z /\ keys[0 + k] = Keystrokes(row.cat)[k]
    BY <1>1, <1>2, <1>3
  <2>2. \A k \in 1..z : k \notin {x, y, z} /\ ColumnOf(row, k) = 1 <=> k \in (0 + 1)..(0 + a)
    BY <1>1, <1>2, <1>4
  <2> QED BY <2>1, <2>2, Zenon DEF Column, a, x, y, z, keys
<1>6. Column(row, 2, x, row.sel)
  <2>1. \A k \in 1..b : x + k \in 1..z /\ keys[x + k] = Keystrokes(row.sel)[k]
    BY <1>1, <1>2, <1>3
  <2>2. \A k \in 1..z : k \notin {x, y, z} /\ ColumnOf(row, k) = 2 <=> k \in (x + 1)..(x + b)
    BY <1>1, <1>2, <1>4
  <2> QED BY <2>1, <2>2, Zenon DEF Column, b, x, y, z, keys
<1>7. Column(row, 3, y, row.quantity)
  <2>1. \A k \in 1..c : y + k \in 1..z /\ keys[y + k] = Keystrokes(row.quantity)[k]
    BY <1>1, <1>2, <1>3
  <2>2. \A k \in 1..z : k \notin {x, y, z} /\ ColumnOf(row, k) = 3 <=> k \in (y + 1)..(y + c)
    BY <1>1, <1>2, <1>4
  <2> QED BY <2>1, <2>2, Zenon DEF Column, c, x, y, z, keys
<1> QED BY <1>5, <1>6, <1>7 DEF x, y

\* A column that stands together in its row is filled in the grid.
LEMMA CellIsFilled ==
    ASSUME NEW rows, NEW commands, NEW before, InGrid(rows, commands, before), Len(rows) \in Nat,
           DOMAIN rows = 1..Len(rows), \A i \in DOMAIN rows : IsRow(rows[i]),
           NEW i \in DOMAIN rows, NEW column, NEW d \in Nat, NEW text, IsCell(text),
           d <= RowEnter(rows[i]), Column(rows[i], column, d, text)
    PROVE  IsFilled(commands, <<i, column>>, text)
<1> DEFINE N == Len(rows)
           p == before[i] + d
           keys == KeysIn(commands, <<i, column>>)
           row == rows[i]
<1>1. /\ \A j \in 1..(N + 1) : before[j] \in Nat
      /\ \A j \in 1..N : before[j + 1] = before[j] + RowEnter(rows[j])
      /\ \A j \in 1..N, k \in 1..(N + 1) : j < k => before[j] + RowEnter(rows[j]) <= before[k]
      /\ DOMAIN commands = 1..Len(commands) /\ Len(commands) = before[N + 1]
      /\ commands[1] = ResetModifiers
      /\ \A n \in DOMAIN commands : n # 1 =>
            \E j \in 1..N : \E k \in 1..RowEnter(rows[j]) : n = before[j] + k
  <2>1. /\ before \in [1..(N + 1) -> Nat]
        /\ \A j \in 1..N : before[j + 1] = before[j] + RowEnter(rows[j])
        /\ \A j \in 1..N, k \in 1..(N + 1) : j < k => before[j] + RowEnter(rows[j]) <= before[k]
        /\ DOMAIN commands = 1..Len(commands) /\ Len(commands) = before[N + 1]
        /\ commands[1] = ResetModifiers
    BY DEF InGrid
  <2>2. \A n \in DOMAIN commands : n # 1 =>
           \E j \in 1..N : \E k \in 1..RowEnter(rows[j]) : n = before[j] + k
    BY DEF InGrid
  <2> QED BY <2>1, <2>2
<1>2. \A j \in 1..N : \A k \in 1..RowEnter(rows[j]) :
         before[j] + k \in DOMAIN commands /\ commands[before[j] + k] = RowKeys(rows[j])[k]
  BY DEF InGrid
<1>3. \A j \in 1..N : \A k \in 1..RowEnter(rows[j]) :
         /\ CellOf(commands, before[j] + k) = <<j, ColumnOf(rows[j], k)>>
         /\ commands[before[j] + k].kind = "key"
         /\ commands[before[j] + k].key \in {"TAB", "ENTER"}
               <=> k \in {FirstTab(rows[j]), SecondTab(rows[j]), RowEnter(rows[j])}
  <2> SUFFICES ASSUME NEW j \in 1..N, NEW k \in 1..RowEnter(rows[j])
               PROVE  /\ CellOf(commands, before[j] + k) = <<j, ColumnOf(rows[j], k)>>
                      /\ commands[before[j] + k].kind = "key"
                      /\ commands[before[j] + k].key \in {"TAB", "ENTER"}
                            <=> k \in {FirstTab(rows[j]), SecondTab(rows[j]), RowEnter(rows[j])}
    OBVIOUS
  <2>1. IsRow(rows[j])
    OBVIOUS
  <2>2. CellOf(commands, before[j] + k) = <<j, ColumnOf(rows[j], k)>>
    BY CellsOfRows DEF ColumnOf
  <2>3. commands[before[j] + k] = RowKeys(rows[j])[k]
    BY <1>2
  <2> QED BY <2>1, <2>2, <2>3, RowMoves
<1>4. N \in Nat /\ i \in 1..N /\ RowEnter(row) \in Nat /\ IsRow(row) /\ Len(text) \in Nat
  BY RowMoves, CellKeys
<1>5. /\ \A k \in 1..Len(text) :
            d + k \in 1..RowEnter(row) /\ RowKeys(row)[d + k] = Keystrokes(text)[k]
      /\ \A k \in 1..RowEnter(row) :
            k \notin {FirstTab(row), SecondTab(row), RowEnter(row)} /\ ColumnOf(row, k) = column
               <=> k \in (d + 1)..(d + Len(text))
  BY DEF Column
<1> HIDE DEF N, p, keys
<1>6. p \in 0..Len(commands) /\ p = before[i] + d /\ before[i] \in Nat
  <2>1. before[i] + RowEnter(row) <= before[N + 1] /\ before[i] \in Nat /\ before[N + 1] \in Nat
    <3>1. i < N + 1 /\ N + 1 \in 1..(N + 1) /\ i \in 1..(N + 1)
      BY <1>4
    <3> QED BY <1>1, <1>4, <3>1
  <2> QED BY <1>1, <1>4, <2>1 DEF p
<1>7. ASSUME NEW n \in keys PROVE n \in (p + 1)..(p + Len(text))
  <2>1. /\ n \in DOMAIN commands /\ commands[n].kind = "key"
        /\ commands[n].key \notin {"TAB", "ENTER"} /\ CellOf(commands, n) = <<i, column>>
    BY DEF keys, KeysIn
  <2>2. n # 1
    <3>1. ResetModifiers.kind = "upall"
      BY DEF ResetModifiers
    <3> QED BY <1>1, <2>1, <3>1
  <2>3. PICK j \in 1..N : \E k \in 1..RowEnter(rows[j]) : n = before[j] + k
    BY <1>1, <2>1, <2>2
  <2>4. PICK k \in 1..RowEnter(rows[j]) : n = before[j] + k
    BY <2>3
  <2>5. j = i /\ ColumnOf(rows[j], k) = column
    <3>1. <<j, ColumnOf(rows[j], k)>> = <<i, column>>
      BY <1>3, <2>1, <2>4
    <3> QED BY <3>1
  <2>6. k \notin {FirstTab(row), SecondTab(row), RowEnter(row)}
    BY <1>3, <2>1, <2>4, <2>5
  <2>7. k \in (d + 1)..(d + Len(text))
    BY <1>5, <2>4, <2>5, <2>6
  <2>8. n = before[i] + k
    BY <2>4, <2>5
  <2>9. n \in (p + 1)..(p + Len(text))
    <3> DEFINE u == before[i]
               m == Len(text)
    <3>1. u \in Nat /\ m \in Nat /\ p = u + d /\ n = u + k
      BY <1>4, <1>6, <2>8
    <3>2. k \in (d + 1)..(d + m)
      BY <2>7
    <3> HIDE DEF u, m
    <3>3. k \in Nat /\ d + 1 <= k /\ k <= d + m
      BY <3>1, <3>2
    <3>4. n \in (p + 1)..(p + m)
      BY <3>1, <3>3
    <3> QED BY <3>4 DEF m
  <2> QED BY <2>9
<1>8. ASSUME NEW n \in (p + 1)..(p + Len(text)) PROVE n \in keys
  <2> DEFINE k == n - before[i]
  <2>1. k \in (d + 1)..(d + Len(text)) /\ n = before[i] + k /\ k - d \in 1..Len(text)
    <3> DEFINE u == before[i]
               m == Len(text)
    <3>1. u \in Nat /\ m \in Nat /\ p = u + d
      BY <1>4, <1>6
    <3> HIDE DEF u, m
    <3>2. n \in (p + 1)..(p + m)
      BY DEF m
    <3>3. n - u \in (d + 1)..(d + m) /\ n = u + (n - u) /\ (n - u) - d \in 1..m
      BY <3>1, <3>2
    <3> QED BY <3>3 DEF u, m
  <2>2. k \in 1..RowEnter(row)
    <3>1. d + (k - d) \in 1..RowEnter(row) /\ d + (k - d) = k
      BY <1>5, <2>1
    <3> QED BY <3>1
  <2> HIDE DEF k
  <2>3. k \notin {FirstTab(row), SecondTab(row), RowEnter(row)} /\ ColumnOf(row, k) = column
    BY <1>5, <2>1, <2>2
  <2>4. /\ CellOf(commands, n) = <<i, column>> /\ commands[n].kind = "key"
        /\ commands[n].key \notin {"TAB", "ENTER"}
    BY <1>3, <1>4, <2>1, <2>2, <2>3
  <2>5. n \in DOMAIN commands
    BY <1>2, <1>4, <2>1, <2>2
  <2> QED BY <2>4, <2>5 DEF keys, KeysIn
<1>9. keys = (p + 1)..(p + Len(text))
  BY <1>7, <1>8
<1>10. ASSUME NEW k \in DOMAIN text PROVE Spelled(commands)[p + k] = text[k]
  <2>1. k \in 1..Len(text)
    BY DEF IsCell, IsPlain
  <2>2. d + k \in 1..RowEnter(row) /\ RowKeys(row)[d + k] = Keystrokes(text)[k]
    BY <1>5, <2>1
  <2>3. p + k = before[i] + (d + k)
    BY <1>4, <1>6, <2>1
  <2>4. p + k \in DOMAIN commands /\ commands[p + k] = Keystrokes(text)[k]
    BY <1>2, <1>4, <2>2, <2>3
  <2>5. commands[p + k].key = KeyToken(text[k])
    <3>1. Keystrokes(text)[k] = Keystroke(KeyToken(text[k]))
      BY <2>1, CellKeys
    <3>2. Keystroke(KeyToken(text[k])).key = KeyToken(text[k])
      BY DEF Keystroke
    <3> QED BY <2>4, <3>1, <3>2
  <2>6. Spelled(commands)[p + k] =
          CASE KeyToken(text[k]) = "SPACE" -> " " [] KeyToken(text[k]) = "TAB" -> "\t"
            [] KeyToken(text[k]) = "ENTER" -> LineFeed [] OTHER -> KeyToken(text[k])
    BY <2>4, <2>5 DEF Spelled
  <2>7. text[k] \notin KeyNames
    BY DEF IsCell, IsPlain
  <2> QED BY <2>6, <2>7, TokenIsSpelled DEF KeyNames
<1> QED BY <1>6, <1>9, <1>10 DEF IsFilled, keys

\* Rows fill the cells of the grid with what they hold.
LEMMA RowsAreTyped ==
    ASSUME NEW S, NEW rows \in Seq(S), \A i \in DOMAIN rows : IsRow(rows[i]), NEW commands,
           commands = RowCommands(rows)
    PROVE  /\ \A i \in DOMAIN rows : /\ IsFilled(commands, <<i, 1>>, rows[i].cat)
                                     /\ IsFilled(commands, <<i, 2>>, rows[i].sel)
                                     /\ IsFilled(commands, <<i, 3>>, rows[i].quantity)
           /\ CellOf(commands, Len(commands) + 1) = <<Len(rows) + 1, 1>>
<1>1. PICK before : InGrid(rows, commands, before)
  BY RowsAreInGrid
<1>2. Len(rows) \in Nat /\ DOMAIN rows = 1..Len(rows)
  OBVIOUS
<1>3. CellOf(commands, Len(commands) + 1) = <<Len(rows) + 1, 1>>
  BY <1>1, <1>2, CellsOfRows
<1>4. ASSUME NEW i \in DOMAIN rows
      PROVE  /\ IsFilled(commands, <<i, 1>>, rows[i].cat)
             /\ IsFilled(commands, <<i, 2>>, rows[i].sel)
             /\ IsFilled(commands, <<i, 3>>, rows[i].quantity)
  <2> DEFINE row == rows[i]
  <2>1. IsRow(row) /\ IsCell(row.cat) /\ IsCell(row.sel) /\ IsCell(row.quantity)
    BY DEF IsRow
  <2>2. /\ FirstTab(row) \in Nat /\ FirstTab(row) <= RowEnter(row)
        /\ SecondTab(row) \in Nat /\ SecondTab(row) <= RowEnter(row) /\ 0 <= RowEnter(row)
    BY <2>1, RowMoves
  <2>3. /\ Column(row, 1, 0, row.cat)
        /\ Column(row, 2, FirstTab(row), row.sel)
        /\ Column(row, 3, SecondTab(row), row.quantity)
    BY <2>1, ColumnsOfRow
  <2>4. IsFilled(commands, <<i, 1>>, row.cat)
    BY <1>1, <1>2, <2>1, <2>2, <2>3, CellIsFilled
  <2>5. IsFilled(commands, <<i, 2>>, row.sel)
    BY <1>1, <1>2, <2>1, <2>2, <2>3, CellIsFilled
  <2>6. IsFilled(commands, <<i, 3>>, row.quantity)
    BY <1>1, <1>2, <2>1, <2>2, <2>3, CellIsFilled
  <2> QED BY <2>4, <2>5, <2>6
<1> QED BY <1>3, <1>4

\* A part of a cell holds nothing that the cell does not.
LEMMA PartIsCell ==
    ASSUME NEW text, IsCell(text), NEW m \in Nat \ {0}, NEW n \in Nat, n <= Len(text)
    PROVE  IsCell(SubSeq(text, m, n))
<1> DEFINE S == {text[k] : k \in DOMAIN text}
           part == SubSeq(text, m, n)
<1>1. text \in Seq(S) /\ S \intersect KeyNames = {} /\ \A c \in S : c # "\t"
  BY DEF IsCell, IsPlain, HoldsNoTab
<1> HIDE DEF S
<1>2. part \in Seq(S)
  BY <1>1
<1> HIDE DEF part
<1>3. \A k \in DOMAIN part : part[k] \in S
  BY <1>2
<1>4. IsPlain(part)
  BY <1>1, <1>2, PlainOver
<1> QED BY <1>1, <1>3, <1>4 DEF part, IsCell, HoldsNoTab

\* A row is made of cells, wherever its code is cut in two.
LEMMA ExportedIsRow ==
    ASSUME NEW raw, IsCell(raw.cat), IsCell(raw.sel), IsCell(raw.cat_sel), IsCell(raw.quantity)
    PROVE  IsRow(ExportRow(raw))
<1> DEFINE slashes == {n \in DOMAIN raw.cat_sel : raw.cat_sel[n] = "/"}
           slash == CHOOSE n \in slashes : \A o \in slashes : n <= o
           left == SubSeq(raw.cat_sel, 1, slash - 1)
           right == SubSeq(raw.cat_sel, slash + 1, Len(raw.cat_sel))
<1>1. ExportRow(raw) =
        IF (raw.cat = <<>> \/ raw.sel = <<>>) /\ slashes # {}
        THEN [cat |-> left, sel |-> right, quantity |-> raw.quantity]
        ELSE [cat |-> raw.cat, sel |-> raw.sel, quantity |-> raw.quantity]
  BY DEF ExportRow
<1>2. Len(raw.cat_sel) \in Nat /\ DOMAIN raw.cat_sel = 1..Len(raw.cat_sel)
  BY DEF IsCell, IsPlain
<1>3. ASSUME slashes # {} PROVE IsCell(left) /\ IsCell(right)
  <2>1. slashes \subseteq Nat /\ slashes \subseteq 1..Len(raw.cat_sel)
    BY <1>2
  <2> HIDE DEF slashes
  <2>2. \E n \in slashes : \A o \in slashes : n <= o
    BY <1>3, <2>1, SmallestNat
  <2>3. slash \in slashes
    BY <2>2, Zenon
  <2> HIDE DEF slash
  <2>4. slash \in 1..Len(raw.cat_sel)
    BY <2>1, <2>3
  <2>5. /\ 1 \in Nat \ {0} /\ slash - 1 \in Nat /\ slash - 1 <= Len(raw.cat_sel)
        /\ slash + 1 \in Nat \ {0} /\ Len(raw.cat_sel) <= Len(raw.cat_sel)
    BY <1>2, <2>4
  <2> QED BY <1>2, <2>5, PartIsCell
<1> HIDE DEF slashes, left, right
<1> QED BY <1>1, <1>3 DEF IsRow

-----------------------------------------------------------------------------
(* Which steps change what *)

LEMMA NoSearchIsOff == NoSearch.at = "off"
BY DEF NoSearch

USE DEF Next, Search, Turn, Publication, vars, control_vars, tool_vars, draft_vars, job_vars,
        database_vars, SearchCodes, SearchItems, SearchScenarios, SearchFails, StartTurn, CallTool,
        TurnFails, SearchTool, SearchLineItems, AnswerSearch, StartRerank, InjectPreferred,
        AnswerReranked, AskPolicy, GetLineItem, Explore, NextStrategy, StrategyReturns,
        AnswerExplored, EndTurn, FinishPlanner, FinishLegacy, Review, StartPublish, Plan, PlanNote,
        PlanApproved, PlanSearch, PlanFound, PlanFails, Publish, Send, SendText, ExportRows

LEMMA DatabaseFrame ==
    ASSUME Next
    PROVE  DatabaseNext \/ UNCHANGED database_vars
OBVIOUS

LEMMA CountersFrame ==
    ASSUME Next
    PROVE  \/ \E who \in {"planner", "legacy"} : StartTurn(who)
           \/ \E place \in {"search", "model", "explore"} : CallTool(place)
           \/ publications < MaxJobs /\ publications' = publications + 1 /\ UNCHANGED <<turns, calls>>
           \/ UNCHANGED <<turns, calls, publications>>
<1>1. CASE Search
  BY <1>1
<1>2. CASE Turn
  BY <1>2
<1>3. CASE Publication
  BY <1>3
<1> QED BY <1>1, <1>2, <1>3

LEMMA DraftFrame ==
    ASSUME Next
    PROVE  \/ FinishPlanner \/ FinishLegacy \/ \E i \in DOMAIN draft : Review(i)
           \/ UNCHANGED draft
OBVIOUS

LEMMA JobFrame ==
    ASSUME Next
    PROVE  \/ StartPublish(DraftJob) \/ \E items \in Jobs : StartPublish(items)
           \/ PlanNote \/ PlanApproved \/ PlanFound \/ PlanFails \/ Publish
           \/ \E text \in Texts, append_enter \in BOOLEAN : SendText(text, append_enter)
           \/ \E raw \in Exports : ExportRows(raw)
           \/ /\ UNCHANGED job_vars
              /\ at' = "plan" <=> at = "plan"
              /\ at = "plan" /\ find = NoSearch /\ find' # NoSearch => PlanSearch
<1>1. CASE Search
  <2>1. find.at # "off" /\ UNCHANGED <<at, job, planned, typed>>
    BY <1>1
  <2>2. find # NoSearch
    BY ONLY <2>1, NoSearchIsOff
  <2> QED BY <2>1, <2>2
<1>2. CASE Turn
  BY <1>2
<1>3. CASE Publication
  BY <1>3 DEF PlansNext
<1>4. CASE \E i \in DOMAIN draft : Review(i)
  BY <1>4
<1>5. CASE DatabaseNext /\ UNCHANGED <<at, agent, turns, calls, publications, find, tool_vars,
                                      draft_vars, job_vars>>
  BY <1>5
<1> QED BY <1>1, <1>2, <1>3, <1>4, <1>5

LEMMA FindFrame ==
    ASSUME Next
    PROVE  \/ SearchCodes \/ SearchItems \/ SearchScenarios
           \/ \E c \in Calls : SearchTool(c)
           \/ \E e \in Explorations : SearchLineItems(e.base)
           \/ NextStrategy \/ PlanSearch
           \/ find' \in {NoSearch, [at |-> "failed"]}
           \/ UNCHANGED find
<1>1. CASE Search
  BY <1>1
<1>2. CASE Turn
  BY <1>2
<1>3. CASE Publication
  BY <1>3
<1> QED BY <1>1, <1>2, <1>3

LEMMA CandidatesFrame ==
    ASSUME Next
    PROVE  \/ StartRerank \/ InjectPreferred \/ AnswerReranked
           \/ /\ at' = "inject" => at = "inject"
              /\ UNCHANGED candidates
<1>1. CASE Search
  BY <1>1
<1>2. CASE Turn
  BY <1>2
<1>3. CASE Publication
  BY <1>3
<1> QED BY <1>1, <1>2, <1>3

LEMMA MergedFrame ==
    ASSUME Next
    PROVE  \/ TurnFails \/ StrategyReturns \/ AnswerExplored
           \/ \E e \in Explorations : Explore(e)
           \/ /\ at' = "explore" <=> at = "explore"
              /\ UNCHANGED <<merged, explored>>
           \/ at \notin {"model", "explore"} /\ at' # "explore" /\ UNCHANGED <<merged, explored>>
           \/ at = "model" /\ at' # "explore" /\ UNCHANGED <<merged, explored>>
<1>1. CASE Search
  BY <1>1
<1>2. CASE Turn
  BY <1>2
<1>3. CASE Publication
  BY <1>3 DEF PlansNext
<1> QED BY <1>1, <1>2, <1>3

LEMMA AnswerFrame ==
    ASSUME Next
    PROVE  \/ AnswerReranked \/ AnswerExplored
           \/ answer'.kind \notin {"policy", "explore"}
           \/ UNCHANGED answer
<1>1. ASSUME NEW c \in Calls, AskPolicy(c) PROVE answer'.kind = "rules"
  BY <1>1
<1>2. ASSUME NEW code, GetLineItem(code) PROVE answer'.kind = "item"
  <2>1. PICK item : answer' = [kind |-> "item", item |-> item]
    BY <1>2
  <2> QED BY <2>1
<1>3. AnswerSearch => answer'.kind = "search"
  OBVIOUS
<1>4. TurnFails \/ FinishPlanner \/ FinishLegacy => answer'.kind = "none"
  <2>1. TurnFails \/ FinishPlanner \/ FinishLegacy => answer' = NoAnswer
    OBVIOUS
  <2> QED BY ONLY <2>1 DEF NoAnswer
<1>5. CASE Search
  BY <1>5
<1>6. CASE Turn
  BY <1>1, <1>2, <1>3, <1>4, <1>6
<1>7. CASE Publication
  BY <1>7
<1> QED BY <1>5, <1>6, <1>7

HIDE DEF Next, Search, Turn, Publication, vars, control_vars, tool_vars, draft_vars, job_vars,
        database_vars, SearchCodes, SearchItems, SearchScenarios, SearchFails, StartTurn, CallTool,
        TurnFails, SearchTool, SearchLineItems, AnswerSearch, StartRerank, InjectPreferred,
        AnswerReranked, AskPolicy, GetLineItem, Explore, NextStrategy, StrategyReturns,
        AnswerExplored, EndTurn, FinishPlanner, FinishLegacy, Review, StartPublish, Plan, PlanNote,
        PlanApproved, PlanSearch, PlanFound, PlanFails, Publish, Send, SendText, ExportRows

-----------------------------------------------------------------------------
(* The catalogue's file *)

DatabaseInv == DatabaseTypeOK /\ DatabaseIsWhole

LEMMA DatabaseCorrect == Spec => []DatabaseInv
<1>1. Init => DatabaseInv
  BY MaxBuildsAssumption DEF Init, DatabaseInit, DatabaseInv, DatabaseTypeOK, DatabaseIsWhole
<1>2. DatabaseInv /\ [Next]_vars => DatabaseInv'
  <2> SUFFICES ASSUME DatabaseInv, [Next]_vars PROVE DatabaseInv'
    OBVIOUS
  <2> USE MaxBuildsAssumption
      DEF DatabaseInv, DatabaseTypeOK, DatabaseIsWhole, Files, Stages, database_vars
  <2>1. CASE UNCHANGED vars
    BY <2>1 DEF vars, control_vars
  <2>2. ASSUME NEW v \in Versions, CreateTemporary(v) PROVE DatabaseInv'
    BY <2>2 DEF CreateTemporary
  <2>3. CASE InitializeSchema
    BY <2>3 DEF InitializeSchema
  <2>4. CASE LoadExport
    BY <2>4 DEF LoadExport
  <2>5. CASE Replace
    BY <2>5 DEF Replace
  <2>6. CASE AbandonBuild
    BY <2>6 DEF AbandonBuild
  <2>7. CASE UNCHANGED database_vars
    BY <2>7
  <2> QED
    BY <2>1, <2>2, <2>3, <2>4, <2>5, <2>6, <2>7, DatabaseFrame DEF DatabaseNext
<1> QED BY <1>1, <1>2, PTL DEF Spec

\* Readers never meet a file without its rows, whatever builds fail
\* (repository.py, build_runtime_database).
THEOREM FileIsWhole == Spec => []DatabaseIsWhole
BY DatabaseCorrect, PTL DEF DatabaseInv

-----------------------------------------------------------------------------
(* Who waits for what *)

IsShaped(f) ==
    f \in [at : {f.at}, query : {f.query}, limit : {f.limit}, codes : {f.codes},
           conn : {f.conn}, items : {f.items}, list : {f.list}]
IsRequest(f) ==
    /\ IsShaped(f)
    /\ f.at \in {"codes", "items", "scenarios", "done"}
    /\ f.limit \in 1..20
    /\ f.at # "codes" => database # NoFile
    /\ f.at # "done" => f.list = <<>>

ControlInv ==
    /\ at \in Places /\ agent \in {"planner", "legacy"}
    /\ at = "inject" => agent = "planner"
    /\ at = "explore" => agent = "legacy"
    /\ find \in {NoSearch, [at |-> "failed"]} \/ IsRequest(find)
    /\ find # NoSearch => at \in {"search", "explore", "plan"}

\* A request is new, or it failed before it was sent.
LEMMA AskedIsRequest ==
    ASSUME NEW query, NEW limit
    PROVE  /\ Ask(query, limit) = [at |-> "failed"] \/ IsRequest(Ask(query, limit))
           /\ Ask(query, limit).at \in {"codes", "failed"}
           /\ IsRequest(Ask(query, limit)) => Ask(query, limit).query = query
BY DEF Ask, IsRequest, IsShaped

\* The catalogue's steps keep the query and the limit and fill in the rest.
Filled(f, place, codes, conn, items, list) ==
    [at |-> place, query |-> f.query, limit |-> f.limit, codes |-> codes,
     conn |-> conn, items |-> items, list |-> list]

LEMMA ShapedIsFilled ==
    ASSUME NEW g, IsShaped(g), NEW f, g.query = f.query, g.limit = f.limit
    PROVE  g = Filled(f, g.at, g.codes, g.conn, g.items, g.list)
BY DEF IsShaped, Filled

LEMMA CodesAreCollected ==
    ASSUME IsRequest(find), SearchCodes
    PROVE  /\ find.at = "codes" /\ database # NoFile
           /\ \/ find' = Filled(find, "done", find.codes, find.conn, find.items, <<>>)
              \/ \E codes : find' = Filled(find, "items", codes, find.conn, find.items, <<>>)
<1>1. /\ find.at = "codes" /\ database # NoFile /\ find.list = <<>> /\ IsShaped(find)
  BY DEF SearchCodes, IsRequest
<1>2. PICK codes : find' = IF codes = {} THEN [find EXCEPT !.at = "done"]
                           ELSE [find EXCEPT !.at = "items", !.codes = codes]
  BY DEF SearchCodes
<1>3. CASE codes = {}
  <2> DEFINE g == [find EXCEPT !.at = "done"]
  <2>1. /\ g.at = "done" /\ g.query = find.query /\ g.limit = find.limit /\ g.codes = find.codes
        /\ g.conn = find.conn /\ g.items = find.items /\ g.list = find.list /\ IsShaped(g)
    BY <1>1 DEF IsShaped
  <2>2. find' = g
    BY <1>2, <1>3
  <2> HIDE DEF g
  <2>3. g = Filled(find, "done", find.codes, find.conn, find.items, find.list)
    BY <2>1, ShapedIsFilled
  <2> QED BY <1>1, <2>2, <2>3
<1>4. CASE codes # {}
  <2> DEFINE g == [find EXCEPT !.at = "items", !.codes = codes]
  <2>1. /\ g.at = "items" /\ g.query = find.query /\ g.limit = find.limit /\ g.codes = codes
        /\ g.conn = find.conn /\ g.items = find.items /\ g.list = find.list /\ IsShaped(g)
    BY <1>1 DEF IsShaped
  <2>2. find' = g
    BY <1>2, <1>4
  <2> HIDE DEF g
  <2>3. g = Filled(find, "items", codes, find.conn, find.items, find.list)
    BY <2>1, ShapedIsFilled
  <2> QED BY <1>1, <2>2, <2>3
<1> QED BY <1>1, <1>3, <1>4

LEMMA ItemsAreRead ==
    ASSUME IsRequest(find), SearchItems
    PROVE  /\ find.at = "items"
           /\ find' = Filled(find, "scenarios", find.codes, database,
                             ItemRows(database, find.codes), <<>>)
<1> DEFINE items == ItemRows(database, find.codes)
           g == [find EXCEPT !.at = "scenarios", !.conn = database, !.items = items]
<1>1. find.at = "items" /\ find.list = <<>> /\ IsShaped(find) /\ find' = g
  BY DEF SearchItems, IsRequest
<1> HIDE DEF items
<1>2. /\ g.at = "scenarios" /\ g.query = find.query /\ g.limit = find.limit
      /\ g.codes = find.codes /\ g.conn = database /\ g.items = items /\ g.list = find.list
      /\ IsShaped(g)
  BY <1>1 DEF IsShaped
<1> HIDE DEF g
<1>3. g = Filled(find, "scenarios", find.codes, database, items, find.list)
  BY <1>2, ShapedIsFilled
<1> QED BY <1>1, <1>3 DEF items

LEMMA ScenariosAreRead ==
    ASSUME IsRequest(find), SearchScenarios
    PROVE  /\ find.at = "scenarios"
           /\ find' = Filled(find, "done", find.codes, find.conn, find.items,
                             Recommend(find.query, JoinScenarios(find.conn, find.items),
                                       find.limit))
<1> DEFINE list == Recommend(find.query, JoinScenarios(find.conn, find.items), find.limit)
           g == [find EXCEPT !.at = "done", !.list = list]
<1>1. find.at = "scenarios" /\ IsShaped(find) /\ find' = g
  BY DEF SearchScenarios, IsRequest
<1> HIDE DEF list
<1>2. /\ g.at = "done" /\ g.query = find.query /\ g.limit = find.limit
      /\ g.codes = find.codes /\ g.conn = find.conn /\ g.items = find.items /\ g.list = list
      /\ IsShaped(g)
  BY <1>1 DEF IsShaped
<1> HIDE DEF g
<1>3. g = Filled(find, "done", find.codes, find.conn, find.items, list)
  BY <1>2, ShapedIsFilled
<1> QED BY <1>1, <1>3 DEF list

LEMMA ControlCorrect == Spec => []ControlInv
<1>1. Init => ControlInv
  BY DEF Init, ControlInv, Places
<1>2. DatabaseInv /\ DatabaseInv' /\ ControlInv /\ [Next]_vars => ControlInv'
  <2> SUFFICES ASSUME DatabaseInv, DatabaseInv', ControlInv, [Next]_vars PROVE ControlInv'
    OBVIOUS
  <2>0. database # NoFile => database' # NoFile
    BY DatabaseFrame
       DEF DatabaseNext, CreateTemporary, InitializeSchema, LoadExport, Replace, AbandonBuild,
           vars, control_vars, database_vars
  <2>1. CASE UNCHANGED vars
    BY <2>1 DEF ControlInv, IsRequest, vars, control_vars, database_vars
  <2>2. CASE Search
    <3> USE DEF ControlInv, control_vars, database_vars
    <3>1. ASSUME SearchCodes PROVE ControlInv'
      <4>1. IsRequest(find)
        BY <3>1 DEF SearchCodes, NoSearch
      <4>2. UNCHANGED <<at, agent, database>>
        BY <3>1 DEF SearchCodes
      <4> QED BY <3>1, <4>1, <4>2, CodesAreCollected DEF IsRequest, IsShaped, Filled, NoSearch
    <3>2. ASSUME SearchItems PROVE ControlInv'
      <4>1. IsRequest(find)
        BY <3>2 DEF SearchItems, NoSearch
      <4>2. UNCHANGED <<at, agent, database>>
        BY <3>2 DEF SearchItems
      <4> QED BY <3>2, <4>1, <4>2, ItemsAreRead DEF IsRequest, IsShaped, Filled, NoSearch
    <3>3. ASSUME SearchScenarios PROVE ControlInv'
      <4>1. IsRequest(find)
        BY <3>3 DEF SearchScenarios, NoSearch
      <4>2. UNCHANGED <<at, agent, database>>
        BY <3>3 DEF SearchScenarios
      <4> QED BY <3>3, <4>1, <4>2, ScenariosAreRead DEF IsRequest, IsShaped, Filled, NoSearch
    <3>4. ASSUME SearchFails PROVE ControlInv'
      BY <3>4 DEF SearchFails, IsRequest, NoSearch
    <3> QED BY <2>2, <3>1, <3>2, <3>3, <3>4 DEF Search
  <2>3. CASE Turn
    <3> USE DEF ControlInv, Places, CallTool, database_vars
    <3>1. ASSUME NEW who \in {"planner", "legacy"}, StartTurn(who) PROVE ControlInv'
      BY <3>1 DEF StartTurn, IsRequest
    <3>2. ASSUME NEW c \in Calls, SearchTool(c) PROVE ControlInv'
      BY <3>2, AskedIsRequest DEF SearchTool, IsRequest
    <3>3. ASSUME NEW scope, SearchLineItems(scope) PROVE ControlInv'
      BY <3>3, AskedIsRequest DEF SearchLineItems, IsRequest
    <3>4. ASSUME NEW c \in Calls, AskPolicy(c) PROVE ControlInv'
      BY <3>4 DEF AskPolicy, IsRequest
    <3>5. ASSUME NEW code, GetLineItem(code) PROVE ControlInv'
      BY <3>5 DEF GetLineItem, IsRequest
    <3>6. ASSUME NEW e \in Explorations, Explore(e) PROVE ControlInv'
      BY <3>6 DEF Explore, IsRequest
    <3>7. CASE AnswerSearch \/ StartRerank \/ TurnFails
      BY <3>7 DEF AnswerSearch, StartRerank, TurnFails
    <3>8. CASE InjectPreferred \/ AnswerReranked
      BY <3>8 DEF InjectPreferred, AnswerReranked, IsRequest, control_vars
    <3>9. CASE NextStrategy
      BY <3>9, AskedIsRequest DEF NextStrategy, IsRequest, control_vars
    <3>10. CASE StrategyReturns \/ AnswerExplored
      BY <3>10 DEF StrategyReturns, AnswerExplored, control_vars
    <3>11. CASE FinishPlanner \/ FinishLegacy
      BY <3>11 DEF FinishPlanner, FinishLegacy, EndTurn, IsRequest
    <3> QED
      BY <2>3, <3>1, <3>2, <3>3, <3>4, <3>5, <3>6, <3>7, <3>8, <3>9, <3>10, <3>11 DEF Turn
  <2>4. CASE Publication
    <3> USE DEF ControlInv, Places, control_vars, database_vars
    <3>1. ASSUME NEW items, StartPublish(items) PROVE ControlInv'
      BY <3>1 DEF StartPublish, IsRequest
    <3>2. CASE PlanNote \/ PlanApproved \/ PlanFound
      BY <3>2 DEF PlanNote, PlanApproved, PlanFound, PlansNext, Plan
    <3>3. CASE PlanSearch
      BY <3>3, AskedIsRequest DEF PlanSearch, PlansNext, IsRequest
    <3>4. CASE PlanFails \/ Publish
      BY <3>4 DEF PlanFails, Publish
    <3>5. ASSUME NEW text, NEW append_enter, SendText(text, append_enter) PROVE ControlInv'
      BY <3>5 DEF SendText, Send, IsRequest
    <3>6. ASSUME NEW raw, ExportRows(raw) PROVE ControlInv'
      BY <3>6 DEF ExportRows, Send, IsRequest
    <3> QED BY <2>4, <3>1, <3>2, <3>3, <3>4, <3>5, <3>6 DEF Publication
  <2>5. ASSUME NEW i \in DOMAIN draft, Review(i) PROVE ControlInv'
    BY <2>5 DEF Review, ControlInv, IsRequest, control_vars, database_vars
  <2>6. CASE UNCHANGED <<at, agent, find>>
    BY <2>0, <2>6 DEF ControlInv, IsRequest
  <2> QED BY <2>1, <2>2, <2>3, <2>4, <2>5, <2>6 DEF Next
<1> QED BY <1>1, <1>2, DatabaseCorrect, PTL DEF Spec

-----------------------------------------------------------------------------
(* The draft *)

Items == [code : AllCodes, surface : Task.components, intent : Task.intents,
          status : {"pending_review", "accepted", "rejected"}]
DraftInv == draft \in Seq(Items) /\ Len(draft) <= MaxItems

\* What is picked from a sequence, in any order, is a sequence no longer.
LEMMA PickedIsSequence ==
    ASSUME NEW S, NEW list \in Seq(S), NEW places, places \subseteq DOMAIN list,
           NEW before, Orders(before, places)
    PROVE  Picked(list, places, before) \in Seq(S) /\ Len(Picked(list, places, before)) <= Len(list)
<1> DEFINE order == Arranged(places, before)
           picked == [n \in DOMAIN order |-> list[order[n]]]
<1>1. DOMAIN list = 1..Len(list) /\ Len(list) \in Nat
  OBVIOUS
<1>2. IsFiniteSet(1..Len(list)) /\ Cardinality(1..Len(list)) = Len(list)
  <2> DEFINE n == Len(list)
  <2> HIDE DEF n
  <2>1. n \in Nat
    BY <1>1 DEF n
  <2>2. IsFiniteSet(1..n) /\ Cardinality(1..n) = IF 1 > n THEN 0 ELSE n - 1 + 1
    BY <2>1, FS_Interval
  <2>3. Cardinality(1..n) = n
    BY <2>1, <2>2
  <2> QED BY <2>2, <2>3 DEF n
<1>3. places \in SUBSET (1..Len(list))
  BY <1>1
<1>4. IsFiniteSet(places) /\ Cardinality(places) <= Len(list) /\ Cardinality(places) \in Nat
  BY <1>2, <1>3, FS_Subset, FS_CardinalityType
<1>5. order \in Seq(places) /\ Len(order) = Cardinality(places)
  BY <1>4, ArrangedEnumerates
<1> HIDE DEF order
<1>6. picked \in [1..Len(order) -> S] /\ Len(order) \in Nat
  BY <1>1, <1>5
<1>7. picked \in Seq(S) /\ Len(picked) = Len(order)
  BY <1>6
<1> QED BY <1>4, <1>5, <1>7 DEF Picked, order, picked

LEMMA EarlierOrders ==
    ASSUME NEW S, NEW list \in Seq(S), NEW places, places \subseteq DOMAIN list
    PROVE  Orders(Earlier(list), places)
<1>1. DOMAIN list \subseteq Int
  OBVIOUS
<1>2. \A i, j \in DOMAIN list : <<i, j>> \in Earlier(list) <=> i < j
  BY DEF Earlier
<1> QED BY <1>1, <1>2 DEF Orders

LEMMA OperatedIsDraft ==
    ASSUME NEW list \in Seq(Items), Len(list) <= MaxItems,
           NEW status \in {"pending_review", "accepted"}, NEW new \in Operated(list, status)
    PROVE  new \in Seq(Items) /\ Len(new) <= MaxItems
<1> DEFINE Item(code, surface, intent) ==
               [code |-> code, surface |-> surface, intent |-> intent, status |-> status]
<1>1. \/ new = list
      \/ /\ Len(list) < MaxItems
         /\ \E code \in AllCodes, surface \in Task.components, intent \in Task.intents :
               new = AddItem(list, Item(code, surface, intent))
      \/ \E surface \in Task.components, code \in AllCodes :
            new = RemoveLineItem(list, surface, code)
      \/ \E surface \in Task.components : new = ClearSection(list, surface)
  <2> DEFINE codes == IF Len(list) < MaxItems THEN AllCodes ELSE {}
         added == {AddItem(list, Item(code, surface, intent)) :
                        code \in codes, surface \in Task.components, intent \in Task.intents}
         removed == {RemoveLineItem(list, surface, code) :
                        surface \in Task.components, code \in AllCodes}
         cleared == {ClearSection(list, surface) : surface \in Task.components}
  <2>1. Operated(list, status) = {list} \union added \union removed \union cleared
    BY DEF Operated
  <2>2. \A code \in codes : Len(list) < MaxItems /\ code \in AllCodes
    OBVIOUS
  <2> HIDE DEF codes, Item
  <2>3. new \in added =>
           /\ Len(list) < MaxItems
           /\ \E code \in AllCodes, surface \in Task.components, intent \in Task.intents :
                 new = AddItem(list, Item(code, surface, intent))
    BY <2>2
  <2>4. new \in removed => \E surface \in Task.components, code \in AllCodes :
                               new = RemoveLineItem(list, surface, code)
    OBVIOUS
  <2>5. new \in cleared => \E surface \in Task.components : new = ClearSection(list, surface)
    OBVIOUS
  <2> HIDE DEF added, removed, cleared
  <2>6. new = list \/ new \in added \/ new \in removed \/ new \in cleared
    BY <2>1
  <2> QED BY <2>3, <2>4, <2>5, <2>6
<1>2. CASE new = list
  BY <1>2
<1>3. ASSUME Len(list) < MaxItems,
             NEW code \in AllCodes, NEW surface \in Task.components, NEW intent \in Task.intents,
             new = AddItem(list, Item(code, surface, intent))
      PROVE  new \in Seq(Items) /\ Len(new) <= MaxItems
  <2> DEFINE item == Item(code, surface, intent)
  <2>1. item \in Items
    BY DEF Items
  <2>2. new = list \/ new = Append(list, item)
    BY <1>3 DEF AddItem
  <2> HIDE DEF item
  <2> QED BY <1>3, <2>1, <2>2, BoundsAssumption
<1>4. ASSUME NEW surface, NEW code, new = RemoveLineItem(list, surface, code)
      PROVE  new \in Seq(Items) /\ Len(new) <= MaxItems
  <2> DEFINE places == {i \in DOMAIN list : list[i].surface # surface \/ list[i].code # code}
  <2>1. new = Picked(list, places, Earlier(list)) /\ places \subseteq DOMAIN list
    BY <1>4 DEF RemoveLineItem
  <2> HIDE DEF places
  <2>2. new \in Seq(Items) /\ Len(new) <= Len(list)
    BY <2>1, PickedIsSequence, EarlierOrders
  <2> QED BY <2>2, BoundsAssumption
<1>5. ASSUME NEW surface, new = ClearSection(list, surface)
      PROVE  new \in Seq(Items) /\ Len(new) <= MaxItems
  <2> DEFINE places == {i \in DOMAIN list : list[i].surface # surface}
  <2>1. new = Picked(list, places, Earlier(list)) /\ places \subseteq DOMAIN list
    BY <1>5 DEF ClearSection
  <2> HIDE DEF places
  <2>2. new \in Seq(Items) /\ Len(new) <= Len(list)
    BY <2>1, PickedIsSequence, EarlierOrders
  <2> QED BY <2>2, BoundsAssumption
<1> QED BY <1>1, <1>2, <1>3, <1>4, <1>5

LEMMA ReviewedIsItem ==
    ASSUME NEW item \in Items
    PROVE  /\ \A status \in {"accepted", "rejected"} : [item EXCEPT !.status = status] \in Items
           /\ \A code \in AllCodes : [item EXCEPT !.code = code, !.status = "accepted"] \in Items
BY DEF Items

LEMMA DraftCorrect == Spec => []DraftInv
<1>1. Init => DraftInv
  BY BoundsAssumption DEF Init, DraftInv
<1>2. DraftInv /\ [Next]_vars => DraftInv'
  <2> SUFFICES ASSUME DraftInv, [Next]_vars PROVE DraftInv'
    OBVIOUS
  <2>1. CASE UNCHANGED vars
    BY <2>1 DEF DraftInv, vars, draft_vars
  <2>2. CASE FinishPlanner \/ FinishLegacy
    <3>1. \E status \in {"pending_review", "accepted"} : draft' \in Operated(draft, status)
      BY <2>2 DEF FinishPlanner, FinishLegacy, EndTurn
    <3> QED BY <3>1, OperatedIsDraft DEF DraftInv
  <2>3. ASSUME NEW i \in DOMAIN draft, Review(i) PROVE DraftInv'
    <3>0. draft[i] \in Items
      BY DEF DraftInv
    <3>1. PICK item \in Items : draft' = [draft EXCEPT ![i] = item]
      <4>1. CASE \E status \in {"accepted", "rejected"} : draft' = [draft EXCEPT ![i].status = status]
        <5>1. PICK status \in {"accepted", "rejected"} : draft' = [draft EXCEPT ![i].status = status]
          BY <4>1
        <5>2. [draft[i] EXCEPT !.status = status] \in Items
          BY <3>0, ReviewedIsItem
        <5> QED BY <5>1, <5>2
      <4>2. CASE \E code \in AllCodes :
                    draft' = [draft EXCEPT ![i].code = code, ![i].status = "accepted"]
        <5>1. PICK code \in AllCodes :
                 draft' = [draft EXCEPT ![i].code = code, ![i].status = "accepted"]
          BY <4>2
        <5>2. [draft[i] EXCEPT !.code = code, !.status = "accepted"] \in Items
          BY <3>0, ReviewedIsItem
        <5>3. draft' = [draft EXCEPT ![i] = [draft[i] EXCEPT !.code = code, !.status = "accepted"]]
          BY <5>1 DEF DraftInv
        <5> QED BY <5>2, <5>3
      <4> QED BY <2>3, <4>1, <4>2 DEF Review
    <3> QED BY <3>1 DEF DraftInv
  <2>4. CASE UNCHANGED draft
    BY <2>4 DEF DraftInv
  <2> QED BY <2>1, <2>2, <2>3, <2>4, DraftFrame
<1> QED BY <1>1, <1>2, PTL DEF Spec

-----------------------------------------------------------------------------
(* The job and its plan *)

IsJobItem(source) ==
    source.type # "note" /\ source.approved = NoCode => IsScope(source.scope)
IsJob(items) ==
    items \in Seq(Elements(items)) /\ \A i \in DOMAIN items : IsJobItem(items[i])

PlanInv ==
    /\ at = "plan" => IsJob(job)
    /\ at = "plan" /\ find # NoSearch => Len(planned) < Len(job)
    /\ at # "plan" => job = <<>> /\ planned = <<>>
    /\ planned \in Seq(Elements(planned)) /\ Len(planned) <= Len(job)
    /\ typed.kind = "job" => Len(typed.planned) = Len(typed.job)

\* A draft becomes a job without searches: each of its items has a code.
LEMMA DraftJobIsJob ==
    ASSUME DraftInv
    PROVE  IsJob(DraftJob)
<1> DEFINE accepted == {i \in DOMAIN draft : draft[i].status = "accepted"}
           Rank(i) == SectionRank(draft[i].surface)
           before == {p \in accepted \X accepted :
                         \/ Rank(p[1]) < Rank(p[2])
                         \/ Rank(p[1]) = Rank(p[2]) /\ p[1] < p[2]}
           ordered == Picked(draft, accepted, before)
           items == [n \in DOMAIN ordered |->
                       [type |-> "line_item", approved |-> ordered[n].code, quantity |-> "",
                        auto |-> TRUE, minimum |-> "high"]]
<1>1. DraftJob = items
  BY DEF DraftJob
<1>2. accepted \subseteq DOMAIN draft /\ draft \in Seq(Items)
  BY DEF DraftInv
<1>3. Orders(before, accepted)
  <2>1. \A i, j \in accepted :
           <<i, j>> \in before <=>
               \/ Rank(i) < Rank(j)
               \/ Rank(i) = Rank(j) /\ i < j
    OBVIOUS
  <2>2. \A i \in accepted : Rank(i) \in Int
    BY DEF SectionRank
  <2>3. accepted \subseteq Int
    BY <1>2
  <2> HIDE DEF before, accepted, Rank
  <2> QED BY <2>1, <2>2, <2>3 DEF Orders
<1> HIDE DEF before, accepted
<1>4. ordered \in Seq(Items)
  BY <1>2, <1>3, PickedIsSequence
<1> HIDE DEF ordered
<1>5. DOMAIN ordered = 1..Len(ordered) /\ Len(ordered) \in Nat
  BY <1>4
<1>6. items \in Seq(Elements(items))
  <2>1. items \in [1..Len(ordered) -> Elements(items)]
    BY <1>5 DEF Elements
  <2> HIDE DEF items
  <2> QED BY <1>5, <2>1
<1>7. \A n \in DOMAIN items : items[n].approved \in AllCodes
  <2>1. \A n \in DOMAIN ordered : ordered[n].code \in AllCodes
    <3>1. \A n \in DOMAIN ordered : ordered[n] \in Items
      BY <1>4, <1>5
    <3> QED BY <3>1 DEF Items
  <2>2. DOMAIN items = DOMAIN ordered /\ \A n \in DOMAIN ordered : items[n].approved = ordered[n].code
    OBVIOUS
  <2> QED BY <2>1, <2>2
<1> HIDE DEF items
<1>8. \A n \in DOMAIN items : IsJobItem(items[n])
  BY <1>7, NoCodeAssumption DEF IsJobItem
<1> QED BY <1>1, <1>6, <1>8 DEF IsJob

LEMMA PlanCorrect == Spec => []PlanInv
<1>1. Init => PlanInv
  BY DEF Init, PlanInv, NothingTyped, Elements
<1>2. DraftInv /\ ControlInv /\ PlanInv /\ [Next]_vars => PlanInv'
  <2> SUFFICES ASSUME DraftInv, ControlInv, PlanInv, [Next]_vars PROVE PlanInv'
    OBVIOUS
  <2>1. CASE UNCHANGED vars
    BY <2>1 DEF PlanInv, IsJob, vars, control_vars, job_vars
  <2>2. ASSUME NEW items, IsJob(items), StartPublish(items) PROVE PlanInv'
    <3>1. /\ at = "idle" /\ at' = "plan" /\ job' = items
          /\ UNCHANGED <<find, planned, typed>>
      BY <2>2 DEF StartPublish
    <3>2. planned = <<>> /\ find = NoSearch
      BY <3>1 DEF PlanInv, ControlInv
    <3>3. Len(items) \in Nat
      BY <2>2 DEF IsJob
    <3> QED BY <2>2, <3>1, <3>2, <3>3 DEF PlanInv, Elements
  <2>3. StartPublish(DraftJob) => PlanInv'
    BY <2>2, DraftJobIsJob
  <2>4. ASSUME NEW items \in Jobs, StartPublish(items) PROVE PlanInv'
    <3>1. IsJob(items)
      BY JobsAssumption DEF IsJob, IsJobItem, Elements
    <3> QED BY <2>2, <2>4, <3>1
  <2>5. ASSUME NEW p, Plan(p), at = "plan", Len(planned) < Len(job) PROVE PlanInv'
    <3>1. planned' = Append(planned, p) /\ find' = NoSearch /\ UNCHANGED <<at, job, typed>>
      BY <2>5 DEF Plan, control_vars
    <3>2. planned \in Seq(Elements(planned) \union {p})
      BY DEF PlanInv
    <3>3. /\ planned' \in Seq(Elements(planned) \union {p})
          /\ Len(planned') = Len(planned) + 1
      BY <3>1, <3>2
    <3>4. planned' \in Seq(Elements(planned'))
      <4> DEFINE new == planned'
      <4> HIDE DEF new
      <4>1. new \in Seq(Elements(planned) \union {p})
        BY <3>3 DEF new
      <4>2. new \in [1..Len(new) -> Elements(new)] /\ Len(new) \in Nat
        BY <4>1 DEF Elements
      <4>3. new \in Seq(Elements(new))
        BY <4>2
      <4> QED BY <4>3 DEF new
    <3>5. Len(planned) \in Nat /\ Len(job) \in Nat
      BY <2>5 DEF PlanInv, IsJob
    <3> QED BY <2>5, <3>1, <3>3, <3>4, <3>5 DEF PlanInv, IsJob
  <2>6. CASE PlanNote \/ PlanApproved \/ PlanFound
    <3>1. \E p : Plan(p)
      BY <2>6 DEF PlanNote, PlanApproved, PlanFound
    <3>2. at = "plan" /\ Len(planned) < Len(job)
      BY <2>6 DEF PlanNote, PlanApproved, PlanFound, PlansNext, PlanInv, NoSearch
    <3> QED BY <2>5, <3>1, <3>2
  <2>7. CASE PlanFails
    BY <2>7 DEF PlanFails, PlanInv, Elements
  <2>8. CASE Publish
    <3>1. at' = "idle" /\ job' = <<>> /\ planned' = <<>> /\ Len(planned) = Len(job)
      BY <2>8 DEF Publish
    <3>2. typed'.kind = "job" => Len(typed'.planned) = Len(typed'.job)
      BY <2>8, <3>1 DEF Publish, PlanInv
    <3> QED BY <3>1, <3>2 DEF PlanInv, Elements
  <2>9. ASSUME NEW text, NEW append_enter, SendText(text, append_enter) PROVE PlanInv'
    BY <2>9 DEF SendText, Send, PlanInv
  <2>10. ASSUME NEW raw, ExportRows(raw) PROVE PlanInv'
    BY <2>10 DEF ExportRows, Send, PlanInv
  <2>11. CASE /\ UNCHANGED job_vars
              /\ at' = "plan" <=> at = "plan"
              /\ at = "plan" /\ find = NoSearch /\ find' # NoSearch => PlanSearch
    BY <2>11 DEF PlanInv, IsJob, job_vars, PlanSearch, PlansNext
  <2> QED
    BY <2>1, <2>3, <2>4, <2>6, <2>7, <2>8, <2>9, <2>10, <2>11, JobFrame
<1> QED BY <1>1, <1>2, DraftCorrect, ControlCorrect, PTL DEF Spec

-----------------------------------------------------------------------------
(* Types *)

CountersInv ==
    turns \in 0..MaxTurns /\ calls \in 0..MaxCalls /\ publications \in 0..MaxJobs

LEMMA CountersCorrect == Spec => []CountersInv
<1> USE BoundsAssumption DEF CountersInv
<1>1. Init => CountersInv
  BY DEF Init
<1>2. CountersInv /\ [Next]_vars => CountersInv'
  BY CountersFrame DEF StartTurn, CallTool, vars, control_vars
<1> QED BY <1>1, <1>2, PTL DEF Spec

\* The shape of the state: at most one request at a time, and only for who
\* waits for it; what is planned belongs to the job (workflow_agents.py,
\* openai_agent.py, service.py).
THEOREM TypeCorrect == Spec => []TypeOK
<1>1. DatabaseInv /\ ControlInv /\ CountersInv /\ DraftInv /\ PlanInv => TypeOK
  <2> SUFFICES ASSUME DatabaseInv, ControlInv, CountersInv, DraftInv, PlanInv PROVE TypeOK
    OBVIOUS
  <2>1. /\ find.at \in {"off", "codes", "items", "scenarios", "done", "failed"}
        /\ find.at # "off" => at \in {"search", "explore", "plan"}
        /\ find.at \in {"items", "scenarios", "done"} => database # NoFile
    BY DEF ControlInv, NoSearch, IsRequest
  <2>2. \A i \in DOMAIN draft : draft[i].code \in AllCodes
    <3>1. \A i \in DOMAIN draft : draft[i] \in Items
      BY DEF DraftInv
    <3> QED BY <3>1 DEF Items
  <2> QED
    BY <2>1, <2>2 DEF TypeOK, DatabaseInv, ControlInv, CountersInv, DraftInv, PlanInv
<1> QED
  BY <1>1, DatabaseCorrect, ControlCorrect, CountersCorrect, DraftCorrect, PlanCorrect, PTL

-----------------------------------------------------------------------------
(* The arguments of calls and the words of queries *)

CallInv ==
    /\ at \in {"search", "inject"} /\ agent = "planner" => call \in Calls
    /\ at = "explore" =>
          /\ IsScope(call.base) /\ call.limit \in Nat
          /\ todo \in Seq(Elements(todo)) /\ \A i \in DOMAIN todo : IsScope(todo[i])

LEMMA ToolLimitIsNat ==
    ASSUME NEW limit, IsLimit(limit)
    PROVE  ToolLimit(limit) \in Nat
BY DEF IsLimit, ToolLimit

LEMMA TailIsScopes ==
    ASSUME NEW list, list \in Seq(Elements(list)), list # <<>>, \A i \in DOMAIN list : IsScope(list[i])
    PROVE  /\ Tail(list) \in Seq(Elements(Tail(list)))
           /\ \A i \in DOMAIN Tail(list) : IsScope(Tail(list)[i])
           /\ IsScope(Head(list))
<1> DEFINE tail == Tail(list)
<1>1. /\ tail \in Seq(Elements(list)) /\ Head(list) = list[1] /\ 1 \in DOMAIN list
      /\ \A i \in DOMAIN tail : i + 1 \in DOMAIN list /\ tail[i] = list[i + 1]
  OBVIOUS
<1> HIDE DEF tail
<1>2. tail \in [1..Len(tail) -> Elements(tail)] /\ Len(tail) \in Nat
  BY <1>1 DEF Elements
<1>3. tail \in Seq(Elements(tail))
  BY <1>2
<1> QED BY <1>1, <1>3 DEF tail

LEMMA CallCorrect == Spec => []CallInv
<1>1. Init => CallInv
  BY DEF Init, CallInv
<1>2. ControlInv /\ CallInv /\ [Next]_vars => CallInv'
  <2> SUFFICES ASSUME ControlInv, CallInv, [Next]_vars PROVE CallInv'
    OBVIOUS
  <2>1. CASE UNCHANGED vars
    BY <2>1 DEF CallInv, vars, control_vars, tool_vars
  <2>2. CASE Search
    BY <2>2 DEF Search, SearchCodes, SearchItems, SearchScenarios, SearchFails, CallInv,
                control_vars, tool_vars
  <2>3. CASE Turn
    <3> USE DEF CallInv, CallTool
    <3>1. ASSUME NEW who \in {"planner", "legacy"}, StartTurn(who) PROVE CallInv'
      BY <3>1 DEF StartTurn
    <3>2. ASSUME NEW c \in Calls, SearchTool(c) PROVE CallInv'
      BY <3>2 DEF SearchTool
    <3>3. ASSUME NEW scope, SearchLineItems(scope) PROVE CallInv'
      BY <3>3 DEF SearchLineItems
    <3>4. ASSUME NEW c \in Calls, AskPolicy(c) PROVE CallInv'
      BY <3>4 DEF AskPolicy
    <3>5. ASSUME NEW code, GetLineItem(code) PROVE CallInv'
      BY <3>5 DEF GetLineItem
    <3>6. ASSUME NEW e \in Explorations, Explore(e) PROVE CallInv'
      <4>1. /\ at' = "explore" /\ todo' = e.strategies
            /\ call' = [base |-> e.base, limit |-> ToolLimit(e.base.limit)]
        BY <3>6 DEF Explore
      <4>2. /\ IsScope(e.base) /\ ToolLimit(e.base.limit) \in Nat
            /\ e.strategies \in Seq(Elements(e.strategies))
            /\ \A i \in DOMAIN e.strategies : IsScope(e.strategies[i])
        BY ExplorationsAssumption, ToolLimitIsNat DEF Elements
      <4> QED BY <4>1, <4>2
    <3>7. CASE AnswerSearch \/ StartRerank \/ TurnFails
      BY <3>7 DEF AnswerSearch, StartRerank, TurnFails, ControlInv
    <3>8. CASE InjectPreferred \/ AnswerReranked
      BY <3>8 DEF InjectPreferred, AnswerReranked, ControlInv, control_vars
    <3>9. CASE NextStrategy
      <4>1. /\ at = "explore" /\ todo # <<>> /\ todo' = Tail(todo)
            /\ UNCHANGED <<at, agent, call>>
        BY <3>9 DEF NextStrategy, control_vars
      <4> QED BY <4>1, TailIsScopes
    <3>10. CASE StrategyReturns \/ AnswerExplored
      BY <3>10 DEF StrategyReturns, AnswerExplored, control_vars
    <3>11. CASE FinishPlanner \/ FinishLegacy
      BY <3>11 DEF FinishPlanner, FinishLegacy, EndTurn
    <3> QED
      BY <2>3, <3>1, <3>2, <3>3, <3>4, <3>5, <3>6, <3>7, <3>8, <3>9, <3>10, <3>11 DEF Turn
  <2>4. CASE Publication
    BY <2>4 DEF Publication, StartPublish, PlanNote, PlanApproved, PlanSearch, PlanFound, PlansNext,
                Plan, PlanFails, Publish, SendText, ExportRows, Send, CallInv, control_vars, tool_vars
  <2>5. CASE UNCHANGED <<at, agent, call, todo>>
    BY <2>5 DEF CallInv
  <2> QED BY <2>1, <2>2, <2>3, <2>4, <2>5 DEF Next, Review, control_vars, tool_vars
<1> QED BY <1>1, <1>2, ControlCorrect, PTL DEF Spec

LEMMA ScopesAreQueries ==
    ASSUME NEW scope, IsScope(scope)
    PROVE  IsQuery(ScopeQuery(scope))
BY WordsAssumption DEF IsScope, IsText, IsQuery, ScopeQuery

LEMMA StrategiesAreQueries ==
    ASSUME NEW base, IsScope(base), NEW strategy, IsScope(strategy)
    PROVE  IsQuery(StrategyQuery(base, strategy))
<1> DEFINE Field(f) == OrElse(ToolText(strategy[f]), ToolText(base[f]))
           fields == {"text", "room", "surface", "damage", "keywords"}
           texts == [f \in fields |-> ToolText(Field(f))]
<1>1. \A text \in DOMAIN Words : ToolText(text) \in DOMAIN Words
  BY WordsAssumption DEF ToolText
<1>2. \A f \in fields : Field(f) \in DOMAIN Words
  BY DEF IsScope, IsText, OrElse
<1>3. \A f \in fields : IsFiniteSet(Words[ToolText(Field(f))])
  BY <1>1, <1>2, WordsAssumption
<1>4. StrategyQuery(base, strategy) =
        [code |-> strategy.code, text |-> Words[ToolText(Field("text"))],
         room |-> Words[ToolText(Field("room"))], surface |-> Words[ToolText(Field("surface"))],
         damage |-> Words[ToolText(Field("damage"))],
         keywords |-> Words[ToolText(Field("keywords"))]]
  BY DEF StrategyQuery, ScopeQuery
<1> HIDE DEF Field
<1> QED BY <1>3, <1>4 DEF IsQuery

LEMMA CallsAreQueries ==
    ASSUME NEW c \in Calls
    PROVE  IsQuery(PlannerQuery(c))
<1> DEFINE surface == PlannerSurface(c)
           component == OrElse(c.component, surface)
<1>1. /\ c.intent \in DOMAIN Words /\ c.component \in DOMAIN Words
      /\ \A f \in {"severity", "surface", "room", "keywords"} : ToolText(c[f]) \in DOMAIN Words
  BY CallsAssumption DEF IsText
<1>2. surface \in DOMAIN Words
  BY <1>1 DEF PlannerSurface, OrElse
<1>3. component \in DOMAIN Words
  BY <1>1, <1>2 DEF OrElse
<1>4. PlannerQuery(c) =
        [code |-> NoCode, damage |-> Words[c.intent],
         text |-> Words[c.intent] \union Words[ToolText(c.severity)] \union Words[component],
         room |-> Words[ToolText(c.room)], surface |-> Words[surface],
         keywords |-> Words[ToolText(c.keywords)]]
  BY DEF PlannerQuery
<1> HIDE DEF surface, component
<1>5. IsFiniteSet(Words[c.intent] \union Words[ToolText(c.severity)] \union Words[component])
  BY <1>1, <1>3, WordsAssumption, FS_Union
<1> QED BY <1>1, <1>2, <1>4, <1>5, WordsAssumption DEF IsQuery

-----------------------------------------------------------------------------
(* What searches answer *)

\* The items that were read stand in one catalogue, and so will the scenarios
\* that the same connection reads for them.
ReadFrom(version, file, items) ==
    /\ file.version = version /\ file.stage = "loaded"
    /\ items \subseteq {s.item : s \in Catalog[version]}
AnswerInv ==
    /\ find.at \in {"codes", "items", "scenarios", "done"} => IsQuery(find.query)
    /\ find.at = "scenarios" => \E v \in Versions : ReadFrom(v, find.conn, find.items)
    /\ find.at = "done" =>
          /\ IsList(find.list)
          /\ \E v \in Versions : \A c \in Elements(find.list) : StandsIn(c, Catalog[v])

\* The connection joins each item with the scenarios of its own source.
LEMMA JoinedAreSources ==
    ASSUME NEW v \in Versions, NEW file, NEW items, ReadFrom(v, file, items)
    PROVE  /\ AreSources(JoinScenarios(file, items))
           /\ \A c : StandsIn(c, JoinScenarios(file, items)) => StandsIn(c, Catalog[v])
<1> DEFINE sources == Catalog[v]
           joined == JoinScenarios(file, items)
           f == [i \in items |-> [item |-> i, scenarios |-> ScenariosOf(file, i.code)]]
           g == [s \in sources |-> s.item]
<1>1. AreSources(sources) /\ Sources(file) = sources
  BY CatalogAssumption DEF ReadFrom, Sources
<1> HIDE DEF sources
<1>2. ASSUME NEW i \in items
      PROVE  \E s \in sources : s.item = i /\ s.scenarios = ScenariosOf(file, i.code)
  <2>1. PICK s \in sources : s.item = i
    BY DEF ReadFrom, sources
  <2>2. {x \in Sources(file) : x.item.code = i.code} = {s}
    BY <1>1, <2>1 DEF AreSources
  <2>3. ScenariosOf(file, i.code) = s.scenarios
    BY <2>2 DEF ScenariosOf
  <2> QED BY <2>1, <2>3
<1>3. joined = {f[i] : i \in items} /\ \A i \in items : f[i].item = i /\ f[i].scenarios = ScenariosOf(file, i.code)
  BY DEF JoinScenarios
<1>4. IsFiniteSet(joined)
  <2>1. items \in SUBSET {s.item : s \in sources}
    BY DEF ReadFrom, sources
  <2>2. g \in Surjection(sources, {s.item : s \in sources})
    BY DEF Surjection
  <2>3. f \in Surjection(items, {f[i] : i \in items})
    BY DEF Surjection
  <2> HIDE DEF f, g
  <2>4. IsFiniteSet({s.item : s \in sources})
    BY <1>1, <2>2, FS_Surjection DEF AreSources
  <2>5. IsFiniteSet(items)
    BY <2>1, <2>4, FS_Subset
  <2>6. IsFiniteSet({f[i] : i \in items})
    BY <2>3, <2>5, FS_Surjection
  <2> QED BY <1>3, <2>6
<1> HIDE DEF joined, f, g
<1>5. \A j \in joined : \E s \in sources : j.item = s.item /\ j.scenarios = s.scenarios
  BY <1>2, <1>3
<1>6. \A j, k \in joined : j.item = k.item => j = k
  BY <1>3
<1>7. \A j \in joined : IsSource(j)
  BY <1>1, <1>5 DEF AreSources, IsSource
<1>8. \A j, k \in joined : j.item.code = k.item.code => j = k
  BY <1>1, <1>5, <1>6 DEF AreSources
<1>9. AreSources(joined)
  BY <1>4, <1>7, <1>8 DEF AreSources
<1>10. \A c : StandsIn(c, joined) => StandsIn(c, sources)
  BY <1>5 DEF StandsIn
<1> QED BY <1>9, <1>10 DEF joined, sources

LEMMA AnswersCorrect == Spec => []AnswerInv
<1>1. Init => AnswerInv
  BY DEF Init, AnswerInv, NoSearch, IsRequest
<1>2. /\ DatabaseInv /\ DatabaseInv' /\ ControlInv /\ ControlInv' /\ CallInv /\ PlanInv
      /\ AnswerInv /\ [Next]_vars
      => AnswerInv'
  <2> SUFFICES ASSUME DatabaseInv, ControlInv, ControlInv', CallInv, PlanInv, AnswerInv, [Next]_vars
               PROVE  AnswerInv'
    OBVIOUS
  <2>0. ASSUME NEW query, IsQuery(query), NEW limit, find' = Ask(query, limit) PROVE AnswerInv'
    BY <2>0 DEF Ask, AnswerInv, IsRequest
  <2>1. CASE UNCHANGED find \/ UNCHANGED vars
    BY <2>1 DEF AnswerInv, vars
  <2>2. CASE SearchCodes
    <3>1. IsRequest(find)
      BY <2>2 DEF SearchCodes, ControlInv, NoSearch
    <3>2. database.version \in Versions
      BY <2>2 DEF SearchCodes, DatabaseInv, DatabaseTypeOK, Files
    <3>3. find'.query = find.query /\ find'.at \in {"items", "done"} /\ find'.list = <<>>
      BY <2>2, <3>1, CodesAreCollected DEF Filled
    <3>4. IsList(<<>>) /\ Elements(<<>>) = {}
      BY DEF IsList, Elements
    <3>5. IsQuery(find.query)
      BY <3>1 DEF IsRequest, AnswerInv
    <3> QED BY <3>2, <3>3, <3>4, <3>5 DEF AnswerInv
  <2>3. CASE SearchItems
    <3>1. IsRequest(find) /\ database # NoFile
      BY <2>3 DEF SearchItems, ControlInv, NoSearch, IsRequest
    <3>2. database.version \in Versions /\ database.stage = "loaded"
      BY <3>1 DEF DatabaseInv, DatabaseTypeOK, DatabaseIsWhole, Files
    <3>3. /\ find'.query = find.query /\ find'.at = "scenarios" /\ find'.conn = database
          /\ find'.items = ItemRows(database, find.codes)
      BY <2>3, <3>1, ItemsAreRead DEF Filled
    <3>4. ReadFrom(database.version, database, ItemRows(database, find.codes))
      BY <3>2 DEF ReadFrom, ItemRows, Sources
    <3>5. IsQuery(find.query)
      BY <3>1 DEF IsRequest, AnswerInv
    <3> QED BY <3>2, <3>3, <3>4, <3>5 DEF AnswerInv
  <2>4. CASE SearchScenarios
    <3>1. IsRequest(find) /\ find.limit \in Int /\ IsQuery(find.query)
      BY <2>4 DEF SearchScenarios, ControlInv, NoSearch, IsRequest, AnswerInv
    <3>2. PICK v \in Versions : ReadFrom(v, find.conn, find.items)
      BY <2>4 DEF SearchScenarios, AnswerInv
    <3> DEFINE sources == JoinScenarios(find.conn, find.items)
               list == Recommend(find.query, sources, find.limit)
    <3>3. AreSources(sources) /\ \A c : StandsIn(c, sources) => StandsIn(c, Catalog[v])
      BY <3>2, JoinedAreSources
    <3>4. find'.query = find.query /\ find'.at = "done" /\ find'.list = list
      BY <2>4, <3>1, ScenariosAreRead DEF Filled
    <3> HIDE DEF sources
    <3>5. IsList(list) /\ \A c \in Elements(list) : StandsIn(c, sources)
      BY <3>1, <3>3, RecommendStandsInItsSources
    <3> HIDE DEF list
    <3> QED BY <3>1, <3>3, <3>4, <3>5 DEF AnswerInv
  <2>5. ASSUME NEW c \in Calls, SearchTool(c) PROVE AnswerInv'
    BY <2>0, <2>5, CallsAreQueries DEF SearchTool
  <2>6. ASSUME NEW e \in Explorations, SearchLineItems(e.base) PROVE AnswerInv'
    BY <2>0, <2>6, ScopesAreQueries, ExplorationsAssumption DEF SearchLineItems
  <2>7. CASE NextStrategy
    <3>1. IsScope(call.base) /\ IsScope(Head(todo))
      BY <2>7, TailIsScopes DEF NextStrategy, CallInv
    <3>2. \E limit : find' = Ask(StrategyQuery(call.base, Head(todo)), limit)
      BY <2>7 DEF NextStrategy
    <3> QED BY <2>0, <3>1, <3>2, StrategiesAreQueries
  <2>8. CASE PlanSearch
    <3>1. /\ at = "plan" /\ Len(planned) < Len(job) /\ Source.type # "note"
          /\ Source.approved = NoCode /\ find' = Ask(ScopeQuery(Source.scope), RecommendationLimit)
      BY <2>8 DEF PlanSearch, PlansNext
    <3>2. Len(planned) + 1 \in DOMAIN job /\ IsJob(job)
      <4>1. Len(planned) \in Nat /\ IsJob(job)
        BY <3>1 DEF PlanInv
      <4> QED BY <3>1, <4>1 DEF IsJob
    <3>3. IsScope(Source.scope)
      BY <3>1, <3>2 DEF IsJob, IsJobItem, Source
    <3> QED BY <2>0, <3>1, <3>3, ScopesAreQueries
  <2>9. CASE find' \in {NoSearch, [at |-> "failed"]}
    BY <2>9 DEF AnswerInv, NoSearch, IsRequest
  <2> QED BY <2>1, <2>2, <2>3, <2>4, <2>5, <2>6, <2>7, <2>8, <2>9, FindFrame
<1> QED
  BY <1>1, <1>2, DatabaseCorrect, ControlCorrect, CallCorrect, PlanCorrect, PTL DEF Spec

\* What a search answers stood in one catalogue, items and scenarios alike,
\* though its codes may be those of the one before a rebuild (repository.py,
\* _load_sources).
THEOREM AnswersStandInOneCatalog == Spec => []AnswersAreOfOneCatalog
<1>1. AnswerInv => AnswersAreOfOneCatalog
  BY DEF AnswerInv, AnswersAreOfOneCatalog, StandsIn
<1> QED BY <1>1, AnswersCorrect, PTL

-----------------------------------------------------------------------------
(* What the planner sees *)

CandidatesInv ==
    at = "inject" =>
        /\ database # NoFile
        /\ IsFiniteSet(candidates) /\ OneOfACode(candidates)
        /\ \A c \in candidates : IsCandidate(c)

LEMMA RaisedIsShaped ==
    ASSUME NEW I, NEW S, NEW H, NEW T, NEW s \in S, NEW t \in T,
           NEW c \in [item : I, score : S, highlights : H, confidence : T]
    PROVE  /\ [c EXCEPT !.score = s, !.confidence = t]
                  \in [item : I, score : S, highlights : H, confidence : T]
           /\ [c EXCEPT !.score = s, !.confidence = t].item = c.item
           /\ [c EXCEPT !.score = s, !.confidence = t].highlights = c.highlights
OBVIOUS

LEMMA BoostedIsCandidate ==
    ASSUME NEW c, IsCandidate(c), NEW preferred
    PROVE  IsCandidate(Boosted(c, preferred)) /\ Boosted(c, preferred).item = c.item
<1> DEFINE score == c.score + 7500
           b == [c EXCEPT !.score = score, !.confidence = "high"]
<1>1. /\ c \in [item : {c.item}, score : Int, highlights : {c.highlights},
                confidence : Confidences]
      /\ c.item.code \in Int
  BY DEF IsCandidate
<1>2. score \in Int /\ "high" \in Confidences
  BY <1>1 DEF Confidences
<1>3. Boosted(c, preferred) \in {b, c}
  BY <1>1 DEF Boosted
<1> HIDE DEF score
<1>4. /\ b \in [item : {c.item}, score : Int, highlights : {c.highlights},
                confidence : Confidences]
      /\ b.item = c.item /\ b.highlights = c.highlights
  BY <1>1, <1>2, RaisedIsShaped
<1> HIDE DEF b
<1> QED BY <1>1, <1>3, <1>4 DEF IsCandidate

\* What is reranked passes the filter, whatever is preferred.
LEMMA RerankedIsFiltered ==
    ASSUME NEW S, IsFiniteSet(S), OneOfACode(S), \A c \in S : IsCandidate(c),
           NEW preferred, NEW rule, NEW limit \in Nat
    PROVE  \A c \in Elements(Cut(Rerank(S, preferred, rule), limit)) : ~IsBlocked(c.item, rule)
<1> DEFINE passed == {d \in S : ~IsBlocked(d.item, rule)}
           f == [c \in passed |-> Boosted(c, preferred)]
           T == {Boosted(c, preferred) : c \in passed}
<1>1. \A c \in passed : IsCandidate(Boosted(c, preferred)) /\ Boosted(c, preferred).item = c.item
  BY BoostedIsCandidate
<1>2. Rerank(S, preferred, rule) = Ranked(T)
  BY DEF Rerank
<1>3. IsFiniteSet(T)
  <2>1. passed \in SUBSET S
    OBVIOUS
  <2>2. f \in Surjection(passed, T)
    BY DEF Surjection
  <2> HIDE DEF passed, f, T
  <2>3. IsFiniteSet(passed)
    BY <2>1, FS_Subset
  <2> QED BY <2>2, <2>3, FS_Surjection
<1>4. (\A c \in T : IsCandidate(c) /\ ~IsBlocked(c.item, rule)) /\ OneOfACode(T)
  BY <1>1 DEF OneOfACode
<1> HIDE DEF T
<1>5. IsList(Ranked(T)) /\ Elements(Ranked(T)) = T
  BY <1>3, <1>4, RankedIsList
<1>6. Elements(Cut(Ranked(T), limit)) \subseteq T
  BY <1>5, CutIsList
<1> QED BY <1>2, <1>4, <1>6

LEMMA CandidatesCorrect == Spec => []CandidatesInv
<1>1. Init => CandidatesInv
  BY DEF Init, CandidatesInv
<1>2. /\ DatabaseInv /\ ControlInv /\ AnswerInv /\ CandidatesInv /\ [Next]_vars
      => CandidatesInv'
  <2> SUFFICES ASSUME DatabaseInv, ControlInv, AnswerInv, CandidatesInv, [Next]_vars
               PROVE  CandidatesInv'
    OBVIOUS
  <2>0. database # NoFile => database' # NoFile
    BY DatabaseFrame
       DEF DatabaseNext, CreateTemporary, InitializeSchema, LoadExport, Replace, AbandonBuild,
           DatabaseInv, DatabaseTypeOK, DatabaseIsWhole, Files, vars, control_vars, database_vars
  <2>1. CASE UNCHANGED vars
    BY <2>1 DEF CandidatesInv, vars, control_vars, tool_vars, database_vars
  <2>2. CASE StartRerank
    <3>1. candidates' = Elements(find.list) /\ find.at = "done"
      BY <2>2 DEF StartRerank
    <3>2. database # NoFile /\ IsList(find.list)
      BY <3>1 DEF ControlInv, IsRequest, NoSearch, AnswerInv
    <3>3. IsFiniteSet(Elements(find.list))
      BY <3>2, ElementsAreFinite
    <3>4. /\ OneOfACode(Elements(find.list))
          /\ \A c \in Elements(find.list) : IsCandidate(c)
      BY <3>2 DEF IsList, OneOfACode, Elements
    <3> QED BY <2>0, <3>1, <3>2, <3>3, <3>4 DEF CandidatesInv
  <2>3. CASE InjectPreferred
    <3>1. /\ at = "inject" /\ database # NoFile /\ IsFiniteSet(candidates)
          /\ OneOfACode(candidates) /\ \A c \in candidates : IsCandidate(c)
      BY <2>3 DEF InjectPreferred, CandidatesInv
    <3>2. CASE UNCHANGED candidates
      BY <2>0, <3>1, <3>2 DEF CandidatesInv
    <3>3. CASE /\ \A c \in candidates : c.item.code # Head(todo)
               /\ \E item \in GetItem(database, Head(todo)) :
                     candidates' = candidates \union {Injected(item)}
      <4>1. PICK item \in GetItem(database, Head(todo)) :
               candidates' = candidates \union {Injected(item)}
        BY <3>3
      <4>2. item.code = Head(todo) /\ item.code \in Int
        <5>1. database.version \in Versions /\ database.stage = "loaded"
          BY <3>1 DEF DatabaseInv, DatabaseTypeOK, DatabaseIsWhole, Files
        <5>2. PICK s \in Catalog[database.version] : s.item = item /\ item.code = Head(todo)
          BY <4>1, <5>1 DEF GetItem, ItemRows, Sources
        <5> QED BY <5>1, <5>2, CatalogAssumption DEF AreSources, IsSource
      <4>3. IsCandidate(Injected(item)) /\ Injected(item).item = item
        BY <4>2 DEF Injected, IsCandidate, Confidences
      <4>4. IsFiniteSet(candidates \union {Injected(item)})
        BY <3>1, FS_AddElement
      <4>5. OneOfACode(candidates \union {Injected(item)})
        BY <3>1, <3>3, <4>2, <4>3 DEF OneOfACode
      <4> QED BY <2>0, <3>1, <4>1, <4>3, <4>4, <4>5 DEF CandidatesInv
    <3> QED BY <2>3, <3>2, <3>3 DEF InjectPreferred
  <2>4. CASE AnswerReranked
    BY <2>4 DEF AnswerReranked, CandidatesInv
  <2>5. CASE /\ at' = "inject" => at = "inject"
             /\ UNCHANGED candidates
    BY <2>0, <2>5 DEF CandidatesInv
  <2> QED BY <2>1, <2>2, <2>3, <2>4, <2>5, CandidatesFrame
<1> QED
  BY <1>1, <1>2, DatabaseCorrect, ControlCorrect, AnswersCorrect, PTL DEF Spec

PolicyInv ==
    answer.kind = "policy" =>
        /\ answer.call \in Calls
        /\ \A c \in Elements(answer.list) : ~IsBlocked(c.item, FallbackRule(answer.call))

LEMMA PolicyCorrect == Spec => []PolicyInv
<1>1. Init => PolicyInv
  BY DEF Init, PolicyInv, NoAnswer
<1>2. ControlInv /\ CallInv /\ CandidatesInv /\ PolicyInv /\ [Next]_vars => PolicyInv'
  <2> SUFFICES ASSUME ControlInv, CallInv, CandidatesInv, PolicyInv, [Next]_vars
               PROVE  PolicyInv'
    OBVIOUS
  <2>1. CASE UNCHANGED answer \/ UNCHANGED vars
    BY <2>1 DEF PolicyInv, vars, tool_vars
  <2>2. CASE AnswerReranked
    <3> DEFINE list == Cut(Rerank(candidates, Preferred(call), FallbackRule(call)),
                           ToolLimit(call.limit))
    <3>1. at = "inject" /\ answer' = [kind |-> "policy", call |-> call, list |-> list]
      BY <2>2 DEF AnswerReranked
    <3>2. call \in Calls
      BY <3>1 DEF ControlInv, CallInv
    <3>3. ToolLimit(call.limit) \in Nat
      BY <3>2, ToolLimitIsNat, CallsAssumption
    <3>4. \A c \in Elements(list) : ~IsBlocked(c.item, FallbackRule(call))
      BY <3>1, <3>3, RerankedIsFiltered DEF CandidatesInv
    <3> HIDE DEF list
    <3> QED BY <3>1, <3>2, <3>4 DEF PolicyInv
  <2>3. CASE AnswerExplored
    BY <2>3 DEF AnswerExplored, PolicyInv
  <2>4. CASE answer'.kind \notin {"policy", "explore"}
    BY <2>4 DEF PolicyInv
  <2> QED BY <2>1, <2>2, <2>3, <2>4, AnswerFrame
<1> QED
  BY <1>1, <1>2, ControlCorrect, CallCorrect, CandidatesCorrect, PTL DEF Spec

\* As long as no call gives null for its surface, the planner sees nothing
\* that the rule for the component and the intent blocks, whatever the search
\* finds, the policy prefers and the catalogue becomes in between
\* (workflow_agents.py, _run_tool; policy.py, rerank_candidates).
THEOREM PlannerSeesNothingBlocked ==
    ASSUME \A c \in Calls : c.surface # Null
    PROVE  Spec => []AnswersArePolicyFiltered
<1>1. \A c \in Calls : MeantSurface(c) = PlannerSurface(c)
  BY DEF MeantSurface, PlannerSurface, OrElse, ToolText
<1>2. PolicyInv => AnswersArePolicyFiltered
  BY <1>1 DEF PolicyInv, AnswersArePolicyFiltered, FallbackRule
<1> QED BY <1>2, PolicyCorrect, PTL

-----------------------------------------------------------------------------
(* What the merged searches show *)

MergedInv ==
    /\ at = "explore" => IsMerge(merged, explored) /\ Codes(Found(explored)) \subseteq AllCodes
    /\ at # "explore" => merged = NothingMerged /\ explored = <<>>

LEMMA NothingIsFound == Codes(Found(<<>>)) = {}
BY DEF Codes, Found

LEMMA MergedCorrect == Spec => []MergedInv
<1>1. Init => MergedInv
  BY DEF Init, MergedInv
<1>2. ControlInv /\ AnswerInv /\ MergedInv /\ [Next]_vars => MergedInv'
  <2> SUFFICES ASSUME ControlInv, AnswerInv, MergedInv, [Next]_vars PROVE MergedInv'
    OBVIOUS
  <2>1. CASE UNCHANGED vars
    BY <2>1 DEF MergedInv, vars, control_vars, tool_vars
  <2>2. CASE TurnFails \/ AnswerExplored
    BY <2>2 DEF TurnFails, AnswerExplored, MergedInv
  <2>3. ASSUME NEW e \in Explorations, Explore(e) PROVE MergedInv'
    <3>1. at = "model" /\ at' = "explore" /\ UNCHANGED <<merged, explored>>
      BY <2>3 DEF Explore, CallTool
    <3>2. merged = NothingMerged /\ explored = <<>>
      BY <3>1 DEF MergedInv
    <3> QED BY <3>1, <3>2, NothingIsMerged, NothingIsFound DEF MergedInv
  <2>4. CASE StrategyReturns
    <3>1. /\ at = "explore" /\ at' = "explore" /\ find.at = "done"
          /\ merged' = Merge(merged, find.list) /\ explored' = Append(explored, find.list)
      BY <2>4 DEF StrategyReturns, control_vars
    <3>2. IsList(find.list) /\ Codes(Elements(find.list)) \subseteq AllCodes
      <4>1. IsList(find.list)
        BY <3>1 DEF AnswerInv
      <4>2. PICK v \in Versions : \A c \in Elements(find.list) : StandsIn(c, Catalog[v])
        BY <3>1 DEF AnswerInv
      <4>3. \A c \in Elements(find.list) : c.item.code \in CodesOf(Catalog[v])
        BY <4>2 DEF StandsIn, CodesOf
      <4> QED BY <4>1, <4>3 DEF AllCodes, Codes
    <3>3. IsMerge(merged, explored) /\ Codes(Found(explored)) \subseteq AllCodes
      BY <3>1 DEF MergedInv
    <3>4. IsMerge(Merge(merged, find.list), Append(explored, find.list))
      BY <3>2, <3>3, MergeIsMerge
    <3>5. Codes(Found(Append(explored, find.list))) \subseteq AllCodes
      <4>1. Codes(Found(Append(explored, find.list))) = Merge(merged, find.list).seen
        BY <3>4 DEF IsMerge
      <4>2. merged.seen = Codes(Found(explored))
        BY <3>3 DEF IsMerge
      <4>3. Merge(merged, find.list).seen = merged.seen \union Codes(Elements(find.list))
        BY DEF Merge, Codes, Elements
      <4> QED BY <3>2, <3>3, <4>1, <4>2, <4>3
    <3> QED BY <3>1, <3>4, <3>5 DEF MergedInv
  <2>5. CASE UNCHANGED <<merged, explored>> /\ (at' = "explore" <=> at = "explore")
    BY <2>5 DEF MergedInv
  <2>6. CASE at # "explore" /\ at' # "explore" /\ UNCHANGED <<merged, explored>>
    BY <2>6 DEF MergedInv
  <2> QED BY <2>1, <2>2, <2>3, <2>4, <2>5, <2>6, MergedFrame
<1> QED BY <1>1, <1>2, ControlCorrect, AnswersCorrect, PTL DEF Spec

\* The merge of the strategies shows the best of all that they found, and none
\* better is left out (runtime_client.py, explore_strategies).
THEOREM MergedSearchesShowTheBest == Spec => []ExploredIsBest
<1>1. Init => ExploredIsBest
  BY DEF Init, ExploredIsBest, NoAnswer
<1>2. CallInv /\ MergedInv /\ ExploredIsBest /\ [Next]_vars => ExploredIsBest'
  <2> SUFFICES ASSUME CallInv, MergedInv, ExploredIsBest, [Next]_vars PROVE ExploredIsBest'
    OBVIOUS
  <2>1. CASE UNCHANGED answer \/ UNCHANGED vars
    BY <2>1 DEF ExploredIsBest, vars, tool_vars
  <2>2. CASE AnswerExplored
    <3> DEFINE list == Combined(merged, call.limit)
    <3>1. /\ at = "explore"
          /\ answer' = [kind |-> "explore", limit |-> call.limit, list |-> list,
                        overlap |-> merged.overlap, explored |-> explored]
      BY <2>2 DEF AnswerExplored
    <3>2. /\ IsMerge(merged, explored) /\ Codes(Found(explored)) \subseteq AllCodes
          /\ call.limit \in Nat
      BY <3>1 DEF MergedInv, CallInv
    <3>3. /\ Elements(list) \subseteq Found(explored)
          /\ \A i, j \in DOMAIN list : i < j => /\ Outranks(list[i], list[j])
                                                /\ list[i].item.code # list[j].item.code
          /\ \A c \in Found(explored) :
                \/ \E i \in DOMAIN list : list[i].item.code = c.item.code /\ ~Outranks(c, list[i])
                \/ /\ Len(list) >= MergeLeast
                   /\ \A i \in DOMAIN list : Outranks(list[i], c)
      BY <3>2, CombinedIsBest
    <3> HIDE DEF list
    <3>4. merged.overlap = {code \in AllCodes :
             \E j, k \in DOMAIN explored :
                j # k /\ code \in CodesOf(Elements(explored[j])) \intersect CodesOf(Elements(explored[k]))}
      <4>1. \A code : code \in merged.overlap <=> Repeated(explored, code)
        BY <3>2 DEF IsMerge
      <4>2. \A code : Repeated(explored, code) => code \in AllCodes
        BY <3>2 DEF Repeated, Codes, Found
      <4>3. \A k : CodesOf(Elements(explored[k])) = Codes(Elements(explored[k]))
        BY DEF CodesOf, Codes
      <4> QED BY <4>1, <4>2, <4>3 DEF Repeated
    <3> QED BY <3>1, <3>3, <3>4 DEF ExploredIsBest, Found
  <2>3. CASE AnswerReranked
    BY <2>3 DEF AnswerReranked, ExploredIsBest
  <2>4. CASE answer'.kind \notin {"policy", "explore"}
    BY <2>4 DEF ExploredIsBest
  <2> QED BY <2>1, <2>2, <2>3, <2>4, AnswerFrame
<1> QED BY <1>1, <1>2, CallCorrect, MergedCorrect, PTL DEF Spec

-----------------------------------------------------------------------------
(* What is typed *)

\* The keystrokes of a profile for one line of a job.
LineSteps(profile, line, item, source) ==
    FlattenSeq([n \in DOMAIN profile |-> Rendered(profile[n], line, item, source)])

\* All of them are for that line and of its code, and a profile with a step
\* that asks for nothing types something.
LEMMA StepsAreOfTheLine ==
    ASSUME NEW profile, profile \in Seq(Elements(profile)), NEW line, NEW item, NEW source,
           NEW steps, steps = LineSteps(profile, line, item, source)
    PROVE  /\ steps \in Seq(Elements(steps))
           /\ \A k \in DOMAIN steps : steps[k].line = line /\ steps[k].code = item.code
           /\ (\E n \in DOMAIN profile : profile[n].kind # "text" /\ profile[n].when # "has_quantity")
              => steps # <<>>
<1> DEFINE Of(n) == Rendered(profile[n], line, item, source)
           pieces == [n \in DOMAIN profile |-> Of(n)]
           S == UNION {Elements(Of(n)) : n \in DOMAIN profile}
<1>1. DOMAIN profile = 1..Len(profile) /\ Len(profile) \in Nat
  OBVIOUS
<1>2. ASSUME NEW n \in DOMAIN profile
      PROVE  /\ Of(n) \in Seq(Elements(Of(n)))
             /\ \A c \in Elements(Of(n)) : c.line = line /\ c.code = item.code
             /\ profile[n].kind # "text" /\ profile[n].when # "has_quantity" => 1 \in DOMAIN Of(n)
  <2> DEFINE text == CASE profile[n].text = "category" -> item.category
                       [] profile[n].text = "selector" -> item.selector
                       [] profile[n].text = "quantity" -> source.quantity
                       [] OTHER -> ""
             c == [kind |-> profile[n].kind, text |-> text, key |-> profile[n].key,
                   line |-> line, code |-> item.code]
  <2>1. /\ Of(n) \in {<<>>, <<c>>}
        /\ profile[n].kind # "text" /\ profile[n].when # "has_quantity" => Of(n) = <<c>>
    BY DEF Rendered
  <2>2. c.line = line /\ c.code = item.code
    OBVIOUS
  <2> HIDE DEF c, Of
  <2>3. Elements(<<>>) = {} /\ Elements(<<c>>) = {c} /\ 1 \in DOMAIN <<c>>
    BY DEF Elements
  <2>4. <<>> \in Seq({}) /\ <<c>> \in Seq({c})
    OBVIOUS
  <2> QED BY <2>1, <2>2, <2>3, <2>4
<1>3. pieces \in Seq(Seq(S))
  <2> HIDE DEF Of
  <2>1. \A n \in DOMAIN profile : Of(n) \in Seq(Elements(Of(n))) /\ Elements(Of(n)) \subseteq S
    BY <1>2
  <2> HIDE DEF S
  <2>2. \A n \in DOMAIN profile : Of(n) \in Seq(S)
    BY <2>1
  <2>3. pieces \in [1..Len(profile) -> Seq(S)]
    BY <1>1, <2>2
  <2> HIDE DEF pieces
  <2> QED BY <1>1, <2>3
<1>4. \A c \in S : c.line = line /\ c.code = item.code
  <2> HIDE DEF Of
  <2> QED BY <1>2
<1>5. steps = FlattenSeq(pieces)
  BY DEF LineSteps
<1> HIDE DEF S
<1>6. steps \in Seq(S) /\ \E start : Pieces(start, pieces, steps)
  <2> HIDE DEF pieces
  <2> QED BY <1>3, <1>5, FlattenHasPieces
<1>7. steps \in Seq(Elements(steps))
  <2>1. steps \in [1..Len(steps) -> Elements(steps)] /\ Len(steps) \in Nat
    BY <1>6 DEF Elements
  <2> QED BY <2>1
<1>8. \A k \in DOMAIN steps : steps[k] \in S
  BY <1>6
<1>9. ASSUME NEW n \in DOMAIN profile, profile[n].kind # "text", profile[n].when # "has_quantity"
      PROVE  steps # <<>>
  <2>1. PICK start : Pieces(start, pieces, steps)
    BY <1>6
  <2>2. n \in DOMAIN pieces /\ 1 \in DOMAIN pieces[n]
    BY <1>2, <1>9
  <2> HIDE DEF pieces
  <2>3. start[n] + 1 \in DOMAIN steps
    BY <2>1, <2>2 DEF Pieces
  <2> QED BY <2>3
<1> QED BY <1>4, <1>7, <1>8, <1>9

\* What is planned for a source is decided, or waits for somebody.
IsDecided(source, plan) ==
    /\ plan.candidates # <<>> /\ plan.approved = <<plan.candidates[1]>>
    /\ \/ source.type = "note"
       \/ IF source.approved # NoCode THEN plan.candidates[1].item.code = source.approved
          ELSE MayApprove(source, plan.candidates[1])
IsPlanned(source, plan) ==
    plan.status \in {"unresolved", "needs_review"} \/ IsDecided(source, plan)

\* A profile that types something for every line.
TypesSomething(profile) ==
    \E n \in DOMAIN profile : profile[n].kind # "text" /\ profile[n].when # "has_quantity"

LinesOf(sources, items) ==
    [i \in DOMAIN items |->
        IF items[i].approved = <<>> THEN <<>>
        ELSE LineSteps(IF sources[i].type = "note" THEN NoteProfile ELSE Profile,
                       i, items[i].approved[1].item, sources[i])]

\* What is compiled: the steps before and after the job are for no line, and
\* those between them follow the job.
LEMMA CompiledIs ==
    ASSUME NEW sources, NEW items
    PROVE  \E first, last :
              /\ first \in Seq(Elements(first)) /\ \A k \in DOMAIN first : first[k].line = 0
              /\ last \in Seq(Elements(last)) /\ \A k \in DOMAIN last : last[k].line = 0
              /\ Compile(sources, items) = first \o FlattenSeq(LinesOf(sources, items)) \o last
<1> DEFINE nothing == [code |-> NoCode, category |-> "", selector |-> ""]
           unknown == [quantity |-> ""]
           first == LineSteps(BeforeAll, 0, nothing, unknown)
           last == LineSteps(AfterAll, 0, nothing, unknown)
<1>1. Compile(sources, items) = first \o FlattenSeq(LinesOf(sources, items)) \o last
  BY DEF Compile, LineSteps, LinesOf
<1> HIDE DEF nothing, unknown
<1>2. BeforeAll \in Seq(Elements(BeforeAll)) /\ AfterAll \in Seq(Elements(AfterAll))
  BY ProfilesAssumption
<1>3. /\ first = LineSteps(BeforeAll, 0, nothing, unknown)
      /\ last = LineSteps(AfterAll, 0, nothing, unknown)
  OBVIOUS
<1> HIDE DEF first, last
<1>4. first \in Seq(Elements(first)) /\ \A k \in DOMAIN first : first[k].line = 0
  BY <1>2, <1>3, StepsAreOfTheLine
<1>5. last \in Seq(Elements(last)) /\ \A k \in DOMAIN last : last[k].line = 0
  BY <1>2, <1>3, StepsAreOfTheLine
<1> QED BY <1>1, <1>4, <1>5

\* lines are the keystrokes for each of the items, all of them for the best
\* candidate, and none is left out.
LineByLine(sources, items, lines) ==
    /\ lines \in Seq(Seq(UNION {Elements(lines[i]) : i \in DOMAIN lines}))
    /\ DOMAIN lines = DOMAIN items
    /\ \A i \in DOMAIN lines : \A k \in DOMAIN lines[i] :
          /\ lines[i][k].line = i
          /\ lines[i][k].code = items[i].candidates[1].item.code
    /\ \A i \in DOMAIN lines : sources[i].type # "note" => 1 \in DOMAIN lines[i]

\* The lines of a decided job, one by one.
LEMMA LinesAreDecided ==
    ASSUME TypesSomething(Profile), NEW sources, NEW items, items \in Seq(Elements(items)),
           \A i \in DOMAIN items : IsDecided(sources[i], items[i]),
           NEW lines, lines = LinesOf(sources, items)
    PROVE  LineByLine(sources, items, lines)
<1>1. DOMAIN lines = DOMAIN items /\ DOMAIN items = 1..Len(items) /\ Len(items) \in Nat
  BY DEF LinesOf
<1>2. ASSUME NEW i \in DOMAIN items
      PROVE  /\ lines[i] \in Seq(Elements(lines[i]))
             /\ \A k \in DOMAIN lines[i] :
                   /\ lines[i][k].line = i
                   /\ lines[i][k].code = items[i].candidates[1].item.code
             /\ sources[i].type # "note" => 1 \in DOMAIN lines[i]
  <2> DEFINE profile == IF sources[i].type = "note" THEN NoteProfile ELSE Profile
             item == items[i].approved[1].item
  <2>1. items[i].approved = <<items[i].candidates[1]>>
    BY DEF IsDecided
  <2>2. items[i].approved # <<>> /\ item = items[i].candidates[1].item
    BY <2>1
  <2>3. lines[i] = LineSteps(profile, i, item, sources[i])
    BY <2>2 DEF LinesOf
  <2>4. /\ profile \in Seq(Elements(profile))
        /\ sources[i].type # "note" =>
              \E n \in DOMAIN profile : profile[n].kind # "text" /\ profile[n].when # "has_quantity"
    BY ProfilesAssumption DEF TypesSomething
  <2> HIDE DEF profile, item
  <2>5. /\ lines[i] \in Seq(Elements(lines[i]))
        /\ \A k \in DOMAIN lines[i] : lines[i][k].line = i /\ lines[i][k].code = item.code
        /\ sources[i].type # "note" => lines[i] # <<>>
    BY <2>3, <2>4, StepsAreOfTheLine
  <2>6. lines[i] # <<>> => 1 \in DOMAIN lines[i]
    BY <2>5
  <2> QED BY <2>2, <2>5, <2>6
<1> DEFINE S == UNION {Elements(lines[i]) : i \in DOMAIN lines}
<1>3. lines \in Seq(Seq(S))
  <2>1. \A i \in DOMAIN items : Elements(lines[i]) \subseteq S
    BY <1>1
  <2> HIDE DEF S
  <2>2. \A i \in DOMAIN items : lines[i] \in Seq(S)
    BY <1>2, <2>1
  <2>3. lines = [i \in 1..Len(items) |-> lines[i]]
    BY <1>1 DEF LinesOf
  <2>4. lines \in [1..Len(items) -> Seq(S)]
    BY <1>1, <2>2, <2>3
  <2> QED BY <1>1, <2>4
<1> QED BY <1>1, <1>2, <1>3 DEF LineByLine

\* What JobIsDecided says of what was published last.
JobDecided(sources, items, commands) ==
    LET Decided(i, code) ==
            LET source == sources[i]
                list == items[i].candidates
            IN  /\ list # <<>>
                /\ code = list[1].item.code
                /\ \/ source.type = "note"
                   \/ IF source.approved # NoCode THEN code = source.approved
                      ELSE MayApprove(source, list[1])
        lines == {n \in DOMAIN commands : commands[n].line # 0}
    IN  /\ \A i \in DOMAIN sources :
              sources[i].type # "note" => \E n \in lines : commands[n].line = i
        /\ \A n \in lines : Decided(commands[n].line, commands[n].code)
        /\ \A m, n \in lines : m <= n => commands[m].line <= commands[n].line

\* Where the keystrokes for a line stand among all of them.
InJob(items, lines, start, commands, before) ==
    /\ before \in Nat
    /\ \A i \in DOMAIN lines : \A k \in DOMAIN lines[i] :
          /\ start[i] \in Nat /\ k \in Nat
          /\ before + (start[i] + k) \in DOMAIN commands
          /\ commands[before + (start[i] + k)].line = i
          /\ commands[before + (start[i] + k)].code = items[i].candidates[1].item.code
    /\ \A n \in DOMAIN commands :
          \/ commands[n].line = 0
          \/ \E i \in DOMAIN lines : \E k \in DOMAIN lines[i] : n = before + (start[i] + k)

\* Each line of a job has its place among the commands.
LEMMA JobIsInPlace ==
    ASSUME TypesSomething(Profile), NEW sources, NEW items, items \in Seq(Elements(items)),
           \A i \in DOMAIN items : IsDecided(sources[i], items[i]),
           NEW commands, commands = Compile(sources, items)
    PROVE  \E start, before :
              /\ Pieces(start, LinesOf(sources, items), FlattenSeq(LinesOf(sources, items)))
              /\ InJob(items, LinesOf(sources, items), start, commands, before)
<1> DEFINE lines == LinesOf(sources, items)
           S == UNION {Elements(lines[i]) : i \in DOMAIN lines}
           body == FlattenSeq(lines)
<1>0. lines = LinesOf(sources, items)
  OBVIOUS
<1> HIDE DEF lines
<1>1. /\ lines \in Seq(Seq(S))
      /\ DOMAIN lines = DOMAIN items
      /\ \A i \in DOMAIN lines : \A k \in DOMAIN lines[i] :
            /\ lines[i][k].line = i
            /\ lines[i][k].code = items[i].candidates[1].item.code
  <2>1. LineByLine(sources, items, lines)
    BY <1>0, LinesAreDecided
  <2> QED BY <2>1 DEF LineByLine
<1>2. PICK first, last :
         /\ first \in Seq(Elements(first)) /\ \A k \in DOMAIN first : first[k].line = 0
         /\ last \in Seq(Elements(last)) /\ \A k \in DOMAIN last : last[k].line = 0
         /\ commands = (first \o body) \o last
  BY <1>0, CompiledIs
<1> HIDE DEF S, body
<1>3. body \in Seq(S) /\ \E start : Pieces(start, lines, body)
  BY <1>1, FlattenHasPieces DEF body
<1>4. PICK start : Pieces(start, lines, body)
  BY <1>3
<1> DEFINE T == Elements(first) \union S \union Elements(last)
           before == Len(first)
<1>5. first \in Seq(T) /\ body \in Seq(T) /\ last \in Seq(T)
  <2>1. Elements(first) \subseteq T /\ S \subseteq T /\ Elements(last) \subseteq T
    OBVIOUS
  <2> HIDE DEF T
  <2> QED BY <1>2, <1>3, <2>1
<1> HIDE DEF T
<1>6. IsJoin(first \o body, first, body) /\ first \o body \in Seq(T)
  BY <1>5, Joined
<1>7. IsJoin(commands, first \o body, last) /\ commands \in Seq(T)
  BY <1>2, <1>5, <1>6, Joined
<1>8. Len(first) \in Nat /\ Len(body) \in Nat /\ Len(last) \in Nat
  BY <1>5
<1>9. /\ DOMAIN first = 1..Len(first) /\ DOMAIN body = 1..Len(body) /\ DOMAIN last = 1..Len(last)
      /\ DOMAIN commands = 1..Len(commands)
  BY <1>5, <1>7
<1>10. /\ Len(commands) = Len(first) + Len(body) + Len(last)
       /\ Len(first \o body) = Len(first) + Len(body)
  BY <1>6, <1>7 DEF IsJoin
<1>11. \A n \in 1..Len(first) : commands[n] = first[n]
  BY <1>6, <1>7, <1>8, <1>10 DEF IsJoin
<1>12. \A n \in 1..Len(body) : commands[Len(first) + n] = body[n]
  <2> SUFFICES ASSUME NEW n \in 1..Len(body) PROVE commands[Len(first) + n] = body[n]
    OBVIOUS
  <2>1. Len(first) + n \in 1..(Len(first) + Len(body))
    BY <1>8
  <2> QED BY <1>6, <1>7, <1>10, <2>1 DEF IsJoin
<1>13. \A n \in 1..Len(last) : commands[Len(first) + Len(body) + n] = last[n]
  BY <1>7, <1>10 DEF IsJoin
<1>14. ASSUME NEW i \in DOMAIN lines, NEW k \in DOMAIN lines[i]
       PROVE  /\ start[i] \in Nat /\ k \in Nat
              /\ before + (start[i] + k) \in DOMAIN commands
              /\ commands[before + (start[i] + k)].line = i
              /\ commands[before + (start[i] + k)].code = items[i].candidates[1].item.code
  <2>1. start[i] + k \in DOMAIN body /\ body[start[i] + k] = lines[i][k]
    BY <1>4 DEF Pieces
  <2>2. DOMAIN lines = 1..Len(lines) /\ start \in [1..(Len(lines) + 1) -> Nat] /\ Len(lines) \in Nat
    BY <1>1, <1>4 DEF Pieces
  <2>3. start[i] \in Nat
    BY <2>2
  <2>4. k \in Nat
    <3>1. lines[i] \in Seq(S)
      BY <1>1, <2>2
    <3> QED BY <3>1
  <2>5. commands[before + (start[i] + k)] = lines[i][k]
    BY <1>9, <1>12, <2>1
  <2>6. before + (start[i] + k) \in DOMAIN commands
    BY <1>8, <1>9, <1>10, <2>1
  <2> QED BY <1>1, <2>3, <2>4, <2>5, <2>6
<1>15. ASSUME NEW n \in DOMAIN commands, commands[n].line # 0
       PROVE  \E i \in DOMAIN lines : \E k \in DOMAIN lines[i] : n = before + (start[i] + k)
  <2>1. n \notin 1..Len(first)
    BY <1>2, <1>9, <1>11, <1>15
  <2>2. n - Len(first) \in 1..Len(body)
    <3>1. ASSUME n - Len(first) - Len(body) \in 1..Len(last) PROVE FALSE
      <4> DEFINE l == n - Len(first) - Len(body)
      <4>1. n = Len(first) + Len(body) + l
        BY <1>8, <1>9
      <4> HIDE DEF l
      <4>2. commands[n] = last[l]
        BY <1>13, <3>1, <4>1 DEF l
      <4> QED BY <1>2, <1>9, <1>15, <3>1, <4>2 DEF l
    <3> QED BY <1>8, <1>9, <1>10, <2>1, <3>1
  <2>3. PICK i \in DOMAIN lines : \E k \in DOMAIN lines[i] : n - Len(first) = start[i] + k
    BY <1>4, <1>9, <2>2 DEF Pieces
  <2>4. PICK k \in DOMAIN lines[i] : n - Len(first) = start[i] + k
    BY <2>3
  <2>5. n = Len(first) + (start[i] + k)
    <3>1. n \in Nat /\ start[i] \in Nat /\ k \in Nat
      BY <1>9, <1>14
    <3> QED BY <1>8, <2>4, <3>1
  <2> QED BY <2>5
<1>16. InJob(items, lines, start, commands, before)
  BY <1>8, <1>14, <1>15 DEF InJob
<1> QED BY <1>4, <1>16 DEF lines, body

\* A job whose items are decided is compiled to what was decided.
LEMMA CompiledIsDecided ==
    ASSUME TypesSomething(Profile),
           NEW sources, NEW items, sources \in Seq(Elements(sources)), items \in Seq(Elements(items)),
           Len(items) = Len(sources),
           \A i \in DOMAIN items : IsDecided(sources[i], items[i])
    PROVE  JobDecided(sources, items, Compile(sources, items))
<1> DEFINE commands == Compile(sources, items)
           lines == LinesOf(sources, items)
<1>1. PICK start, before : /\ Pieces(start, lines, FlattenSeq(lines))
                           /\ InJob(items, lines, start, commands, before)
  BY JobIsInPlace
<1>0. lines = LinesOf(sources, items)
  OBVIOUS
<1> HIDE DEF commands, lines
<1> DEFINE S == UNION {Elements(lines[o]) : o \in DOMAIN lines}
<1>7. /\ lines \in Seq(Seq(S))
      /\ DOMAIN lines = DOMAIN items
      /\ \A i \in DOMAIN lines : sources[i].type # "note" => 1 \in DOMAIN lines[i]
  <2>1. LineByLine(sources, items, lines)
    BY <1>0, LinesAreDecided
  <2> QED BY <2>1 DEF LineByLine
<1> HIDE DEF S
<1>2. /\ DOMAIN lines = DOMAIN items /\ DOMAIN sources = DOMAIN items
      /\ DOMAIN items = 1..Len(items) /\ Len(items) \in Nat /\ Len(lines) = Len(items)
      /\ \A i \in DOMAIN lines : sources[i].type # "note" => 1 \in DOMAIN lines[i]
  BY <1>7
<1>3. ASSUME NEW i \in DOMAIN sources, sources[i].type # "note"
      PROVE  \E n \in {m \in DOMAIN commands : commands[m].line # 0} : commands[n].line = i
  <2>1. /\ before + (start[i] + 1) \in DOMAIN commands
        /\ commands[before + (start[i] + 1)].line = i
    BY <1>1, <1>2, <1>3 DEF InJob
  <2>2. i # 0
    BY <1>2
  <2> QED BY <2>1, <2>2
<1>4. ASSUME NEW n \in DOMAIN commands, commands[n].line # 0
      PROVE  \E i \in DOMAIN items, k \in Nat :
                /\ n = before + (start[i] + k) /\ k \in DOMAIN lines[i]
                /\ commands[n].line = i
                /\ commands[n].code = items[i].candidates[1].item.code
  <2>1. PICK i \in DOMAIN lines : \E k \in DOMAIN lines[i] : n = before + (start[i] + k)
    BY <1>1, <1>4 DEF InJob
  <2>2. PICK k \in DOMAIN lines[i] : n = before + (start[i] + k)
    BY <2>1
  <2> QED BY <1>1, <1>2, <2>2 DEF InJob
<1>5. ASSUME NEW m \in DOMAIN commands, commands[m].line # 0,
             NEW n \in DOMAIN commands, commands[n].line # 0, m <= n
      PROVE  commands[m].line <= commands[n].line
  <2>1. PICK i \in DOMAIN items, k \in Nat :
           m = before + (start[i] + k) /\ k \in DOMAIN lines[i] /\ commands[m].line = i
    BY <1>4, <1>5
  <2>2. PICK j \in DOMAIN items, l \in Nat :
           n = before + (start[j] + l) /\ l \in DOMAIN lines[j] /\ commands[n].line = j
    BY <1>4, <1>5
  <2>3. i \in Nat /\ j \in Nat
    BY <1>2
  <2>4. ASSUME j < i PROVE FALSE
    <3>1. start[j] + Len(lines[j]) <= start[i] /\ start[i] \in Nat /\ start[j] \in Nat /\ before \in Nat
      BY <1>1, <1>2, <2>1, <2>2, <2>4 DEF Pieces, InJob
    <3>2. l <= Len(lines[j]) /\ Len(lines[j]) \in Nat /\ k >= 1
      <4>1. lines[i] \in Seq(S) /\ lines[j] \in Seq(S)
        BY <1>2, <1>7
      <4> QED BY <2>1, <2>2, <4>1
    <3>3. \A b, p, q, x, y, w \in Nat :
             /\ p + w <= q /\ y <= w /\ x >= 1
             => ~(b + (q + x) <= b + (p + y))
      OBVIOUS
    <3> QED BY <1>5, <2>1, <2>2, <3>1, <3>2, <3>3
  <2> QED BY <2>1, <2>2, <2>3, <2>4
<1>6. ASSUME NEW n \in DOMAIN commands, commands[n].line # 0
      PROVE  LET i == commands[n].line
                 list == items[i].candidates
             IN  /\ list # <<>>
                 /\ commands[n].code = list[1].item.code
                 /\ \/ sources[i].type = "note"
                    \/ IF sources[i].approved # NoCode THEN commands[n].code = sources[i].approved
                       ELSE MayApprove(sources[i], list[1])
  <2>1. PICK i \in DOMAIN items :
           commands[n].line = i /\ commands[n].code = items[i].candidates[1].item.code
    BY <1>4, <1>6
  <2>2. IsDecided(sources[i], items[i])
    OBVIOUS
  <2> QED BY <2>1, <2>2 DEF IsDecided
<1> QED BY <1>3, <1>5, <1>6 DEF JobDecided, commands

CellsHoldNoTab ==
    \A raw \in Exports : \A row \in Elements(raw) :
        \A f \in {"cat", "sel", "cat_sel", "quantity"} : HoldsNoTab(row[f])

\* What is planned belongs to its source, and a search is for a source that has
\* no code yet.
DecidedInv ==
    /\ \A i \in DOMAIN planned : IsPlanned(job[i], planned[i])
    /\ at = "plan" /\ find # NoSearch => Source.type # "note" /\ Source.approved = NoCode

\* What is planned was decided, item by item, until the job is published.
LEMMA DecidedCorrect == Spec => []DecidedInv
<1>1. Init => DecidedInv
  BY DEF Init, DecidedInv
<1>2. DatabaseInv /\ ControlInv /\ PlanInv /\ DecidedInv /\ [Next]_vars => DecidedInv'
  <2> SUFFICES ASSUME DatabaseInv, ControlInv, PlanInv, DecidedInv, [Next]_vars PROVE DecidedInv'
    OBVIOUS
  <2>1. CASE UNCHANGED vars
    BY <2>1 DEF DecidedInv, Source, vars, control_vars, job_vars
  <2>2. ASSUME NEW items, StartPublish(items) PROVE DecidedInv'
    <3>1. at = "idle" /\ UNCHANGED <<find, planned>>
      BY <2>2 DEF StartPublish
    <3>2. planned = <<>> /\ find = NoSearch
      BY <3>1 DEF PlanInv, ControlInv
    <3> QED BY <3>1, <3>2 DEF DecidedInv
  <2>3. ASSUME NEW p, Plan(p), IsPlanned(Source, p) PROVE DecidedInv'
    <3>1. planned' = Append(planned, p) /\ find' = NoSearch /\ job' = job
      BY <2>3 DEF Plan
    <3>2. /\ DOMAIN planned = 1..Len(planned) /\ Len(planned) \in Nat
          /\ DOMAIN planned' = 1..(Len(planned) + 1)
          /\ \A i \in DOMAIN planned : planned'[i] = planned[i]
          /\ planned'[Len(planned) + 1] = p
      <4>1. planned \in Seq(Elements(planned))
        BY DEF PlanInv
      <4> QED BY <3>1, <4>1
    <3>3. ASSUME NEW i \in DOMAIN planned' PROVE IsPlanned(job[i], planned'[i])
      <4>1. CASE i \in DOMAIN planned
        BY <3>2, <4>1 DEF DecidedInv
      <4>2. CASE i = Len(planned) + 1
        BY <2>3, <3>2, <4>2 DEF Source
      <4> QED BY <3>2, <4>1, <4>2
    <3> QED BY <3>1, <3>3 DEF DecidedInv
  <2>4. CASE PlanNote
    <3> DEFINE p == Planned(<<Fixed(NoteItem)>>, <<Fixed(NoteItem)>>, "approved")
    <3>1. Plan(p) /\ Source.type = "note"
      BY <2>4 DEF PlanNote
    <3>2. p.candidates = <<Fixed(NoteItem)>> /\ p.approved = <<Fixed(NoteItem)>>
      BY DEF Planned
    <3> HIDE DEF p
    <3>3. p.candidates[1] = Fixed(NoteItem) /\ p.candidates # <<>>
      BY <3>2
    <3> QED BY <2>3, <3>1, <3>2, <3>3 DEF IsPlanned, IsDecided
  <2>5. CASE PlanApproved
    <3>1. Source.type # "note" /\ Source.approved # NoCode
      BY <2>5 DEF PlanApproved
    <3>2. CASE Plan(Planned(<<>>, <<>>, "unresolved"))
      <4>1. Planned(<<>>, <<>>, "unresolved").status = "unresolved"
        BY DEF Planned
      <4> QED BY <2>3, <3>2, <4>1 DEF IsPlanned
    <3>3. ASSUME database # NoFile, NEW item \in GetItem(database, Source.approved),
                 Plan(Planned(<<Fixed(item)>>, <<Fixed(item)>>, "approved"))
          PROVE  DecidedInv'
      <4> DEFINE p == Planned(<<Fixed(item)>>, <<Fixed(item)>>, "approved")
      <4>1. item.code = Source.approved
        <5>1. PICK s \in {x \in Sources(database) : x.item.code \in {Source.approved}} : item = s.item
          BY DEF GetItem, ItemRows
        <5> QED BY <5>1
      <4>2. Plan(p) /\ p.candidates = <<Fixed(item)>> /\ p.approved = <<Fixed(item)>>
        BY <3>3 DEF Planned
      <4>3. Fixed(item).item = item
        BY DEF Fixed
      <4> HIDE DEF p
      <4>4. p.candidates[1] = Fixed(item) /\ p.candidates # <<>>
        BY <4>2
      <4> QED BY <2>3, <3>1, <4>1, <4>2, <4>3, <4>4 DEF IsPlanned, IsDecided
    <3> QED BY <2>5, <3>2, <3>3 DEF PlanApproved
  <2>6. CASE PlanFound
    <3> DEFINE p == Resolve(Source, find.list)
    <3>1. at = "plan" /\ find # NoSearch /\ Plan(p)
      BY <2>6 DEF PlanFound, NoSearch
    <3>2. Source.type # "note" /\ Source.approved = NoCode
      BY <3>1 DEF DecidedInv
    <3>3. \/ p = Planned(find.list, <<>>, "unresolved")
          \/ p = Planned(find.list, <<>>, "needs_review")
          \/ /\ find.list # <<>> /\ MayApprove(Source, find.list[1])
             /\ p = Planned(find.list, <<find.list[1]>>, "approved")
      BY DEF Resolve
    <3> HIDE DEF p
    <3>4. IsPlanned(Source, p)
      BY <3>2, <3>3 DEF Planned, IsPlanned, IsDecided
    <3> QED BY <2>3, <3>1, <3>4
  <2>7. CASE PlanFails \/ Publish
    BY <2>7 DEF PlanFails, Publish, DecidedInv
  <2>8. CASE UNCHANGED <<at, find, planned, job>>
    BY <2>8 DEF DecidedInv, Source
  <2>9. CASE /\ UNCHANGED job_vars
             /\ at' = "plan" <=> at = "plan"
             /\ at = "plan" /\ find = NoSearch /\ find' # NoSearch => PlanSearch
    BY <2>9 DEF DecidedInv, Source, job_vars, PlanSearch
  <2>10. ASSUME NEW what, Send(what) PROVE DecidedInv'
    BY <2>10, <2>8 DEF Send
  <2> QED
    BY <2>1, <2>2, <2>4, <2>5, <2>6, <2>7, <2>9, <2>10, JobFrame DEF SendText, ExportRows
<1> QED BY <1>1, <1>2, DatabaseCorrect, ControlCorrect, PlanCorrect, PTL DEF Spec

\* A job that is published is decided in all of its items.
LEMMA JobsHaveTypes ==
    ASSUME PlanInv, DecidedInv, Publish, Publishable(planned)
    PROVE  /\ job \in Seq(Elements(job)) /\ planned \in Seq(Elements(planned))
           /\ Len(planned) = Len(job)
           /\ \A i \in DOMAIN planned : IsDecided(job[i], planned[i])
<1>1. at = "plan" /\ Len(planned) = Len(job)
  BY DEF Publish
<1>2. job \in Seq(Elements(job)) /\ planned \in Seq(Elements(planned))
  BY <1>1 DEF PlanInv, IsJob
<1>3. ASSUME NEW i \in DOMAIN planned PROVE IsDecided(job[i], planned[i])
  <2>1. planned[i].status \notin {"unresolved", "needs_review"}
    BY DEF Publishable
  <2>2. IsPlanned(job[i], planned[i])
    BY DEF DecidedInv
  <2> QED BY <2>1, <2>2 DEF IsPlanned
<1> QED BY <1>1, <1>2, <1>3

\* What was published was decided: of a job every item, in the order of the
\* job, and of the code that was approved or that may be taken for it; and the
\* keys of a text spell it, those of rows fill the grid with them (README:
\* "publish fails with a review plan instead of guessing"; service.py,
\* direct_output.py, estimate_export.py).
THEOREM WhatIsTypedWasDecided ==
    ASSUME TypesSomething(Profile), CellsHoldNoTab
    PROVE  Spec => []TypedIsDecided
<1>1. Init => TypedIsDecided
  BY DEF Init, TypedIsDecided, NothingTyped
<1>2. PlanInv /\ DecidedInv /\ TypedIsDecided /\ [Next]_vars => TypedIsDecided'
  <2> SUFFICES ASSUME PlanInv, DecidedInv, TypedIsDecided, [Next]_vars PROVE TypedIsDecided'
    OBVIOUS
  <2>1. CASE UNCHANGED typed
    BY <2>1 DEF TypedIsDecided, JobIsDecided, TextIsSpelled, RowsFillTheGrid
  <2>2. CASE Publish
    <3> DEFINE commands == Compile(job, planned)
    <3>1. \/ UNCHANGED typed
          \/ /\ Publishable(planned)
             /\ typed' = [kind |-> "job", job |-> job, planned |-> planned, commands |-> commands]
      BY <2>2 DEF Publish
    <3>2. ASSUME Publishable(planned),
                 typed' = [kind |-> "job", job |-> job, planned |-> planned, commands |-> commands]
          PROVE  TypedIsDecided'
      <4>1. JobDecided(job, planned, commands)
        BY <2>2, <3>2, JobsHaveTypes, CompiledIsDecided
      <4> HIDE DEF commands
      <4>2. /\ typed'.kind = "job" /\ typed'.job = job /\ typed'.planned = planned
            /\ typed'.commands = commands
        BY <3>2
      <4>3. JobIsDecided' <=> JobDecided(typed'.job, typed'.planned, typed'.commands)
        BY DEF JobIsDecided, JobDecided
      <4> QED BY <4>1, <4>2, <4>3 DEF TypedIsDecided
    <3> QED BY <2>1, <3>1, <3>2
  <2>3. ASSUME NEW text \in Texts, NEW append_enter \in BOOLEAN, SendText(text, append_enter)
        PROVE  TypedIsDecided'
    <3> DEFINE normal == NormalizeText(text)
               commands == TextCommands(normal, append_enter)
    <3>1. typed' = [kind |-> "text", text |-> normal, append_enter |-> append_enter,
                    commands |-> commands]
      BY <2>3 DEF SendText, Send
    <3>2. IsPlain(normal)
      BY TextsAssumption, NormalizedIsPlain
    <3> HIDE DEF normal
    <3>3. Spelled(Tail(commands)) = normal \o (IF append_enter THEN <<LineFeed>> ELSE <<>>)
      BY <3>2, TextIsTyped
    <3> HIDE DEF commands
    <3>4. /\ typed'.kind = "text" /\ typed'.text = normal /\ typed'.append_enter = append_enter
          /\ typed'.commands = commands
      BY <3>1
    <3> QED BY <3>3, <3>4 DEF TypedIsDecided, TextIsSpelled
  <2>4. ASSUME NEW raw \in Exports, ExportRows(raw) PROVE TypedIsDecided'
    <3> DEFINE rows == [i \in DOMAIN raw |-> ExportRow(raw[i])]
               commands == RowCommands(rows)
    <3>1. typed' = [kind |-> "rows", rows |-> rows, commands |-> commands]
      BY <2>4 DEF ExportRows, Send
    <3>2. raw \in Seq(Elements(raw))
      BY TextsAssumption
    <3>3. ASSUME NEW i \in DOMAIN raw PROVE IsRow(ExportRow(raw[i]))
      <4>1. raw[i] \in Elements(raw)
        BY DEF Elements
      <4>2. \A f \in {"cat", "sel", "cat_sel", "quantity"} : IsCell(raw[i][f])
        BY <4>1, TextsAssumption DEF CellsHoldNoTab, IsCell
      <4>3. IsCell(raw[i].cat) /\ IsCell(raw[i].sel) /\ IsCell(raw[i].cat_sel) /\ IsCell(raw[i].quantity)
        BY <4>2
      <4> QED BY <4>3, ExportedIsRow
    <3>4. rows \in Seq(Elements(rows)) /\ \A i \in DOMAIN rows : IsRow(rows[i])
      <4>1. rows \in [1..Len(raw) -> Elements(rows)] /\ Len(raw) \in Nat
        BY <3>2 DEF Elements
      <4>2. \A i \in DOMAIN rows : IsRow(rows[i])
        BY <3>3
      <4> HIDE DEF rows
      <4> QED BY <4>1, <4>2
    <3>5. commands = RowCommands(rows)
      OBVIOUS
    <3> HIDE DEF rows, commands
    <3>6. /\ \A i \in DOMAIN rows : /\ IsFilled(commands, <<i, 1>>, rows[i].cat)
                                    /\ IsFilled(commands, <<i, 2>>, rows[i].sel)
                                    /\ IsFilled(commands, <<i, 3>>, rows[i].quantity)
          /\ CellOf(commands, Len(commands) + 1) = <<Len(rows) + 1, 1>>
      BY <3>4, <3>5, RowsAreTyped
    <3>7. typed'.kind = "rows" /\ typed'.rows = rows /\ typed'.commands = commands
      BY <3>1
    <3> QED BY <3>6, <3>7 DEF TypedIsDecided, RowsFillTheGrid
  <2>5. CASE \/ PlanNote \/ PlanApproved \/ PlanFound \/ PlanFails
             \/ \E items : StartPublish(items)
    BY <2>1, <2>5 DEF PlanNote, PlanApproved, PlanFound, Plan, PlanFails, StartPublish
  <2> QED BY <2>1, <2>2, <2>3, <2>4, <2>5, JobFrame DEF vars, job_vars
<1> QED BY <1>1, <1>2, PlanCorrect, DecidedCorrect, PTL DEF Spec
=============================================================================
