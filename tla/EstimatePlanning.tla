-------------------------- MODULE EstimatePlanning --------------------------
(***************************************************************************)
(* From a room's description to the keystrokes of an estimate: the room    *)
(* planner (workflow_agents.py) and the older draft agent                  *)
(* (openai_agent.py) search the catalogue through their tools and draft    *)
(* line items, a reviewer decides, and ProducerService (service.py) plans, *)
(* compiles and publishes the job, while the catalogue is rebuilt at any   *)
(* time.  The language model is whoever chooses the calls and the items.   *)
(*                                                                         *)
(* One client at a time uses the catalogue: clients only read it, so they  *)
(* do not disturb each other.  A request that is sent to the catalogue may *)
(* fail.  How turns and reviewers share a stored draft is DraftTurns, and  *)
(* how a compiled job reaches the queue is CommandPublisher.               *)
(***************************************************************************)
EXTENDS CatalogDatabase, PolicyRules, SearchStrategies, OutputCommands

CONSTANTS
    Words,                \* a text of a tool call -> its words
    Null,                 \* the null of JSON
    NoCode,               \* no code is given
    Calls,                \* calls of search_catalog_candidates
    Explorations,         \* calls of explore_line_item_search
    Task,                 \* the room's components and intents
    Jobs,                 \* estimate jobs that are sent to the service as such
    RecommendationLimit,  \* recommendation_limit of the configuration
    Profile,              \* per_item of the workflow profile
    NoteProfile,          \* note_item of the workflow profile
    BeforeAll, AfterAll,  \* before_all and after_all of the workflow profile
    Texts,                \* texts that are to be typed as they stand
    Exports,              \* requests to export rows: sequences of raw rows
    MaxTurns,             \* bound on the turns of an agent
    MaxCalls,             \* bound on the tool calls of a turn
    MaxItems,             \* bound on the items of the draft
    MaxJobs               \* bound on the publications

VARIABLES
    at,          \* what the client does
    agent,       \* "planner" or "legacy": who has the turn
    turns, calls, publications,  \* how many were begun
    find,        \* the request that the catalogue works on, or NoSearch
    call,        \* the arguments of the tool call under way
    candidates,  \* rerank_candidates' by_code
    todo,        \* preferred codes, or strategies, that are left
    merged,      \* what explore_strategies has put together
    explored,    \* history: the lists that were merged
    answer,      \* what the tool that was called last answered
    draft,       \* the items of the draft, in the order of their creation
    report,      \* the verification of the room
    job,         \* the job that is planned
    planned,     \* its planned items so far
    typed        \* what was published last: what it answers, and its commands

control_vars == <<at, agent, turns, calls, publications, database_vars>>
tool_vars == <<call, candidates, todo, merged, explored, answer>>
draft_vars == <<draft, report>>
job_vars == <<job, planned, typed>>
vars == <<control_vars, find, tool_vars, draft_vars, job_vars>>

AllCodes == UNION {CodesOf(Catalog[v]) : v \in Versions}
NoSearch == [at |-> "off"]
NoCall == [limit |-> 0]
NoAnswer == [kind |-> "none"]
NothingTyped == [kind |-> "none", commands |-> <<>>]
NoReport == [missing |-> {}, violations |-> {}, warnings |-> {}]
-----------------------------------------------------------------------------
\* Every argument of a tool call goes through str(), which turns the null that
\* the tool's schema allows into the text "None".
ToolText(value) == IF value = Null THEN "none" ELSE value
ToolLimit(limit) == IF limit \in {Null, 0} THEN 5 ELSE IF limit < 1 THEN 1 ELSE limit
OrElse(text, other) == IF text # "" THEN text ELSE other

\* search_catalog_candidates: the search that _run_tool makes of its arguments.
PlannerSurface(c) == OrElse(ToolText(c.surface), c.component)
PlannerQuery(c) ==
    [code |-> NoCode, damage |-> Words[c.intent],
     text |-> Words[c.intent] \union Words[ToolText(c.severity)]
                  \union Words[OrElse(c.component, PlannerSurface(c))],
     room |-> Words[ToolText(c.room)], surface |-> Words[PlannerSurface(c)],
     keywords |-> Words[ToolText(c.keywords)]]

\* _scope_item_from_tool_arguments; a strategy takes from the base what it
\* leaves empty.
ScopeQuery(scope) ==
    [code |-> scope.code, text |-> Words[ToolText(scope.text)],
     room |-> Words[ToolText(scope.room)], surface |-> Words[ToolText(scope.surface)],
     damage |-> Words[ToolText(scope.damage)], keywords |-> Words[ToolText(scope.keywords)]]
StrategyQuery(base, strategy) ==
    LET Field(f) == OrElse(ToolText(strategy[f]), ToolText(base[f]))
    IN  ScopeQuery([code |-> strategy.code, text |-> Field("text"), room |-> Field("room"),
                    surface |-> Field("surface"), damage |-> Field("damage"),
                    keywords |-> Field("keywords")])

-----------------------------------------------------------------------------
\* What the words of a text are is known of every text of a call or of a job.
IsLimit(limit) == limit = Null \/ limit \in Int
IsText(text) == ToolText(text) \in DOMAIN Words
IsScope(scope) ==
    \A f \in {"text", "room", "surface", "damage", "keywords"} : IsText(scope[f])

ASSUME WordsAssumption ==
    /\ "none" \in DOMAIN Words
    /\ \A text \in DOMAIN Words : IsFiniteSet(Words[text])
ASSUME CallsAssumption ==
    \A c \in Calls :
        /\ {c.intent, c.component} \subseteq DOMAIN Words
        /\ \A f \in {"severity", "surface", "room", "keywords"} : IsText(c[f])
        /\ IsLimit(c.limit)
ASSUME ExplorationsAssumption ==
    \A e \in Explorations :
        /\ IsScope(e.base) /\ IsLimit(e.base.limit)
        /\ e.strategies \in Seq(Elements(e.strategies))
        /\ \A strategy \in Elements(e.strategies) : IsScope(strategy)
ASSUME JobsAssumption ==
    \A items \in Jobs :
        /\ items \in Seq(Elements(items))
        /\ \A source \in Elements(items) :
              source.type # "note" /\ source.approved = NoCode => IsScope(source.scope)
ASSUME ProfilesAssumption ==
    \A profile \in {Profile, NoteProfile, BeforeAll, AfterAll} : profile \in Seq(Elements(profile))
ASSUME TextsAssumption ==
    /\ \A text \in Texts : IsPlain(text)
    /\ \A raw \in Exports :
          /\ raw \in Seq(Elements(raw))
          /\ \A row \in Elements(raw) :
                \A f \in {"cat", "sel", "cat_sel", "quantity"} : IsPlain(row[f])
ASSUME NoCodeAssumption == NoCode \notin AllCodes
ASSUME BoundsAssumption == {MaxTurns, MaxCalls, MaxItems, MaxJobs} \subseteq Nat

-----------------------------------------------------------------------------
\* POST /recommend; the model of the request allows limits from 1 to 20.
Ask(query, limit) ==
    IF limit \in 1..20
    THEN [at |-> "codes", query |-> query, limit |-> limit, codes |-> {},
          conn |-> NoFile, items |-> {}, list |-> <<>>]
    ELSE [at |-> "failed"]

\* RuntimeCatalogRepository.search, its two connections: the codes are
\* collected on one, items and scenarios are read on another.
SearchCodes ==
    /\ find.at = "codes"
    /\ database # NoFile
    /\ \E codes \in CandidateCodes(database, find.query) :
          find' = IF codes = {} THEN [find EXCEPT !.at = "done"]
                  ELSE [find EXCEPT !.at = "items", !.codes = codes]
    /\ UNCHANGED <<control_vars, tool_vars, draft_vars, job_vars>>

SearchItems ==
    /\ find.at = "items"
    /\ find' = [find EXCEPT !.at = "scenarios", !.conn = database,
                            !.items = ItemRows(database, find.codes)]
    /\ UNCHANGED <<control_vars, tool_vars, draft_vars, job_vars>>

\* Mutant of SearchScenarios: a connection of their own, as get_scenarios has.
SearchScenariosAfresh ==
    /\ find.at = "scenarios"
    /\ find' = [find EXCEPT !.at = "done",
                            !.list = Recommend(find.query,
                                               JoinScenarios(database, find.items), find.limit)]
    /\ UNCHANGED <<control_vars, tool_vars, draft_vars, job_vars>>

SearchScenarios ==
    /\ find.at = "scenarios"
    /\ find' = [find EXCEPT !.at = "done",
                            !.list = Recommend(find.query,
                                               JoinScenarios(find.conn, find.items), find.limit)]
    /\ UNCHANGED <<control_vars, tool_vars, draft_vars, job_vars>>

\* The request times out or is answered with an error.
SearchFails ==
    /\ find.at \in {"codes", "items", "scenarios"}
    /\ find' = [at |-> "failed"]
    /\ UNCHANGED <<control_vars, tool_vars, draft_vars, job_vars>>

Search == SearchCodes \/ SearchItems \/ SearchScenarios \/ SearchFails

-----------------------------------------------------------------------------
\* The loop of tool calls that both agents have: plan_room and apply_turn.
StartTurn(who) ==
    /\ at = "idle"
    /\ turns < MaxTurns
    /\ at' = "model"
    /\ agent' = who
    /\ turns' = turns + 1
    /\ calls' = 0
    /\ UNCHANGED <<publications, find, tool_vars, draft_vars, job_vars, database_vars>>

CallTool(place) ==
    /\ at = "model"
    /\ calls < MaxCalls
    /\ calls' = calls + 1
    /\ at' = place
    /\ UNCHANGED <<agent, turns, publications, draft_vars, job_vars, database_vars>>

\* Anything that raises ends the turn, and the draft stays as it was: a failed
\* request, and an answer of the model that is not what was asked for.
TurnFails ==
    /\ \/ at = "model"
       \/ at \in {"search", "explore"} /\ find.at = "failed"
    /\ at' = "idle"
    /\ find' = NoSearch
    /\ call' = NoCall
    /\ todo' = <<>>
    /\ merged' = NothingMerged
    /\ explored' = <<>>
    /\ answer' = NoAnswer
    /\ UNCHANGED <<agent, turns, calls, publications, candidates, draft_vars, job_vars,
                   database_vars>>

\* search_catalog_candidates and search_line_items
SearchTool(c) ==
    /\ agent = "planner"
    /\ CallTool("search")
    /\ call' = c
    /\ find' = Ask(PlannerQuery(c), ToolLimit(c.limit))
    /\ UNCHANGED <<candidates, todo, merged, explored, answer>>
SearchLineItems(scope) ==
    /\ agent = "legacy"
    /\ CallTool("search")
    /\ call' = scope
    /\ find' = Ask(ScopeQuery(scope), ToolLimit(scope.limit))
    /\ UNCHANGED <<candidates, todo, merged, explored, answer>>
AnswerSearch ==
    /\ at = "search"
    /\ agent = "legacy"
    /\ find.at = "done"
    /\ at' = "model"
    /\ answer' = [kind |-> "search", list |-> find.list]
    /\ call' = NoCall
    /\ find' = NoSearch
    /\ UNCHANGED <<agent, turns, calls, publications, candidates, todo, merged, explored,
                   draft_vars, job_vars, database_vars>>

\* The planner's tool passes what the search brings through the policy: first
\* the preferred codes that are missing are looked up, one request each, and
\* one that fails or finds nothing is passed over.
DefaultRule(c) == DefaultFor(c.component, c.intent, PlannerSurface(c), c.room_scope)
FallbackRule(c) == FallbackFor(c.component, c.intent, PlannerSurface(c))
Preferred(c) == PreferredCodes(DefaultRule(c), FallbackRule(c))

StartRerank ==
    /\ at = "search"
    /\ agent = "planner"
    /\ find.at = "done"
    /\ at' = "inject"
    /\ candidates' = Elements(find.list)
    /\ todo' = Preferred(call)
    /\ find' = NoSearch
    /\ UNCHANGED <<agent, turns, calls, publications, call, merged, explored, answer,
                   draft_vars, job_vars, database_vars>>

InjectPreferred ==
    /\ at = "inject"
    /\ todo # <<>>
    /\ \/ /\ \A c \in candidates : c.item.code # Head(todo)
          /\ \E item \in GetItem(database, Head(todo)) :
                candidates' = candidates \union {Injected(item)}
       \/ UNCHANGED candidates
    /\ todo' = Tail(todo)
    /\ UNCHANGED <<control_vars, find, call, merged, explored, answer, draft_vars, job_vars>>

AnswerReranked ==
    /\ at = "inject"
    /\ todo = <<>>
    /\ at' = "model"
    /\ answer' = [kind |-> "policy", call |-> call,
                  list |-> Cut(Rerank(candidates, Preferred(call), FallbackRule(call)),
                               ToolLimit(call.limit))]
    /\ candidates' = {}
    /\ call' = NoCall
    /\ UNCHANGED <<agent, turns, calls, publications, find, todo, merged, explored,
                   draft_vars, job_vars, database_vars>>

\* get_policy_defaults and get_allowed_fallbacks
AskPolicy(c) ==
    /\ agent = "planner"
    /\ CallTool("model")
    /\ LET surface == ToolText(c.surface)
       IN  answer' = [kind |-> "rules",
                      default |-> DefaultFor(c.component, c.intent, surface, c.room_scope),
                      fallback |-> FallbackFor(c.component, c.intent, surface)]
    /\ UNCHANGED <<find, call, candidates, todo, merged, explored>>

\* get_line_item: an unknown code raises.
GetLineItem(code) ==
    /\ agent = "legacy"
    /\ database # NoFile
    /\ \E item \in GetItem(database, code) :
          answer' = [kind |-> "item", item |-> item]
    /\ CallTool("model")
    /\ UNCHANGED <<find, call, candidates, todo, merged, explored>>

-----------------------------------------------------------------------------
\* explore_line_item_search: one search per strategy.
Explore(e) ==
    /\ agent = "legacy"
    /\ CallTool("explore")
    /\ call' = [base |-> e.base, limit |-> ToolLimit(e.base.limit)]
    /\ todo' = e.strategies
    /\ UNCHANGED <<find, candidates, merged, explored, answer>>

NextStrategy ==
    /\ at = "explore"
    /\ find = NoSearch
    /\ todo # <<>>
    /\ LET strategy == Head(todo)
           limit == IF strategy.limit \in {Null, 0} THEN call.limit ELSE ToolLimit(strategy.limit)
       IN  find' = Ask(StrategyQuery(call.base, strategy), limit)
    /\ todo' = Tail(todo)
    /\ UNCHANGED <<control_vars, call, candidates, merged, explored, answer, draft_vars, job_vars>>

StrategyReturns ==
    /\ at = "explore"
    /\ find.at = "done"
    /\ merged' = Merge(merged, find.list)
    /\ explored' = Append(explored, find.list)
    /\ find' = NoSearch
    /\ UNCHANGED <<control_vars, call, candidates, todo, answer, draft_vars, job_vars>>

AnswerExplored ==
    /\ at = "explore"
    /\ find = NoSearch
    /\ todo = <<>>
    /\ at' = "model"
    /\ answer' = [kind |-> "explore", limit |-> call.limit,
                  list |-> Combined(merged, call.limit), overlap |-> merged.overlap,
                  explored |-> explored]
    /\ call' = NoCall
    /\ merged' = NothingMerged
    /\ explored' = <<>>
    /\ UNCHANGED <<agent, turns, calls, publications, find, candidates, todo, draft_vars,
                   job_vars, database_vars>>

-----------------------------------------------------------------------------
\* The last answer of the model has operations, here at most one.  Nothing
\* keeps it to codes that its tools showed: those are asked for in the prompt
\* only.  The surface of an item stands for its section, its intent for its
\* activity.
Picked(items, places, before) ==
    LET order == Arranged(places, before) IN [n \in DOMAIN order |-> items[order[n]]]
Earlier(items) == {p \in (DOMAIN items) \X (DOMAIN items) : p[1] < p[2]}
Kept(items) == {items[i] : i \in {j \in DOMAIN items : items[j].status # "rejected"}}
AddItem(items, item) ==
    IF \E e \in Kept(items) : [e EXCEPT !.status = item.status] = item
    THEN items ELSE Append(items, item)
RemoveLineItem(items, surface, code) ==
    Picked(items, {i \in DOMAIN items : items[i].surface # surface \/ items[i].code # code},
           Earlier(items))
ClearSection(items, surface) ==
    Picked(items, {i \in DOMAIN items : items[i].surface # surface}, Earlier(items))
Operated(items, status) ==
    {items}
        \union {AddItem(items, [code |-> code, surface |-> surface, intent |-> intent,
                               status |-> status]) :
                   code \in IF Len(items) < MaxItems THEN AllCodes ELSE {},
                   surface \in Task.components, intent \in Task.intents}
        \union {RemoveLineItem(items, surface, code) :
                   surface \in Task.components, code \in AllCodes}
        \union {ClearSection(items, surface) : surface \in Task.components}

EndTurn(status) ==
    /\ at = "model"
    /\ at' = "idle"
    /\ draft' \in Operated(draft, status)
    /\ answer' = NoAnswer
    /\ UNCHANGED <<agent, turns, calls, publications, find, call, candidates, todo, merged,
                   explored, job_vars, database_vars>>

\* _apply_planner_operations, then the verification of the room; what the
\* older agent adds is accepted and not verified (_apply_operations).
FinishPlanner ==
    /\ agent = "planner"
    /\ EndTurn("pending_review")
    /\ report' = VerifyRoom(Task.components, Task.intents, Kept(draft'))
FinishLegacy ==
    /\ agent = "legacy"
    /\ EndTurn("accepted")
    /\ UNCHANGED report

\* A reviewer sets the status of an item or gives it another code.
Review(i) ==
    /\ at = "idle"
    /\ \/ \E status \in {"accepted", "rejected"} : draft' = [draft EXCEPT ![i].status = status]
       \/ \E code \in AllCodes : draft' = [draft EXCEPT ![i].code = code, ![i].status = "accepted"]
    /\ UNCHANGED <<control_vars, find, tool_vars, report, job_vars>>

\* _section_rank, of the sections that the components give
SectionRank(component) ==
    CASE component = "ceiling" -> 10
      [] component = "wall" -> 20
      [] component \in {"trim", "baseboard", "crown"} -> 30
      [] component \in {"cabinet", "casing"} -> 40
      [] component \in {"floor", "carpet"} -> 50
      [] OTHER -> 100

\* to_estimate_job with ordered_items: the accepted items of the room, section
\* by section; every one has a code.
DraftJob ==
    LET accepted == {i \in DOMAIN draft : draft[i].status = "accepted"}
        Rank(i) == SectionRank(draft[i].surface)
        ordered == Picked(draft, accepted,
                          {p \in accepted \X accepted :
                              \/ Rank(p[1]) < Rank(p[2])
                              \/ Rank(p[1]) = Rank(p[2]) /\ p[1] < p[2]})
    IN  [n \in DOMAIN ordered |->
            [type |-> "line_item", approved |-> ordered[n].code, quantity |-> "",
             auto |-> TRUE, minimum |-> "high"]]

-----------------------------------------------------------------------------
\* publish_draft, and the service's own publish with a job of the caller
StartPublish(items) ==
    /\ at = "idle"
    /\ publications < MaxJobs
    /\ publications' = publications + 1
    /\ at' = "plan"
    /\ job' = items
    /\ UNCHANGED <<agent, turns, calls, find, tool_vars, draft_vars, planned, typed, database_vars>>

Planned(candidates_, approved, status) ==
    [candidates |-> candidates_, approved |-> approved, status |-> status]
Fixed(item) == [item |-> item, score |-> 10000, highlights |-> <<>>, confidence |-> "high"]
NoteItem == [code |-> NoCode, category |-> "NOTE", selector |-> "NOTE"]

Source == job[Len(planned) + 1]
Plan(p) ==
    /\ planned' = Append(planned, p)
    /\ find' = NoSearch
    /\ UNCHANGED <<control_vars, tool_vars, draft_vars, job, typed>>
PlansNext == at = "plan" /\ find = NoSearch /\ Len(planned) < Len(job)

\* plan_job, item by item: a note stands for itself,
PlanNote ==
    /\ PlansNext
    /\ Source.type = "note"
    /\ Plan(Planned(<<Fixed(NoteItem)>>, <<Fixed(NoteItem)>>, "approved"))

\* an approved code is looked up, and without an answer it stays unresolved,
PlanApproved ==
    /\ PlansNext
    /\ Source.type # "note"
    /\ Source.approved # NoCode
    /\ \/ /\ database # NoFile
          /\ \E item \in GetItem(database, Source.approved) :
                Plan(Planned(<<Fixed(item)>>, <<Fixed(item)>>, "approved"))
       \/ Plan(Planned(<<>>, <<>>, "unresolved"))

\* and for anything else the catalogue is searched.
PlanSearch ==
    /\ PlansNext
    /\ Source.type # "note"
    /\ Source.approved = NoCode
    /\ find' = Ask(ScopeQuery(Source.scope), RecommendationLimit)
    /\ UNCHANGED <<control_vars, tool_vars, draft_vars, job_vars>>

MayApprove(source, candidate) ==
    /\ source.auto
    /\ ConfidenceRank(candidate.confidence) >= ConfidenceRank(source.minimum)

Resolve(source, list) ==
    IF list = <<>> THEN Planned(list, <<>>, "unresolved")
    ELSE IF MayApprove(source, list[1]) THEN Planned(list, <<list[1]>>, "approved")
    ELSE Planned(list, <<>>, "needs_review")

PlanFound ==
    /\ at = "plan"
    /\ find.at = "done"
    /\ Plan(Resolve(Source, find.list))

\* A search that fails raises out of plan_job.
PlanFails ==
    /\ at = "plan"
    /\ find.at = "failed"
    /\ at' = "idle"
    /\ find' = NoSearch
    /\ job' = <<>>
    /\ planned' = <<>>
    /\ UNCHANGED <<agent, turns, calls, publications, tool_vars, draft_vars, typed, database_vars>>

-----------------------------------------------------------------------------
\* _render_step: a text that is empty is not typed, nor is a quantity that is
\* not there.  Profiles are complete: a key step without a key, or a delay
\* without a duration, would raise and leave the whole job unpublished.  Of the
\* placeholders those of the default profile are modelled; others are empty.
Rendered(step, line, item, source) ==
    LET text == CASE step.text = "category" -> item.category
                  [] step.text = "selector" -> item.selector
                  [] step.text = "quantity" -> source.quantity
                  [] OTHER -> ""
    IN  IF \/ step.when = "has_quantity" /\ source.quantity = ""
           \/ step.kind = "text" /\ text = ""
        THEN <<>>
        ELSE <<[kind |-> step.kind, text |-> text, key |-> step.key,
                line |-> line, code |-> item.code]>>

\* WorkflowCompiler.compile: the steps of the profile for every approved item,
\* between those for the job, which know nothing but its name.
Compile(sources, items) ==
    LET Steps(profile, line, item, source) ==
            FlattenSeq([n \in DOMAIN profile |-> Rendered(profile[n], line, item, source)])
        JobSteps(profile) ==
            Steps(profile, 0, [code |-> NoCode, category |-> "", selector |-> ""], [quantity |-> ""])
        Line(i) == IF items[i].approved = <<>> THEN <<>>
                   ELSE Steps(IF sources[i].type = "note" THEN NoteProfile ELSE Profile,
                              i, items[i].approved[1].item, sources[i])
    IN  JobSteps(BeforeAll) \o FlattenSeq([i \in DOMAIN items |-> Line(i)]) \o JobSteps(AfterAll)

\* Mutant of Publishable: what needs a review is left out of the estimate.
PublishableIfResolved(items) == \A i \in DOMAIN items : items[i].status # "unresolved"

\* _ensure_publishable
Publishable(items) ==
    \A i \in DOMAIN items : items[i].status \notin {"unresolved", "needs_review"}

\* Mutant of Publish: what is planned so far is published.
PublishPart ==
    /\ at = "plan"
    /\ find = NoSearch
    /\ at' = "idle"
    /\ typed' = IF Publishable(planned)
                THEN [kind |-> "job", job |-> job, planned |-> planned,
                      commands |-> Compile(job, planned)]
                ELSE typed
    /\ job' = <<>>
    /\ planned' = <<>>
    /\ UNCHANGED <<agent, turns, calls, publications, find, tool_vars, draft_vars, database_vars>>

\* compile_job and publish_job: all of it or, with a review plan, nothing.
Publish ==
    /\ at = "plan"
    /\ find = NoSearch
    /\ Len(planned) = Len(job)
    /\ at' = "idle"
    /\ typed' = IF Publishable(planned)
                THEN [kind |-> "job", job |-> job, planned |-> planned,
                      commands |-> Compile(job, planned)]
                ELSE typed
    /\ job' = <<>>
    /\ planned' = <<>>
    /\ UNCHANGED <<agent, turns, calls, publications, find, tool_vars, draft_vars, database_vars>>

-----------------------------------------------------------------------------
\* publish_text and publish_rows: for a bridge that is not ready, an empty text
\* and a row that lacks something they raise, and nothing is published.
Send(what) ==
    /\ at = "idle"
    /\ publications < MaxJobs
    /\ publications' = publications + 1
    /\ typed' = what
    /\ UNCHANGED <<at, agent, turns, calls, find, tool_vars, draft_vars, job, planned, database_vars>>
SendText(text, append_enter) ==
    /\ NormalizeText(text) # <<>>
    /\ Send([kind |-> "text", text |-> NormalizeText(text), append_enter |-> append_enter,
             commands |-> TextCommands(NormalizeText(text), append_enter)])
ExportRows(raw) ==
    LET rows == [i \in DOMAIN raw |-> ExportRow(raw[i])]
    IN  /\ rows # <<>>
        /\ \A i \in DOMAIN rows : RowIsComplete(rows[i])
        /\ Send([kind |-> "rows", rows |-> rows, commands |-> RowCommands(rows)])

-----------------------------------------------------------------------------
Init ==
    /\ DatabaseInit
    /\ at = "idle" /\ agent = "planner"
    /\ turns = 0 /\ calls = 0 /\ publications = 0
    /\ find = NoSearch /\ call = NoCall /\ candidates = {} /\ todo = <<>>
    /\ merged = NothingMerged /\ explored = <<>> /\ answer = NoAnswer
    /\ draft = <<>> /\ report = NoReport
    /\ job = <<>> /\ planned = <<>>
    /\ typed = NothingTyped

Turn ==
    \/ \E who \in {"planner", "legacy"} : StartTurn(who)
    \/ \E c \in Calls : SearchTool(c) \/ AskPolicy(c)
    \/ \E e \in Explorations : Explore(e) \/ SearchLineItems(e.base)
    \/ \E code \in AllCodes : GetLineItem(code)
    \/ AnswerSearch \/ StartRerank \/ InjectPreferred \/ AnswerReranked
    \/ NextStrategy \/ StrategyReturns \/ AnswerExplored
    \/ FinishPlanner \/ FinishLegacy \/ TurnFails

Publication ==
    \/ StartPublish(DraftJob)
    \/ \E items \in Jobs : StartPublish(items)
    \/ PlanNote \/ PlanApproved \/ PlanSearch \/ PlanFound \/ PlanFails \/ Publish
    \/ \E text \in Texts, append_enter \in BOOLEAN : SendText(text, append_enter)
    \/ \E raw \in Exports : ExportRows(raw)

Next ==
    \/ Search
    \/ Turn
    \/ \E i \in DOMAIN draft : Review(i)
    \/ Publication
    \/ DatabaseNext /\ UNCHANGED <<at, agent, turns, calls, publications, find, tool_vars,
                                   draft_vars, job_vars>>

Spec == Init /\ [][Next]_vars

-----------------------------------------------------------------------------
Places == {"idle", "model", "search", "inject", "explore", "plan"}

\* The shape of the state: at most one request at a time, and only for who
\* waits for it; what is planned belongs to the job.
TypeOK ==
    /\ DatabaseTypeOK
    /\ at \in Places /\ agent \in {"planner", "legacy"}
    /\ turns \in 0..MaxTurns /\ calls \in 0..MaxCalls /\ publications \in 0..MaxJobs
    /\ find.at \in {"off", "codes", "items", "scenarios", "done", "failed"}
    /\ find.at # "off" => at \in {"search", "explore", "plan"}
    /\ find.at \in {"items", "scenarios", "done"} => database # NoFile
    /\ Len(draft) <= MaxItems
    /\ \A i \in DOMAIN draft : draft[i].code \in AllCodes
    /\ Len(planned) <= Len(job)
    /\ typed.kind = "job" => Len(typed.planned) = Len(typed.job)

\* What a search answers stood in one catalogue, items and scenarios alike,
\* though its codes may have been collected from the one before a rebuild
\* (repository.py, _load_sources).
AnswersAreOfOneCatalog ==
    find.at = "done" =>
        \E v \in Versions : \A c \in Elements(find.list) :
            \E s \in Catalog[v] : c.item = s.item /\ Elements(c.highlights) \subseteq s.scenarios

\* The planner's tool returns "policy-filtered candidates": none that the rule
\* for the component and the intent blocks, whether the search found it or the
\* policy itself prefers it, and whatever the catalogue became in between
\* (workflow_agents.py, _run_tool; policy.py, rerank_candidates).  A call that
\* names no surface, or null, means the component.
MeantSurface(c) == IF c.surface \in {Null, ""} THEN c.component ELSE c.surface
AnswersArePolicyFiltered ==
    answer.kind = "policy" =>
        \A candidate \in Elements(answer.list) :
            ~IsBlocked(candidate.item,
                       FallbackFor(answer.call.component, answer.call.intent,
                                   MeantSurface(answer.call)))

\* The merge of the strategies is the merge of all they found: of each code the
\* best appearance, the best codes first and none better left out, and as
\* overlap the codes of more than one strategy (runtime_client.py,
\* explore_strategies).
ExploredIsBest ==
    answer.kind = "explore" =>
        LET lists == answer.explored
            found == UNION {Elements(lists[k]) : k \in DOMAIN lists}
            list == answer.list
            In(k) == CodesOf(Elements(lists[k]))
        IN  /\ Elements(list) \subseteq found
            /\ \A i, j \in DOMAIN list : i < j => /\ Outranks(list[i], list[j])
                                                  /\ list[i].item.code # list[j].item.code
            /\ \A c \in found :
                  \/ \E i \in DOMAIN list : list[i].item.code = c.item.code /\ ~Outranks(c, list[i])
                  \/ /\ Len(list) >= MergeLeast
                     /\ \A i \in DOMAIN list : Outranks(list[i], c)
            /\ answer.overlap = {code \in AllCodes :
                  \E j, k \in DOMAIN lists : j # k /\ code \in In(j) \intersect In(k)}

\* What was published was decided.  Of a job every item was: there are keystrokes
\* for each line item, in the order of the job, and of the code that the job
\* approved or else of the best candidate, confident enough and with leave to
\* approve it (README: "publish fails with a review plan instead of guessing";
\* service.py).  The keys of a text spell it, and those of rows fill the cells
\* of the grid with them, from the first row on (direct_output.py,
\* estimate_export.py).
JobIsDecided ==
    LET commands == typed.commands
        Decided(i, code) ==
            LET source == typed.job[i]
                list == typed.planned[i].candidates
            IN  /\ list # <<>>
                /\ code = list[1].item.code
                /\ \/ source.type = "note"
                   \/ IF source.approved # NoCode THEN code = source.approved
                      ELSE MayApprove(source, list[1])
        lines == {n \in DOMAIN commands : commands[n].line # 0}
    IN  /\ \A i \in DOMAIN typed.job :
              typed.job[i].type # "note" => \E n \in lines : commands[n].line = i
        /\ \A n \in lines : Decided(commands[n].line, commands[n].code)
        /\ \A m, n \in lines : m <= n => commands[m].line <= commands[n].line
TextIsSpelled ==
    Spelled(Tail(typed.commands)) =
        typed.text \o (IF typed.append_enter THEN <<LineFeed>> ELSE <<>>)
RowsFillTheGrid ==
    LET Filled(row, column, text) == IsFilled(typed.commands, <<row, column>>, text)
    IN  /\ \A i \in DOMAIN typed.rows : /\ Filled(i, 1, typed.rows[i].cat)
                                        /\ Filled(i, 2, typed.rows[i].sel)
                                        /\ Filled(i, 3, typed.rows[i].quantity)
        /\ CellOf(typed.commands, Len(typed.commands) + 1) = <<Len(typed.rows) + 1, 1>>
TypedIsDecided ==
    CASE typed.kind = "job"  -> JobIsDecided
      [] typed.kind = "text" -> TextIsSpelled
      [] typed.kind = "rows" -> RowsFillTheGrid
      [] OTHER -> typed.commands = <<>>
=============================================================================
