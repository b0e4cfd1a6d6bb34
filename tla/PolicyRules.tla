---------------------------- MODULE PolicyRules ----------------------------
(***************************************************************************)
(* The estimating policy, src/xactimate_producer/policy.py: the rules of   *)
(* the policy file, what they prefer and block, and the check of a room.   *)
(*                                                                         *)
(* Components, surfaces and intents are strings in lower case; "" is what  *)
(* is not given.  A blocked term is a set of words.  Quantities, sections  *)
(* and notes of a rule only inform the model and are left out.             *)
(***************************************************************************)
EXTENDS CatalogSearch

CONSTANTS
    Defaults,   \* component_defaults: a sequence of rules
    Fallbacks,  \* fallback_rules: a sequence of rules
    NoRule      \* no rule matches

\* _normalized_component and _normalized_intent
NormalizedComponent(text) ==
    CASE text = "walls" -> "wall"
      [] text = "ceilings" -> "ceiling"
      [] text = "baseboards" -> "baseboard"
      [] text = "crown molding" -> "crown"
      [] text \in {"chair rail", "chairrail"} -> "chair_rail"
      [] text = "doors" -> "door"
      [] text = "windows" -> "window"
      [] text = "floors" -> "floor"
      [] text = "cabinetry" -> "cabinet"
      [] text = "fixtures" -> "fixture"
      [] OTHER -> text
NormalizedIntent(text) ==
    CASE text \in {"cleaning", "wash"} -> "clean"
      [] text = "painting" -> "paint"
      [] text = "repair" -> "patch"
      [] text \in {"detach reset", "detach and reset"} -> "detach_reset"
      [] OTHER -> text

CanonicalComponent(component, surface) ==
    NormalizedComponent(IF component # "" THEN component ELSE surface)

-----------------------------------------------------------------------------
\* What both lookups compare: a rule without a surface fits every surface.
Fits(rule, component, intent, surface) ==
    /\ rule.component = CanonicalComponent(component, surface)
    /\ rule.intent = NormalizedIntent(intent)
    /\ rule.surface \in {"", CanonicalComponent(surface, component)}

FirstOf(rules, matching) ==
    IF matching = {} THEN NoRule
    ELSE rules[CHOOSE i \in matching : \A j \in matching : i <= j]

\* default_for and fallback_for: the first rule of the file that fits.
DefaultFor(component, intent, surface, room_scope) ==
    FirstOf(Defaults, {i \in DOMAIN Defaults :
                          /\ Fits(Defaults[i], component, intent, surface)
                          /\ Defaults[i].room_scope => room_scope})
FallbackFor(component, intent, surface) ==
    FirstOf(Fallbacks, {i \in DOMAIN Fallbacks :
                           Fits(Fallbacks[i], component, intent, surface)})

\* The codes that the two rules prefer, the default's first.
PreferredCodes(default, fallback) ==
    LET first == IF default = NoRule THEN <<>> ELSE default.preferred
        second == IF fallback = NoRule THEN <<>> ELSE fallback.preferred
    IN  first \o SelectSeq(second, LAMBDA c : \A i \in DOMAIN first : first[i] # c)

IsBlocked(item, fallback) ==
    /\ fallback # NoRule
    /\ \/ item.code \in fallback.blocked_codes
       \/ \E term \in fallback.blocked_terms :
             term \subseteq item.description \union item.details

-----------------------------------------------------------------------------
\* rerank_candidates, after the search: a preferred code that the search did
\* not bring is looked up and put in without a score.
Injected(item) ==
    [item |-> item, score |-> 0, highlights |-> <<>>, confidence |-> "medium"]

Boosted(candidate, preferred) ==
    IF \E i \in DOMAIN preferred : preferred[i] = candidate.item.code
    THEN [candidate EXCEPT !.score = @ + 7500, !.confidence = "high"]
    ELSE candidate

\* Mutant of Rerank: what the policy prefers need not pass its own filter.
RerankPreferredFirst(candidates, preferred, fallback) ==
    Ranked({Boosted(c, preferred) :
               c \in {d \in candidates : ~IsBlocked(d.item, fallback)
                                            \/ d.item.code \in {preferred[i] : i \in DOMAIN preferred}}})

\* rerank_candidates, the rest: blocked ones go, preferred ones rise.
Rerank(candidates, preferred, fallback) ==
    Ranked({Boosted(c, preferred) : c \in {d \in candidates : ~IsBlocked(d.item, fallback)}})

-----------------------------------------------------------------------------
Pairs(components, intents) == components \X intents

\* The components that a summary of these surfaces names: the text is searched
\* for their names, and "wall" is part of "walls".
Named(surfaces) == surfaces \union {NormalizedComponent(s) : s \in surfaces}

\* _expected_component_intents: components and intents that the summary names,
\* where one makes sense for the other.
ExpectedPairs(surfaces, intents) ==
    Pairs(Named(surfaces), intents) \intersect
        (Pairs({"baseboard", "trim", "crown", "chair_rail"},
               {"clean", "paint", "detach_reset", "reset", "replace"})
         \union Pairs({"wall", "ceiling"}, {"clean", "paint", "seal", "patch"})
         \union Pairs({"floor", "carpet"}, {"clean", "replace", "reset"})
         \union Pairs({"door", "casing", "cabinet"}, {"clean", "paint", "remove", "reset"}))

\* _room_has_match: anything that runs along a wall counts as trim.
RoomHasMatch(items, component, intent) ==
    \E item \in items :
        /\ NormalizedIntent(item.intent) = intent
        /\ \/ NormalizedComponent(item.surface) = component
           \/ /\ component = "trim"
              /\ NormalizedComponent(item.surface)
                     \in {"baseboard", "crown", "chair_rail", "trim", "casing"}

\* verify_room: what the drafted items lack, what they should not have, and
\* what is painted without being cleaned although the summary asks for both.
VerifyRoom(components, intents, items) ==
    LET Blocked(item) ==
            LET rule == FallbackFor(item.surface, item.intent, item.surface)
            IN  rule # NoRule /\ item.code \in rule.blocked_codes
        Done(component, intent) ==
            \E item \in items : /\ NormalizedComponent(item.surface) = component
                                /\ NormalizedIntent(item.intent) = intent
    IN  [missing    |-> {p \in ExpectedPairs(components, intents) : ~RoomHasMatch(items, p[1], p[2])},
         violations |-> {item \in items : Blocked(item)},
         warnings   |-> {c \in {"wall", "ceiling", "baseboard", "trim"} :
                            /\ {"clean", "paint"} \subseteq intents
                            /\ Done(c, "paint") /\ ~Done(c, "clean")}]
=============================================================================
