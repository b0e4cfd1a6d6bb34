-------------------------- MODULE SearchStrategies --------------------------
(***************************************************************************)
(* RuntimeCatalogClient.explore_strategies,                                *)
(* src/xactimate_producer/runtime_client.py: several searches for one      *)
(* scope item, merged one after the other into a single list.              *)
(***************************************************************************)
EXTENDS CatalogSearch

CONSTANTS
    MergeLeast,  \* the merged list is cut at twice the limit, but at no less
    MergeMost    \* than this (5) and at no more than that (12)

ASSUME MergeAssumption == MergeLeast \in Nat \ {0} /\ MergeMost \in Nat \ {0}

ConfidenceRank(confidence) ==
    CASE confidence = "low" -> 1 [] confidence = "medium" -> 2 [] OTHER -> 3

\* _candidate_sort_key: among equals the later code wins, other than in a search.
Outranks(c, d) ==
    \/ c.score > d.score
    \/ /\ c.score = d.score
       /\ \/ ConfidenceRank(c.confidence) > ConfidenceRank(d.confidence)
          \/ /\ c.confidence = d.confidence
             /\ c.item.code > d.item.code

NothingMerged == [best |-> {}, seen |-> {}, overlap |-> {}]

\* Mutant of Merge: the latest appearance of a code stays, not the best.
MergeLatest(merged, list) ==
    LET found == {list[i] : i \in DOMAIN list}
        codes == {c.item.code : c \in found}
    IN  [best    |-> found \union {c \in merged.best : c.item.code \notin codes},
         seen    |-> merged.seen \union codes,
         overlap |-> merged.overlap \union (merged.seen \intersect codes)]

\* One strategy's candidates (no code twice) enter: each code keeps its best
\* appearance, the first one among equals, and is counted once per strategy.
Merge(merged, list) ==
    LET found == {list[i] : i \in DOMAIN list}
        codes == {c.item.code : c \in found}
        Beaten(c, by) == \E d \in by : d.item.code = c.item.code /\ Outranks(d, c)
        new == {c \in found : \A d \in merged.best :
                                 d.item.code = c.item.code => Outranks(c, d)}
    IN  [best    |-> new \union {c \in merged.best : ~Beaten(c, found)},
         seen    |-> merged.seen \union codes,
         overlap |-> merged.overlap \union (merged.seen \intersect codes)]

\* combined_candidates
Combined(merged, limit) ==
    LET most == IF 2 * limit < MergeMost THEN 2 * limit ELSE MergeMost
    IN  Cut(Arranged(merged.best, {p \in merged.best \X merged.best : Outranks(p[1], p[2])}),
            IF most > MergeLeast THEN most ELSE MergeLeast)
=============================================================================
