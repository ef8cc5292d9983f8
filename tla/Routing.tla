------------------------------ MODULE Routing ------------------------------
(***************************************************************************)
(* How a question that no regular expression recognised finds its SQL      *)
(* route: rag/semantic_router.py compares it with examples.                *)
(***************************************************************************)
EXTENDS Integers, FiniteSets

CONSTANTS
    MinScore,    \* SEMANTIC_ROUTE_MIN_SCORE
    MinMargin    \* SEMANTIC_ROUTE_MIN_MARGIN

ASSUME RoutingAssumption == MinScore \in Nat /\ MinMargin \in Nat \ {0}

-----------------------------------------------------------------------------
\* A question's similarity to the examples, a set of <<route, score>>.

\* A route's score is that of its nearest example; scores start from -1.
Nearest(sims, r) ==
    LET scores == {p[2] : p \in {s \in sims : s[1] = r}} \cup {-1}
    IN  CHOOSE m \in scores : \A n \in scores : n <= m

RoutesOf(sims) == {p[1] : p \in {s \in sims : s[2] > -1}}

\* The route is near enough and leads the next one by the margin; alone it
\* leads a score of 0.
Sure(sims, r) ==
    /\ \A s \in RoutesOf(sims) : Nearest(sims, s) <= Nearest(sims, r)
    /\ Nearest(sims, r) >= MinScore
    /\ IF RoutesOf(sims) = {r} THEN Nearest(sims, r) >= MinMargin
       ELSE \A s \in RoutesOf(sims) \ {r} : Nearest(sims, r) - Nearest(sims, s) >= MinMargin

\* route_semantic: at most one route, or none.
SemanticRoute(sims) == {r \in RoutesOf(sims) : Sure(sims, r)}

=============================================================================
