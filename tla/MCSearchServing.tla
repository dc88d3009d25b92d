--------------------------- MODULE MCSearchServing ---------------------------
(***************************************************************************)
(* Small instances of SearchServing.                                       *)
(***************************************************************************)
EXTENDS SearchServing, TLC

\* Two searches that differ in their text; the second asks for fewer items
\* than it lets be reranked, as the API's defaults do.
TwoConditions == {[q |-> "station", filter |-> "none", limit |-> 2, candidate_limit |-> 2],
                  [q |-> "park", filter |-> "none", limit |-> 1, candidate_limit |-> 2]}

SingleHit == {[q |-> "park", filter |-> "none", limit |-> 1, candidate_limit |-> 1]}

OneCondition == {[q |-> "park", filter |-> "none", limit |-> 1, candidate_limit |-> 2]}

\* Threads and rows are interchangeable; for safety only.
Symmetry == Permutations(Threads) \cup Permutations(Properties)
=============================================================================
