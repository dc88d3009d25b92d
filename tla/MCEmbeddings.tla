---------------------------- MODULE MCEmbeddings ----------------------------
(***************************************************************************)
(* Small instances of Embeddings: the models have vectors of one length.   *)
(***************************************************************************)
EXTENDS Embeddings, TLC

\* Both names of models are alike, so a run may start with either.
FromLarge == Init /\ ME5_MODEL_NAME = "e5-large"

FairFromLarge == FromLarge /\ [][Next]_vars /\ Fairness

OfOneLength == [m \in Models |-> 1024]

Symmetry == Permutations(Threads) \cup Permutations(Batches) \cup Permutations(Properties)
=============================================================================
