--------------------------- MODULE MCRankingModel ---------------------------
(***************************************************************************)
(* Small instances of RankingModel.                                        *)
(***************************************************************************)
EXTENDS RankingModel, TLC

Symmetry == Permutations(Threads)
=============================================================================
