--------------------------- MODULE MCMatchingBook ---------------------------
(* A small instance of MatchingBook for TLC. *)
EXTENDS MatchingBook, TLC

Symmetry == Permutations(Ids)
=============================================================================
