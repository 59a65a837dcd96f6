------------------------- MODULE MCRiskGatedEngine -------------------------
(* Small instances of RiskGatedEngine for TLC. *)
EXTENDS RiskGatedEngine, TLC

Symmetry == Permutations(Accounts) \cup Permutations(ClientIds)
=============================================================================
