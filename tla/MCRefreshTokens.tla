--------------------------- MODULE MCRefreshTokens ---------------------------
(***************************************************************************)
(* Instances of RefreshTokens for TLC: the symmetry of the sets of model   *)
(* values, for runs that check invariants only.                            *)
(***************************************************************************)
EXTENDS RefreshTokens, TLC

Symmetry == Permutations(Requests) \cup Permutations(Users)
=============================================================================
