---------------------------- MODULE MCAccessTokens ----------------------------
(***************************************************************************)
(* The client's clock is behind, right or ahead.                           *)
(***************************************************************************)
EXTENDS AccessTokens

MCSkews == {-1, 0, 1}
=============================================================================
