----------------------------- MODULE MCJwksClient -----------------------------
(***************************************************************************)
(* Instances of JwksClient for TLC: the symmetry of the requests, for runs *)
(* that check no liveness.                                                 *)
(***************************************************************************)
EXTENDS JwksClient, TLC

Symmetry == Permutations(Requests)
=============================================================================
