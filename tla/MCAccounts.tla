----------------------------- MODULE MCAccounts -----------------------------
(***************************************************************************)
(* Two addresses, one of which is also typed with capitals in its domain.  *)
(***************************************************************************)
EXTENDS Accounts, TLC

CONSTANTS alice, AliceCapital, bob

Addresses  == {alice, AliceCapital, bob}
NormalForm == [e \in Addresses |-> IF e = AliceCapital THEN alice ELSE e]
Normals    == {alice, bob}

Symmetry == Permutations(Requests) \cup Permutations(Instances)
=============================================================================
