---------------------------- MODULE MCPrimeSieve -----------------------------
(* Numbers around the ends of the first segments and around the squares of  *)
(* the base primes.                                                         *)
EXTENDS PrimeSieve

SmallAndSquares == (0..16) \cup (24..27) \cup (48..50) \cup (118..123) \cup (166..170) \cup (286..291)
=============================================================================
