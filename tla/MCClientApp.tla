----------------------------- MODULE MCClientApp -----------------------------
(***************************************************************************)
(* An instance of ClientApp: three connections that call different         *)
(* endpoints, two of the three public APIs.                                *)
(***************************************************************************)
EXTENDS ClientApp, TLC

CONSTANTS r1, r2, r3

PublicApis  == {"jobs", "github"}
Services    == PublicApis \cup {Identity}
Connected   == {r1, r2, r3}
MixedCalls  == r1 :> {"company"} @@ r2 :> {"claims", "profile"} @@ r3 :> {"primes", "claims"}

\* One of the public APIs fails, or the identity service does.
Days == {{"jobs", Identity}, PublicApis}
=============================================================================
