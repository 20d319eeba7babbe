------------------------------- MODULE KeyCache -------------------------------
(***************************************************************************)
(* What a cache of the identity service's public keys does, without the    *)
(* requests that ask for keys and the lock they queue for: one fetch at a  *)
(* time, which replaces the cache by what it found or leaves it alone      *)
(* (client_app/app/core/jwks.py).  JwksClient implements it with a queue   *)
(* of coroutines.                                                          *)
(***************************************************************************)
EXTENDS Naturals

VARIABLES
  signing, \* the key of the identity service: 1, 2, ...
  cache,   \* the keys the client has
  reply    \* the key on its way to the client; 0: none

vars == <<signing, cache, reply>>

Init == signing = 1 /\ cache = {} /\ reply = 0

\* The identity service starts with a new key.
Rotate ==
  /\ signing' = signing + 1
  /\ UNCHANGED <<cache, reply>>

\* GET /.well-known/jwks.json: the identity service answers the one fetch.
Serve ==
  /\ reply = 0
  /\ reply' = signing
  /\ UNCHANGED <<signing, cache>>

\* _refresh replaces the cache.
Install ==
  /\ reply # 0
  /\ cache' = {reply} /\ reply' = 0
  /\ UNCHANGED signing

\* _refresh raises, and the answer is lost.
Fail ==
  /\ reply' = 0
  /\ UNCHANGED <<signing, cache>>

\* A new client process.
Restart ==
  /\ cache' = {} /\ reply' = 0
  /\ UNCHANGED signing

Next == Rotate \/ Serve \/ Install \/ Fail \/ Restart

Spec == Init /\ [][Next]_vars
=============================================================================
