------------------------------ MODULE JwksClient ------------------------------
(***************************************************************************)
(* The client app's cache of the identity service's public keys            *)
(* (client_app/app/core/jwks.py) under the requests that verify access     *)
(* tokens with it (core/security.py) and the restarts that change the      *)
(* identity service's signing key (identity_service/app/core/keys.py).     *)
(*                                                                         *)
(* The coroutines of the requests share one event loop: an action is the   *)
(* code from one await to the next.  asyncio.Lock serves its waiters in    *)
(* the order in which they came; the head of `queue` holds it or is next.  *)
(*                                                                         *)
(* A kid is the thumbprint of a key, so it is represented by the position  *)
(* of the key among those the identity service has used: 1, 2, ...; a kid  *)
(* that it never published is Forged.                                      *)
(***************************************************************************)
EXTENDS Naturals, Sequences

CONSTANTS
  Requests, \* the requests with an access token, each served once
  MaxKeys   \* bound on the number of signing keys

ASSUME ConstantsAssumption == MaxKeys \in Nat \ {0}

Forged == 0

VARIABLES
  signing, \* the key of the identity process, now or when it last ran
  up,      \* whether the identity service answers
  cache,   \* the kids in self._keys
  queue,   \* the holder of self._lock and the coroutines waiting for it
  reply,   \* the key set read for the fetch of a request; {} before it is served
  pc,      \* where a request is, or how it was answered
  kid,     \* the kid in the header of the request's token
  fetched, \* history: the requests that called _refresh
  ahead    \* history: the requests in the queue when this one joined it

identity == <<signing, up>>
history  == <<fetched, ahead>>
vars     == <<identity, cache, queue, reply, pc, kid, history>>

Waiting  == {"locked_out", "fetching"}
Answered == {"verified", "unknown_key", "failed", "aborted"}

InQueue == {queue[i] : i \in DOMAIN queue}

Init ==
  /\ signing = 1 /\ up = TRUE
  /\ cache = {} /\ queue = <<>>
  /\ reply = [r \in Requests |-> {}]
  /\ pc = [r \in Requests |-> "idle"]
  /\ kid = [r \in Requests |-> Forged]
  /\ fetched = {}
  /\ ahead = [r \in Requests |-> {}]

Goto(r, from, to) == pc[r] = from /\ pc' = [pc EXCEPT ![r] = to]

-----------------------------------------------------------------------------
(* verify_access_token and JWKSClient.get_key                              *)

\* A token signed with k, or bearing a forged kid, arrives.
Present(r, k, to) ==
  /\ Goto(r, "idle", to)
  /\ kid' = [kid EXCEPT ![r] = k]

\* The kid is cached: no await, whatever the other requests do.
Hit(r, k) ==
  /\ k \in cache
  /\ Present(r, k, "verified")
  /\ UNCHANGED <<identity, cache, queue, reply, fetched, ahead>>

\* Mutant of Fetch: every miss fetches, the lock is not taken.
FetchUnlocked(r, k) ==
  /\ k \notin cache
  /\ Present(r, k, "fetching")
  /\ queue' = Append(queue, r)
  /\ fetched' = fetched \cup {r}
  /\ UNCHANGED <<identity, cache, reply, ahead>>

\* A miss with the lock free: it is taken and the GET is sent.
Fetch(r, k) ==
  /\ k \notin cache
  /\ queue = <<>>
  /\ Present(r, k, "fetching")
  /\ queue' = <<r>>
  /\ fetched' = fetched \cup {r}
  /\ UNCHANGED <<identity, cache, reply, ahead>>

\* A miss with the lock taken.
AwaitLock(r, k) ==
  /\ k \notin cache
  /\ queue # <<>>
  /\ Present(r, k, "locked_out")
  /\ queue' = Append(queue, r)
  /\ ahead' = [ahead EXCEPT ![r] = InQueue]
  /\ UNCHANGED <<identity, cache, reply, fetched>>

\* Mutant of TakeLock: no second look at the cache.
TakeLockUnchecked(r) ==
  /\ queue # <<>> /\ Head(queue) = r
  /\ Goto(r, "locked_out", "fetching")
  /\ fetched' = fetched \cup {r}
  /\ UNCHANGED <<identity, cache, queue, reply, kid, ahead>>

\* Mutant of TakeLock: a waiter trusts the fetch it waited for.
TakeLockTrusting(r) ==
  /\ queue # <<>> /\ Head(queue) = r
  /\ Goto(r, "locked_out", IF kid[r] \in cache THEN "verified" ELSE "unknown_key")
  /\ queue' = Tail(queue)
  /\ UNCHANGED <<identity, cache, reply, kid, history>>

\* The lock passes to r, which looks the kid up again and fetches on a miss.
TakeLock(r) ==
  /\ queue # <<>> /\ Head(queue) = r
  /\ \/ /\ kid[r] \in cache
        /\ Goto(r, "locked_out", "verified")
        /\ queue' = Tail(queue)
        /\ UNCHANGED fetched
     \/ /\ kid[r] \notin cache
        /\ Goto(r, "locked_out", "fetching")
        /\ fetched' = fetched \cup {r}
        /\ UNCHANGED queue
  /\ UNCHANGED <<identity, cache, reply, kid, ahead>>

\* GET /.well-known/jwks.json is served with the one key of the process.
ServeJwks(r) ==
  /\ up
  /\ pc[r] = "fetching" /\ reply[r] = {}
  /\ reply' = [reply EXCEPT ![r] = {signing}]
  /\ UNCHANGED <<identity, cache, queue, pc, kid, history>>

\* The fetch of r has ended and the lock goes to the next in the queue.
Release(r) ==
  /\ queue' = Tail(queue)
  /\ reply' = [reply EXCEPT ![r] = {}]

\* Mutant of Install: the kid that was asked for is cached whatever the answer.
InstallRequested(r) ==
  /\ reply[r] # {}
  /\ Goto(r, "fetching", "verified")
  /\ cache' = reply[r] \cup {kid[r]}
  /\ Release(r)
  /\ UNCHANGED <<identity, kid, history>>

\* The response replaces the whole cache and the lock is released.
Install(r) ==
  /\ reply[r] # {}
  /\ Goto(r, "fetching", IF kid[r] \in reply[r] THEN "verified" ELSE "unknown_key")
  /\ cache' = reply[r]
  /\ Release(r)
  /\ UNCHANGED <<identity, kid, history>>

\* Mutant of FailFetch: the exception leaves the lock taken.
FailFetchLocked(r) ==
  /\ Goto(r, "fetching", "failed")
  /\ reply' = [reply EXCEPT ![r] = {}]
  /\ UNCHANGED <<identity, cache, queue, kid, history>>

\* Connection refused, no answer within the timeout, no free connection or an
\* error status: the exception releases the lock and nothing catches it.
FailFetch(r) ==
  /\ Goto(r, "fetching", "failed")
  /\ Release(r)
  /\ UNCHANGED <<identity, cache, kid, history>>

-----------------------------------------------------------------------------
(* Restarts                                                                *)

StopIdentity ==
  /\ up
  /\ up' = FALSE
  /\ UNCHANGED <<signing, cache, queue, reply, pc, kid, history>>

\* get_key_pair of the new process loads the persisted key or makes a new one.
StartIdentity(k) ==
  /\ ~up
  /\ k \in {signing, signing + 1} /\ k <= MaxKeys
  /\ up' = TRUE
  /\ signing' = k
  /\ UNCHANGED <<cache, queue, reply, pc, kid, history>>

\* A new client process has an empty cache and none of the requests in flight.
RestartClient ==
  /\ cache' = {} /\ queue' = <<>>
  /\ reply' = [r \in Requests |-> {}]
  /\ pc' = [r \in Requests |-> IF pc[r] \in Waiting THEN "aborted" ELSE pc[r]]
  /\ UNCHANGED <<identity, kid, history>>

-----------------------------------------------------------------------------
Arrive(r) ==
  \E k \in 0..signing : Hit(r, k) \/ Fetch(r, k) \/ AwaitLock(r, k)

Serve(r) == TakeLock(r) \/ Install(r) \/ FailFetch(r)

Next ==
  \/ \E r \in Requests : Arrive(r) \/ Serve(r) \/ ServeJwks(r)
  \/ StopIdentity
  \/ \E k \in 1..MaxKeys : StartIdentity(k)
  \/ RestartClient

Spec == Init /\ [][Next]_vars

(***************************************************************************)
(* A coroutine that can run does run, and httpx ends every fetch: with a   *)
(* response or with an exception when its timeout is over.                 *)
(***************************************************************************)
FairSpec == Spec /\ \A r \in Requests : WF_vars(Serve(r))

-----------------------------------------------------------------------------
TypeOK ==
  /\ signing \in 1..MaxKeys
  /\ up \in BOOLEAN
  /\ cache \subseteq 1..signing
  /\ queue \in Seq(Requests)
  /\ reply \in [Requests -> SUBSET (1..signing)]
  /\ pc \in [Requests -> Waiting \cup Answered \cup {"idle"}]
  /\ kid \in [Requests -> 0..signing]
  /\ fetched \subseteq Requests
  /\ ahead \in [Requests -> SUBSET Requests]

\* A request waits for the network only while it holds the lock and its kid is
\* not cached: whoever changed the cache meanwhile spares it the fetch (jwks.py:37-41).
FetchOnlyOnMiss ==
  \A r \in Requests : pc[r] = "fetching" =>
    queue # <<>> /\ Head(queue) = r /\ kid[r] \notin cache

\* No token is refused for an unknown key while the identity service still signs
\* with that key, however stale the cache was (keys.py:11-13, jwks.py:37-43).
CurrentKeyIsKnown ==
  \A r \in Requests : pc[r] = "unknown_key" => kid[r] # signing

\* Of the requests that queue with one kid, the first fetch that finds the key
\* serves the others too, unless the key was rotated meanwhile (jwks.py:8-9).
BurstSharesFetch ==
  \A s \in fetched : \A r \in ahead[s] \cap fetched :
    pc[r] = "verified" /\ kid[r] = kid[s] => kid[s] # signing

\* Key sets are cached in the order in which they were published: a late answer
\* never brings back a key that the cache has already dropped (jwks.py:37-41).
CacheNeverGoesBack ==
  [][\A j \in cache, k \in cache' : j <= k]_vars

\* The key set on its way to the cache: what was served to the holder of the lock.
Reply == IF queue = <<>> \/ reply[Head(queue)] = {} THEN 0
         ELSE CHOOSE k \in reply[Head(queue)] : TRUE

Cache == INSTANCE KeyCache WITH reply <- Reply

\* The lock makes one cache of all the coroutines: only the answer to the fetch of
\* its holder gets into it, whole, whoever else waits, misses or fails meanwhile
\* (jwks.py:37-56).
ImplementsKeyCache == Cache!Spec

\* Every request is answered, also when the fetches of those ahead fail (jwks.py:37).
EveryRequestAnswered ==
  \A r \in Requests : pc[r] \in Waiting ~> pc[r] \in Answered
=============================================================================
