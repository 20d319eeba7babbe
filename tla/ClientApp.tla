------------------------------ MODULE ClientApp ------------------------------
(***************************************************************************)
(* How the client app serves a request: the endpoints of                   *)
(* client_app/app/api, their dependencies, and what they share: the        *)
(* threads of the process (WorkerThreads), its HTTP client (OutboundCalls) *)
(* and the cache of public keys with its lock (see JwksClient).            *)
(*                                                                         *)
(* An action is the code from one await to the next.  "claims" stands for  *)
(* /whoami and /admin/summary.  Tokens bear the key that the identity      *)
(* service signs with, and of the cache it matters whether it has that     *)
(* key; older keys and what a token says are in JwksClient, AccessTokens.  *)
(***************************************************************************)
EXTENDS WorkerThreads, OutboundCalls

CONSTANTS
  Sources, \* the public APIs of a snapshot: jobs, github, hacker_news
  Calls    \* the endpoints each request may be for

Identity  == "identity"
Protected == {"claims", "profile"}
Endpoints == Protected \cup {"primes", "company"}

ASSUME ConstantsAssumption ==
  /\ Upstreams = Sources \cup {Identity} /\ Identity \notin Sources
  /\ Calls \in [Requests -> SUBSET Endpoints]

VARIABLES
  pc,       \* where a request is, or how it was answered
  endpoint, \* the endpoint it calls
  cached,   \* whether the key that the identity service signs with is cached
  lock,     \* the holder of the cache's lock and the coroutines waiting for it
  reported  \* the sources a snapshot reports with status ok

request == <<endpoint, reported>>
vars    == <<threads, calls, pc, request, cached, lock>>

OnThread  == {"jwks_dependency", "http_dependency", "counting"}
OnNetwork == {"locked_out", "fetching", "calling", "gathering"}
Waiting   == OnThread \cup OnNetwork \cup {"verifying", "admitted", "ready"}
Responses == {"ok", "refused", "error", "bad_gateway"}

Init ==
  /\ ThreadsInit /\ CallsInit
  /\ pc = [r \in Requests |-> "idle"]
  /\ endpoint = [r \in Requests |-> "primes"]
  /\ cached = FALSE /\ lock = <<>>
  /\ reported = [r \in Requests |-> {}]

Goto(r, from, to) == pc[r] = from /\ pc' = [pc EXCEPT ![r] = to]

-----------------------------------------------------------------------------
(* Arrival                                                                 *)

Arrive(r, e, to) ==
  /\ Goto(r, "idle", to)
  /\ endpoint' = [endpoint EXCEPT ![r] = e]
  /\ UNCHANGED <<calls, cached, lock, reported>>

\* No bearer token (401), or a range that is out of bounds (422): no thread is used.
Refuse(r, e) ==
  /\ e \in Protected \cup {"primes"}
  /\ Arrive(r, e, "refused")
  /\ UNCHANGED threads

\* get_jwks_client, get_http_client and count_primes each run in a thread.
Accept(r, e) ==
  /\ Arrive(r, e, CASE e \in Protected -> "jwks_dependency"
                    [] e = "company"   -> "http_dependency"
                    [] e = "primes"    -> "counting")
  /\ Submit(r)

\* The function that r had in a thread has returned.
Resume(r) ==
  /\ \/ Goto(r, "jwks_dependency", "verifying")
     \/ Goto(r, "http_dependency", "ready")
     \/ Goto(r, "counting", "ok")
  /\ Return(r)
  /\ UNCHANGED <<calls, request, cached, lock>>

-----------------------------------------------------------------------------
(* verify_access_token: get_key and the claims                             *)

\* With the key at hand the token is refused (401, 403) or accepted.
Verdict(r, from) ==
  \E to \in {"refused", IF endpoint[r] = "profile" THEN "admitted" ELSE "ok"} :
    Goto(r, from, to)

Hit(r) ==
  /\ Verdict(r, "verifying")
  /\ cached
  /\ UNCHANGED <<threads, calls, request, cached, lock>>

Miss(r) ==
  /\ ~cached
  /\ Goto(r, "verifying", "locked_out")
  /\ lock' = Append(lock, r)
  /\ UNCHANGED <<threads, calls, request, cached>>

HasLock(r) == lock # <<>> /\ Head(lock) = r

\* The lock has passed to r, and its key was cached meanwhile.
FindKey(r) ==
  /\ Verdict(r, "locked_out")
  /\ HasLock(r) /\ cached
  /\ lock' = Tail(lock)
  /\ UNCHANGED <<threads, calls, request, cached>>

\* It was not: GET /.well-known/jwks.json.
FetchKeys(r) ==
  /\ Goto(r, "locked_out", "fetching")
  /\ HasLock(r) /\ ~cached
  /\ Dial(r, {Identity})
  /\ UNCHANGED <<threads, healthy, request, cached, lock>>

\* Mutant of StoreKeys: the exception leaves the lock taken.
StoreKeysLocked(r) ==
  /\ pc[r] = "fetching" /\ Ended(r, {Identity})
  /\ IF call[r][Identity] \in Processed
     THEN Verdict(r, "fetching") /\ cached' = TRUE /\ lock' = Tail(lock)
     ELSE Goto(r, "fetching", "error") /\ UNCHANGED <<cached, lock>>
  /\ UNCHANGED <<threads, calls, request>>

\* Mutant of StoreKeys: those who wait for the lock share the exception.
StoreKeysShared(r) ==
  /\ pc[r] = "fetching" /\ Ended(r, {Identity})
  /\ IF call[r][Identity] \in Processed
     THEN Verdict(r, "fetching") /\ cached' = TRUE /\ lock' = Tail(lock)
     ELSE /\ pc' = [s \in Requests |-> IF pc[s] \in {"fetching", "locked_out"}
                                      THEN "error" ELSE pc[s]]
          /\ lock' = <<>> /\ UNCHANGED cached
  /\ UNCHANGED <<threads, calls, request>>

\* The keys are cached, or the exception that ended the fetch answers 500; the lock
\* is released either way.  If the key was replaced meanwhile, it is not among them.
StoreKeys(r) ==
  /\ pc[r] = "fetching" /\ Ended(r, {Identity})
  /\ \/ /\ call[r][Identity] \in Processed
        /\ \/ Verdict(r, "fetching") /\ cached' = TRUE
           \/ Goto(r, "fetching", "refused") /\ UNCHANGED cached
     \/ /\ call[r][Identity] \notin Processed
        /\ Goto(r, "fetching", "error")
        /\ UNCHANGED cached
  /\ lock' = Tail(lock)
  /\ UNCHANGED <<threads, calls, request>>

\* The identity service has a new key, which its tokens are signed with from now on.
ReplaceKey ==
  /\ cached
  /\ cached' = FALSE
  /\ UNCHANGED <<threads, calls, pc, request, lock>>

-----------------------------------------------------------------------------
(* GET /profile                                                            *)

\* The token is valid; the second dependency, get_http_client, needs a thread again.
Admit(r) ==
  /\ Goto(r, "admitted", "http_dependency")
  /\ Submit(r)
  /\ UNCHANGED <<calls, request, cached, lock>>

\* fetch_user_profile: GET /me.
CallIdentity(r) ==
  /\ endpoint[r] = "profile"
  /\ Goto(r, "ready", "calling")
  /\ Dial(r, {Identity})
  /\ UNCHANGED <<threads, healthy, request, cached, lock>>

\* IdentityServiceError becomes a 502; a body that is not JSON, or cannot be encoded
\* again, is not caught: 500.
Profile(r) ==
  /\ pc[r] = "calling" /\ Ended(r, {Identity})
  /\ Goto(r, "calling", CASE call[r][Identity] = "answered"            -> "ok"
                          [] call[r][Identity] \in {"failed", "starved"} -> "bad_gateway"
                          [] OTHER                                      -> "error")
  /\ UNCHANGED <<threads, calls, request, cached, lock>>

-----------------------------------------------------------------------------
(* GET /aggregate/company                                                  *)

\* FastAPI checks the query when the dependencies are there: 422.
RefuseCompany(r) ==
  /\ endpoint[r] = "company"
  /\ Goto(r, "ready", "refused")
  /\ UNCHANGED <<threads, calls, request, cached, lock>>

\* build_company_snapshot: the sources are called concurrently.
Gather(r) ==
  /\ endpoint[r] = "company"
  /\ Goto(r, "ready", "gathering")
  /\ Dial(r, Sources)
  /\ UNCHANGED <<threads, healthy, request, cached, lock>>

\* What _run_source takes for a success.
Succeeded(r) == {s \in Sources : call[r][s] \in Processed}

\* Mutant of Encodable: _run_source catches the errors of httpx only, so that what a
\* malformed body raises costs the response too.
EncodableIfRead(r) == \A s \in Sources : call[r][s] \notin {"unencodable", "malformed"}

\* FastAPI can write what the sources said into the response, which it does outside of
\* the try of _run_source.
Encodable(r) == \A s \in Sources : call[r][s] # "unencodable"

\* gather returns when every _run_source has; each has made a failure of its source
\* an error in the response.
Snapshot(r) ==
  /\ Ended(r, Sources)
  /\ \/ /\ Encodable(r)
        /\ Goto(r, "gathering", "ok")
        /\ reported' = [reported EXCEPT ![r] = Succeeded(r)]
     \/ /\ ~Encodable(r)
        /\ Goto(r, "gathering", "error")
        /\ UNCHANGED reported
  /\ UNCHANGED <<threads, calls, endpoint, cached, lock>>

-----------------------------------------------------------------------------
\* The caller has its response; another request may come.
Finish(r) ==
  /\ pc[r] \in Responses
  /\ pc' = [pc EXCEPT ![r] = "idle"]
  /\ endpoint' = [endpoint EXCEPT ![r] = "primes"]
  /\ reported' = [reported EXCEPT ![r] = {}]
  /\ Dial(r, {})
  /\ UNCHANGED <<threads, healthy, cached, lock>>

Call(r) ==
  /\ Network(r)
  /\ UNCHANGED <<threads, pc, request, cached, lock>>

Handle(r) ==
  \/ Resume(r)
  \/ Hit(r) \/ Miss(r) \/ FindKey(r) \/ FetchKeys(r) \/ StoreKeys(r)
  \/ Admit(r) \/ CallIdentity(r) \/ Profile(r)
  \/ RefuseCompany(r) \/ Gather(r) \/ Snapshot(r)

Next ==
  \/ \E r \in Requests :
       \/ \E e \in Calls[r] : Refuse(r, e) \/ Accept(r, e)
       \/ Handle(r) \/ Call(r) \/ Finish(r)
  \/ ReplaceKey

Spec == Init /\ [][Next]_vars

(***************************************************************************)
(* The event loop runs every coroutine that is ready, and a function in a  *)
(* thread returns: the dependencies are attribute reads, and the range of  *)
(* count_primes is bounded.  The network owes nothing.                     *)
(***************************************************************************)
FairSpec == Spec /\ \A r \in Requests : WF_vars(Handle(r))

\* httpx ends every call, by a response or by one of its timeouts.
CallsEnd == \A r \in Requests : WF_vars(Call(r))

-----------------------------------------------------------------------------
TypeOK ==
  /\ working \subseteq Requests /\ queue \in Seq(Requests) /\ ThreadsBounded
  /\ CallsTypeOK
  /\ pc \in [Requests -> Waiting \cup Responses \cup {"idle"}]
  /\ endpoint \in [Requests -> Endpoints]
  /\ cached \in BOOLEAN
  /\ lock \in Seq(Requests)
  /\ reported \in [Requests -> SUBSET Sources]

\* A source that fails costs a snapshot that source alone: of a 200, a source is
\* missing only for its own failure or because the shared client had no connection for
\* it, and the whole snapshot is lost only to a source whose 200 cannot be encoded,
\* never to one that is down, late or unreadable (aggregation.py:83-97, 105-119).
SourcesIsolated ==
  \A r \in Requests : endpoint[r] = "company" =>
    /\ pc[r] # "bad_gateway"
    /\ pc[r] = "error" => \E s \in Sources \ healthy : call[r][s] = "unencodable"
    /\ pc[r] = "ok" => \A s \in Sources \ reported[r] :
                         \/ s \notin healthy /\ call[r][s] \in {"failed", "malformed"}
                         \/ call[r][s] = "starved"

\* A 500 or a 502 has its cause in a call of that very request: to the identity service
\* or, for a snapshot, to a source whose 200 cannot be encoded.  It is never the end of
\* a fetch of the keys that the request waited for, nor, while a connection is free,
\* anything that a healthy service did (jwks.py:37-48, identity.py:25-40).
FailuresAreOwn ==
  \A r \in Requests : pc[r] \in {"error", "bad_gateway"} =>
    \/ Identity \notin healthy /\ call[r][Identity] \in Answers \ {"answered"}
    \/ call[r][Identity] = "starved"
    \/ endpoint[r] = "company" /\ \E s \in Sources \ healthy : call[r][s] = "unencodable"

\* What the endpoint says of itself (api/aggregation.py:36-37): a snapshot is always
\* answered 200, failures of the sources are told source by source.
SnapshotAlwaysAnswered ==
  \A r \in Requests : endpoint[r] = "company" => pc[r] \notin {"error", "bad_gateway"}

\* Where a request holds the cache's lock or waits for it.
AtLock == {"locked_out", "fetching"}

\* Request r needs nothing that another request has: it waits for the end of its own
\* function or its own calls at most, which it has started.
Moving(r) ==
  /\ pc[r] \in OnThread => r \in working
  /\ pc[r] \in AtLock => HasLock(r)
  /\ pc[r] \in {"fetching", "calling"} => call[r][Identity] # "none"
  /\ pc[r] = "gathering" => \A s \in Sources : call[r][s] # "none"

\* Request s has what r waits for.
WaitsFor(r, s) ==
  \/ pc[r] \in OnThread /\ r \notin working /\ s \in working
  \/ pc[r] \in AtLock /\ ~HasLock(r) /\ HasLock(s)

\* Requests wait for each other, for threads and for the lock of the key cache, but
\* never in a circle, and never for one that is gone: who has what they wait for can
\* go on (deps.py:30-35, analytics.py:46, jwks.py:37-48).
NoCircularWait ==
  \A r \in Requests : pc[r] \in Waiting =>
    \/ Moving(r)
    \/ \E s \in Requests : WaitsFor(r, s) /\ pc[s] \in Waiting /\ Moving(s)

\* A request that needs no network is answered whatever the services that other
\* requests wait for do: calculations always, claims while the key is cached, for
\* no thread is held during a call (analytics.py:46, deps.py:30-35).
LocalRequestsAnswered ==
  \A r \in Requests :
    /\ pc[r] = "counting" ~> pc[r] = "ok"
    /\ (pc[r] = "jwks_dependency" /\ endpoint[r] = "claims") ~> (pc[r] \in Responses \/ ~cached)

\* When every call ends, so does every request, however many others come.
EveryRequestAnswered ==
  CallsEnd => \A r \in Requests : pc[r] \in Waiting ~> pc[r] \in Responses
=============================================================================
