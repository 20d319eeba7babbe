----------------------------- MODULE AccessTokens -----------------------------
(***************************************************************************)
(* The life of access tokens across the two services.  The identity        *)
(* service signs what it has read of a user (core/jwt.py) and, on its own  *)
(* endpoints, reads the user again (api/deps.py).  The client app trusts   *)
(* the token (core/security.py, api/deps.py), with its own clock and a     *)
(* cached key, and forwards it for /profile (services/identity.py).        *)
(*                                                                         *)
(* Every token here was signed by the identity service, so its issuer,     *)
(* audience and type are right.  A unit of time is a second, the           *)
(* resolution of iat and exp.  Operators deactivate and demote users; they *)
(* do not undo it.  /whoami stands for every endpoint of the client that   *)
(* asks for claims only.                                                   *)
(***************************************************************************)
EXTENDS Integers, FiniteSets

CONSTANTS
  Users,     \* the users of the identity service, admins at first
  Requests,  \* connections with requests that bear tokens, one after another
  TTL,       \* settings.access_token_ttl_seconds
  Skews,     \* how far the client's clock may be ahead of the identity service's
  Latency,   \* bound: seconds from the SELECT of a user to the signing of a token
  MaxTime,   \* bound on the clock
  MaxKeys,   \* bound on the number of signing keys
  MaxTokens, \* bound on the number of tokens
  None       \* no token

ASSUME ConstantsAssumption ==
  /\ TTL \in Nat \ {0} /\ Latency \in Nat
  /\ MaxTime \in Nat /\ MaxKeys \in Nat \ {0} /\ MaxTokens \in Nat
  /\ Skews \subseteq Int
  /\ None \notin [sub : Users, admin : BOOLEAN, iat : Nat, key : Nat]

VARIABLES
  now,         \* the clock of the identity service and its database
  skew,        \* the client's clock shows now + skew
  signing,     \* the key of the identity process: 1, 2, ...
  cache,       \* the kids in the client's JWKSClient
  reply,       \* the key served for the fetch in progress; 0: none yet
  deactivated, \* when users.is_active became false
  demoted,     \* when users.role became user
  reading,     \* rows read by logins and refreshes that have not signed yet
  tokens,      \* the access tokens signed
  pc,          \* where a request is, or how it was answered
  endpoint,    \* the endpoint a request is for
  token,       \* the token it presents
  entitled     \* history: was its user active, and an admin if need be, when it came

accounts == <<deactivated, demoted>>
request  == <<endpoint, token, entitled>>
vars     == <<now, skew, signing, cache, reply, accounts, reading, tokens, pc, request>>

Never == MaxTime + 1

AtClient   == {"whoami", "admin_summary", "profile"}
AtIdentity == {"me", "users"}
AdminOnly  == {"admin_summary", "users"}
InFlight   == {"calling", "loading"}
Pending    == InFlight \cup {"fetching"}
Answered   == {"ok", "unauthorized", "forbidden", "bad_gateway", "unreachable", "error", "aborted"}

Active(u) == deactivated[u] = Never
Admin(u)  == demoted[u] = Never

Init ==
  /\ now = 0 /\ skew \in Skews
  /\ signing = 1 /\ cache = {} /\ reply = 0
  /\ deactivated = [u \in Users |-> Never]
  /\ demoted = [u \in Users |-> Never]
  /\ reading = {} /\ tokens = {}
  /\ pc = [r \in Requests |-> "idle"]
  /\ endpoint = [r \in Requests |-> "whoami"]
  /\ token = [r \in Requests |-> None]
  /\ entitled = [r \in Requests |-> FALSE]

Goto(r, from, to) == pc[r] = from /\ pc' = [pc EXCEPT ![r] = to]

-----------------------------------------------------------------------------
(* Signing                                                                 *)

\* Mutant of ReadUser: is_active is not looked at.
ReadAnyUser(u) ==
  /\ Cardinality(reading) + Cardinality(tokens) < MaxTokens
  /\ reading' = reading \cup {[sub |-> u, admin |-> Admin(u), at |-> now]}
  /\ UNCHANGED <<now, skew, signing, cache, reply, accounts, tokens, pc, request>>

\* authenticate, or the session.get of rotate_refresh_token: the user's row is read.
ReadUser(u) ==
  /\ Active(u)
  /\ Cardinality(reading) + Cardinality(tokens) < MaxTokens
  /\ reading' = reading \cup {[sub |-> u, admin |-> Admin(u), at |-> now]}
  /\ UNCHANGED <<now, skew, signing, cache, reply, accounts, tokens, pc, request>>

\* create_access_token: the claims say what the row said when it was read.
Sign(row) ==
  /\ reading' = reading \ {row}
  /\ tokens' = tokens \cup
       {[sub |-> row.sub, admin |-> row.admin, iat |-> now, key |-> signing]}
  /\ UNCHANGED <<now, skew, signing, cache, reply, accounts, pc, request>>

\* jwt.decode's checks of nbf, iat and exp against a clock.
Timely(t, clock) == t.iat <= clock /\ clock < t.iat + TTL

-----------------------------------------------------------------------------
(* The client app                                                          *)

Entitled(e, t) == Active(t.sub) /\ (e \in AdminOnly => Admin(t.sub))

\* A request for endpoint e arrives with token t and goes on to `to`.
Arrive(r, e, t, to) ==
  /\ Goto(r, "idle", to)
  /\ endpoint' = [endpoint EXCEPT ![r] = e]
  /\ token' = [token EXCEPT ![r] = t]
  /\ entitled' = [entitled EXCEPT ![r] = t # None /\ Entitled(e, t)]

\* Mutant of Claims: expiry is not verified.
ClaimsForever(e, t) ==
  IF now + skew < t.iat THEN "unauthorized"
  ELSE IF e \in AdminOnly /\ ~t.admin THEN "forbidden"
  ELSE IF e = "profile" THEN "calling"
  ELSE "ok"

\* With the key at hand: verify_access_token, then require_role on the claim, then
\* the handler, which for /profile sends the token to the identity service.
Claims(e, t) ==
  IF ~Timely(t, now + skew) THEN "unauthorized"
  ELSE IF e \in AdminOnly /\ ~t.admin THEN "forbidden"
  ELSE IF e = "profile" THEN "calling"
  ELSE "ok"

\* get_token without a bearer token, or one without a readable header and a kid.
NoToken(r, e) ==
  /\ Arrive(r, e, None, "unauthorized")
  /\ UNCHANGED <<now, skew, signing, cache, reply, accounts, reading, tokens>>

\* The key of the token is cached.
Hit(r, e, t) ==
  /\ t.key \in cache
  /\ Arrive(r, e, t, Claims(e, t))
  /\ UNCHANGED <<now, skew, signing, cache, reply, accounts, reading, tokens>>

\* Mutant of Fetch: only an empty cache is filled.
FetchOnce(r, e, t) ==
  /\ t.key \notin cache
  /\ \A s \in Requests : pc[s] # "fetching"
  /\ Arrive(r, e, t, IF cache = {} THEN "fetching" ELSE "unauthorized")
  /\ UNCHANGED <<now, skew, signing, cache, reply, accounts, reading, tokens>>

\* It is not: the key set is fetched.  A request that would wait for the lock of
\* the cache (see JwksClient) arrives when the lock is free.
Fetch(r, e, t) ==
  /\ t.key \notin cache
  /\ \A s \in Requests : pc[s] # "fetching"
  /\ Arrive(r, e, t, "fetching")
  /\ UNCHANGED <<now, skew, signing, cache, reply, accounts, reading, tokens>>

ServeJwks(r) ==
  /\ pc[r] = "fetching" /\ reply = 0
  /\ reply' = signing
  /\ UNCHANGED <<now, skew, signing, cache, accounts, reading, tokens, pc, request>>

\* Mutant of Install: the response is kept for the next fetch.
InstallAgain(r) ==
  /\ reply # 0
  /\ Goto(r, "fetching", IF token[r].key = reply THEN Claims(endpoint[r], token[r])
                                                 ELSE "unauthorized")
  /\ cache' = {reply}
  /\ UNCHANGED <<now, skew, signing, reply, accounts, reading, tokens, request>>

\* The key set replaces the cache; the token is verified, or its key is unknown.
Install(r) ==
  /\ reply # 0
  /\ Goto(r, "fetching", IF token[r].key = reply THEN Claims(endpoint[r], token[r])
                                                 ELSE "unauthorized")
  /\ cache' = {reply} /\ reply' = 0
  /\ UNCHANGED <<now, skew, signing, accounts, reading, tokens, request>>

\* The fetch fails, and with it the request: 500.
FailFetch(r) ==
  /\ Goto(r, "fetching", "error")
  /\ reply' = 0
  /\ UNCHANGED <<now, skew, signing, cache, accounts, reading, tokens, request>>

-----------------------------------------------------------------------------
(* The identity service                                                    *)

\* decode_access_token, with the key of the process.
Decodes(t) == t.key = signing /\ Timely(t, now)

\* What a 401 of the identity service becomes for the caller: fetch_user_profile
\* raises, and profile answers 502.
Rejection(r) == IF endpoint[r] = "profile" THEN "bad_gateway" ELSE "unauthorized"

\* A request to the identity service itself.
Authenticate(r, e, t) ==
  /\ Arrive(r, e, t, IF Decodes(t) THEN "loading" ELSE "unauthorized")
  /\ UNCHANGED <<now, skew, signing, cache, reply, accounts, reading, tokens>>

\* GET /me for /profile, with the token that the client has verified.
Forward(r) ==
  /\ Goto(r, "calling", IF Decodes(token[r]) THEN "loading" ELSE Rejection(r))
  /\ UNCHANGED <<now, skew, signing, cache, reply, accounts, reading, tokens, request>>

\* Mutant of CurrentUser: the claims are believed.
CurrentUserClaimed(r) ==
  IF ~Active(token[r].sub) THEN Rejection(r)
  ELSE IF endpoint[r] \in AdminOnly /\ ~token[r].admin THEN "forbidden"
  ELSE "ok"

\* get_current_user, then require_role, on the row of the user.
CurrentUser(r) ==
  IF ~Active(token[r].sub) THEN Rejection(r)
  ELSE IF endpoint[r] \in AdminOnly /\ ~Admin(token[r].sub) THEN "forbidden"
  ELSE "ok"

LoadUser(r) ==
  /\ Goto(r, "loading", CurrentUser(r))
  /\ UNCHANGED <<now, skew, signing, cache, reply, accounts, reading, tokens, request>>

\* The connection, or the identity process, is lost: for /profile a 502 as well.
Dropped(r) == IF endpoint[r] = "profile" THEN "unreachable" ELSE "aborted"

Disconnect(r) ==
  /\ pc[r] \in InFlight
  /\ pc' = [pc EXCEPT ![r] = Dropped(r)]
  /\ UNCHANGED <<now, skew, signing, cache, reply, accounts, reading, tokens, request>>

\* The caller has its answer; another request may come.
Finish(r) ==
  /\ pc[r] \in Answered
  /\ pc' = [pc EXCEPT ![r] = "idle"]
  /\ endpoint' = [endpoint EXCEPT ![r] = "whoami"]
  /\ token' = [token EXCEPT ![r] = None]
  /\ entitled' = [entitled EXCEPT ![r] = FALSE]
  /\ UNCHANGED <<now, skew, signing, cache, reply, accounts, reading, tokens>>

\* The identity service restarts without its key file and generates a new key.
RestartIdentity ==
  /\ signing < MaxKeys
  /\ signing' = signing + 1
  /\ reading' = {}
  /\ pc' = [r \in Requests |-> IF pc[r] = "loading" THEN Dropped(r) ELSE pc[r]]
  /\ UNCHANGED <<now, skew, cache, reply, accounts, tokens, request>>

\* The client app restarts: its requests are lost, and its cache is empty.
RestartClient ==
  /\ cache' = {} /\ reply' = 0
  /\ pc' = [r \in Requests |->
              IF pc[r] \in Pending /\ endpoint[r] \in AtClient THEN "aborted" ELSE pc[r]]
  /\ UNCHANGED <<now, skew, signing, accounts, reading, tokens, request>>

-----------------------------------------------------------------------------
(* The environment                                                         *)

Deactivate(u) ==
  /\ Active(u)
  /\ deactivated' = [deactivated EXCEPT ![u] = now]
  /\ UNCHANGED <<now, skew, signing, cache, reply, demoted, reading, tokens, pc, request>>

Demote(u) ==
  /\ Admin(u)
  /\ demoted' = [demoted EXCEPT ![u] = now]
  /\ UNCHANGED <<now, skew, signing, cache, reply, deactivated, reading, tokens, pc, request>>

Tick ==
  /\ now < MaxTime
  /\ \A row \in reading : now < row.at + Latency
  /\ now' = now + 1
  /\ UNCHANGED <<skew, signing, cache, reply, accounts, reading, tokens, pc, request>>

Send(r) ==
  \/ \E e \in AtClient : NoToken(r, e)
  \/ \E e \in AtClient, t \in tokens : Hit(r, e, t) \/ Fetch(r, e, t)
  \/ \E e \in AtIdentity, t \in tokens : Authenticate(r, e, t)

Serve(r) ==
  \/ ServeJwks(r) \/ Install(r) \/ FailFetch(r)
  \/ Forward(r) \/ LoadUser(r) \/ Disconnect(r) \/ Finish(r)

Next ==
  \/ \E u \in Users : ReadUser(u) \/ Deactivate(u) \/ Demote(u)
  \/ \E row \in reading : Sign(row)
  \/ \E r \in Requests : Send(r) \/ Serve(r)
  \/ RestartIdentity \/ RestartClient
  \/ Tick

Spec == Init /\ [][Next]_vars

-----------------------------------------------------------------------------
Times == 0 .. MaxTime
Row   == [sub : Users, admin : BOOLEAN, at : Times]
Token == [sub : Users, admin : BOOLEAN, iat : Times, key : 1 .. MaxKeys]

\* The types of the variables; at most one fetch, and only it has a reply.
TypeOK ==
  /\ now \in Times /\ skew \in Skews
  /\ signing \in 1 .. MaxKeys /\ cache \subseteq 1 .. signing /\ reply \in 0 .. signing
  /\ deactivated \in [Users -> Times \cup {Never}]
  /\ demoted \in [Users -> Times \cup {Never}]
  /\ reading \subseteq Row /\ tokens \subseteq Token
  /\ pc \in [Requests -> Answered \cup Pending \cup {"idle"}]
  /\ endpoint \in [Requests -> AtClient \cup AtIdentity]
  /\ token \in [Requests -> Token \cup {None}]
  /\ entitled \in [Requests -> BOOLEAN]
  /\ reply # 0 => \E r \in Requests : pc[r] = "fetching"

Answers(r, answer) == pc[r] # answer /\ pc'[r] = answer

\* The end of what the client grants by itself: a deactivated user is let in, and a
\* demoted one to /admin/summary, only until the last token that was being made at
\* that moment expires by the client's clock, whatever is cached, restarted or
\* rotated meanwhile (client core/security.py:37-45, api/deps.py:66).
AccessEnds(lost) == now + skew < lost + Latency + TTL

LocalAccessEnds ==
  [][\A r \in Requests :
       (Answers(r, "ok") /\ endpoint'[r] \in {"whoami", "admin_summary"}) =>
         /\ AccessEnds(deactivated[token'[r].sub])
         /\ endpoint'[r] \in AdminOnly => AccessEnds(demoted[token'[r].sub])]_vars

\* The identity service never answers from a stale claim, directly or for the
\* client: a 200 goes to a user who, when the request came, was active, and an
\* admin where that is asked for (identity api/deps.py:38-58).
FreshAtIdentity ==
  \A r \in Requests :
    (pc[r] = "ok" /\ endpoint[r] \in AtIdentity \cup {"profile"}) => entitled[r]

\* A 401, or the 502 for a token that the identity service rejects, has a reason
\* outside the two caches of keys: no token, a clock outside its lifetime, a key that
\* the identity service no longer signs with, or a user who is not active.  The key
\* in use is never unknown (client core/security.py:33-35, identity core/jwt.py:53).
RefusalHasReason ==
  [][\A r \in Requests, answer \in {"unauthorized", "bad_gateway"} :
       (Answers(r, answer) /\ token'[r] # None) =>
         \/ ~Timely(token'[r], now)
         \/ endpoint'[r] \in AtClient /\ ~Timely(token'[r], now + skew)
         \/ token'[r].key # signing
         \/ endpoint'[r] \notin {"whoami", "admin_summary"} /\ ~Active(token'[r].sub)]_vars
=============================================================================
