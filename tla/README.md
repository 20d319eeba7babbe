# A TLA+ model of the identity service and the client app

The repository holds two FastAPI applications. The **identity service**
(`src/identity_service`) registers users, logs them in, signs RS256 access tokens
and hands out refresh tokens that it rotates, with reuse detection. The **client
app** (`src/client_app`) is a resource server: it verifies access tokens against
the public keys it downloads from the identity service, calls `/me` there, counts
primes and aggregates three public APIs. This directory models the parts with state
and concurrency in TLA+, checks them with TLC and proves their safety with TLAPS.

## 1. Inventory

| Component | State | Operations | Interacts with |
|---|---|---|---|
| Refresh-token lifecycle (`services/auth.py`, `api/auth.py`) | rows of `refresh_tokens`, `users.is_active` | login, refresh, logout; family-wide revocation | PostgreSQL (transactions, row locks), accounts, signing key |
| Signing-key store (`core/keys.py`) | PEM file, `lru_cache` of each process | load, generate, write | file system, JWKS endpoint, token signing |
| JWKS client (client `core/jwks.py`, `core/security.py`) | cached keys, an `asyncio.Lock` | `get_key`, `_refresh`, `verify_access_token` | identity service over HTTP, every protected endpoint |
| Prime counting (client `services/analytics.py`) | local to a call | `_simple_sieve`, `count_primes` | worker threads |
| Accounts (`services/auth.py:52-82`, `main.py:33-49`) | rows of `users` | register, authenticate, create the admin at startup | PostgreSQL |
| Access tokens and roles (`core/jwt.py`, both `api/deps.py`, client `api/protected.py`, `services/identity.py`) | the token itself, two clocks | sign, decode, `require_role`, `/me`, `/profile` | accounts, JWKS client |
| Request handling of the client app (client `api/*`, `main.py`) | where each request is | the endpoints and their dependencies | threads, HTTP client, key cache |
| Company snapshot (client `services/aggregation.py`) | local to a call | three concurrent fetches | three public APIs, the shared HTTP client |
| Worker threads (client `api/analytics.py:46`, `api/deps.py:30-35`) | tokens of anyio's thread limiter | calculations, synchronous dependencies | every protected endpoint |
| Schema (`alembic/`) | tables, `alembic_version` | upgrade at each start | accounts, PostgreSQL |
| Rate limiter, hashing, configuration, logging | — | — | — |

What is hard, per component, and what would make it right:

* **Refresh tokens.** A request is a coroutine with a transaction of its own; the
  service reads a row, decides in Python and writes later. Two refreshes with one
  token, a refresh during a family-wide revocation, a crash before the commit, a
  lost answer, a deadlock of two family-wide updates, a deactivation or an expiry
  half-way. Right means: rotation is atomic, nothing is revoked without a cause, a
  spent token stays spent, a reuse report ends the sessions it says it ends.
* **Key store.** Check-then-create on a file that several processes may share, and
  that a process may leave half-written. Right means: a restart keeps the key the
  tokens were signed with, and every process gets a key.
* **JWKS client.** A burst of misses, a rotation during a fetch, late answers, failed
  fetches with a queue behind them. Right means: one fetch at a time, none without a
  need, no refusal of a token of the key in use, no step back to an older key.
* **Prime counting.** Boundaries: ends of segments, squares of primes, slices and
  their lengths. Right means: the number of primes, whatever the segmentation.
* **Accounts.** Lookup-then-insert races; the address as typed against the address
  as normalised; instances that migrate one database at once, or die half-way.
  **Access tokens.** Two clocks without leeway, a role that changed
  after the token was signed, a local check followed by a remote one.
* **Client app.** Everything of a process is shared: 40 threads, 100 connections, one
  lock around the keys. Right means: a failed source, a failed fetch of the keys or a
  hanging service costs the request that called it and no other; a calculation, or a
  token whose key is cached, never waits for the network; nobody waits for ever.

`PROJECT.json` lists all hazards at their lines, with the properties that cover them.

## 2. Modules

| Module | What it is |
|---|---|
| `RefreshTokens` | the lifecycle of refresh tokens on PostgreSQL |
| `TokenContract` | what the service promises about them, without requests and transactions |
| `MCRefreshTokens`, `MCReplay` | instances for TLC: symmetry; a database that already holds a rotated token |
| `RefreshTokens_proofs`, `RefreshTokensContract_proofs` | proofs: what each request may do; the contract |
| `JwksClient`, `MCJwksClient`, `JwksClient_proofs` | the key cache of the client app |
| `KeyCache` | what that cache does, without requests, lock and queue; `JwksClient` implements it |
| `KeyStore`, `MCKeyStore`, `KeyStore_proofs` | the signing key of the identity service |
| `PrimeSieve`, `MCPrimeSieve`, `PrimeSieve_proofs` | the segmented sieve |
| `Accounts`, `MCAccounts`, `Accounts_proofs` | migration and admin at each start, registration, login |
| `AccessTokens`, `MCAccessTokens`, `AccessTokens_proofs` | access tokens and roles across both services |
| `WorkerThreads` | the threads of a process, first come first served |
| `OutboundCalls` | the shared HTTP client, its connections, and the services it calls |
| `ClientApp`, `MCClientApp`, `ClientApp_proofs` | the endpoints of the client app, composed of the two and the key cache |

Every component module has the form: constants with `ConstantsAssumption`, variables
named after the code, one action per step, `Spec`, `FairSpec`, properties. A mutant,
a definition with one plausible bug, stands before the definition it varies; no
specification uses it, it shows that a property can fail.

### RefreshTokens

An action is the Python code from one `await` to the next, with the SQL statement
that is awaited there; between two actions of a request any other request may run.
The engine sets no isolation level (`db/session.py:19`), so PostgreSQL runs at READ
COMMITTED: a SELECT reads committed rows and locks nothing; an UPDATE locks the rows
it changes until the transaction ends, and tests its WHERE clause again on a row it
had to wait for. `lock` is that row lock.

| Code | Actions |
|---|---|
| `authenticate`, `issue_token_pair` | `Login`, `IssuePair` |
| `rotate_refresh_token` | `Refresh` (SELECT), `RejectStored`, `LoadUser`, `RetirePresented` (UPDATE), `CommitRotation` (INSERT, COMMIT) |
| its reuse branch, `_revoke_all_for_user` | `DetectReuse` (snapshot of the UPDATE), `RevokeRow` (row by row), `CommitFamily` |
| `revoke_refresh_token` | `Logout`, `EndSession`, `CommitLogout` |
| the response | `Reply`: it reaches the client or is lost |
| an exception, a dead process, a lost connection, a deadlock victim | `Abort` (rollback) |
| an operator who clears `is_active`, the clock | `Deactivate`, `Tick` |

A token bears the name of the request that minted it. The client knows the tokens
whose response it got, and may present any of them again at any time, which includes
the retry after a lost response. `before`, `sent` and `family` record what was
answered when a request was sent, the time then, and what the UPDATE found; they let
properties speak of order: `Overlapping` requests are those of which neither was
answered when the other was sent, and `Overlapped` tells whether there are any.
`SingleUseInTurn` and `FamilyDeadInTurn` say what is left of two promises that the
overlap of requests breaks (section 4).

Abstracted: hashes and bytes of tokens (a token and its digest are one value), the
access token of the pair (no state), passwords (a boolean), the rate limiter.

### TokenContract

`Grant`, `Rotate`, `Retire`, `RetireFamily` on the sets of live and retired tokens;
`holder` is the user of a token, `origin` the token it was bought with. The service may
start with any database that such steps could have left. `RefreshTokens!Contract` is the
refinement mapping (`live <- issued \ revoked`): each commit is one step of the contract,
everything else a stutter, but for the step with which two requests first overlap
(`Overlap`). Until then a token buys one successor and a reuse report ends every session
of its user; from then on a token may buy several successors, and a report may miss
sessions that begin or end while it is under way. What stays: a successor belongs to the
user of its token, a token that is retired never comes back to life, a logout ends at most
the one session, and a report ends sessions of nobody but the user whose token was
replayed.

### JwksClient

All requests of the client app share one event loop; `Hit`, `Fetch`, `AwaitLock`,
`TakeLock`, `Install` and `FailFetch` are the code of `get_key` and `_refresh` between
awaits. `queue` is the `asyncio.Lock`: its holder and its waiters, first come first
served. `ServeJwks` is the moment the identity service builds its answer, so a slow
answer may be outdated when it is installed. `StopIdentity`, `StartIdentity` change
the signing key (or keep it); `RestartClient` loses cache and requests. A kid is the
position of its key among the keys ever used, 0 for a forged one.

### KeyCache

The one cache behind it: a key on its way (`reply`) and the key held (`cache`). In
`JwksClient` the key on its way is the reply to whoever heads the queue (`Reply`); that
the rest of the queue never gets at the cache is the refinement `ImplementsKeyCache`.

### KeyStore

`Exists`, `Load`, `Generate`, `Open` (create or truncate), `Write` are the steps of
`_load_or_generate_private_key` as far as another process, or a crash, can tell them
apart; `Return` fills the cache. `path` and the processes deployed are chosen at the
start. `Recreate` is a new container without the file (`docker-compose.yml:28-29`).
Only processes die, not the machine: what `write_bytes` wrote stays.

### PrimeSieve

One step per iteration of a loop, flags as sets of indices. Assigning bytes to an
extended slice raises in Python when the lengths differ; `StrikePrime` ends in
"ValueError" then. The endpoint's two checks are `Reject`.

### Accounts

Requests to `/auth/register` and `/auth/login` and the starts of several instances
share the table of users. A start is `alembic upgrade head && uvicorn`
(`identity_service/Dockerfile:29`): `Upgrade` reads the revision, `CreateTables` and
`CommitSchema` are the migration in its transaction (`alembic/env.py:41-51`, transactional
DDL of PostgreSQL), `schema` is what the database holds. Instances may migrate at once
and die at any point. `Register` and `LookUpAdmin`, `RegisterAdmin` are the lookups,
`Insert` is INSERT with COMMIT, which the unique index on `users.email` may refuse.
`UserCreate` normalises an address (`EmailStr` writes the domain in lower case);
`Normal` is that function. A login and the lookup at startup use the address as it was
typed or configured. Passwords are right; accounts are not deleted, since no code does.

### AccessTokens

`ReadUser` is the SELECT of a login or a refresh, `Sign` the `create_access_token` that
follows some time later. The client's endpoints: `Hit` or `Fetch`, `ServeJwks`,
`Install` is `verify_access_token`; `Claims` is what follows once the key is there. The
identity service's: `Authenticate` (or `Forward`, for a token that comes with
`/profile`) decodes, `LoadUser` reads the user and checks the role. The state of an
account is the time at which an operator took it away: `deactivated`, `demoted`.
`skew` is constant in a behaviour. The key cache has one fetch at a time here as well, and
no queue behind it: a request that would wait arrives later. That the queue makes no more
of it than that is what `JwksClient` shows; the steps of the fetch are the same code.

### WorkerThreads, OutboundCalls, ClientApp

`Submit` and `Return` ask for a thread and give it back; anyio's limiter (40 tokens
unless configured) hands them out in the order of the requests. `Dial` starts the calls
of a request, `Connect`, `Starve` and `Respond` are what becomes of each: a connection
and an answer, or `httpx.PoolTimeout`. A service is `healthy` throughout a behaviour or
may answer anything; an answer is `failed` (no connection, timeout, error status),
`malformed` (a 200 whose processing raises) or `unencodable` (a 200 that is processed and
then cannot be written into the response, as JSON with a lone surrogate). `_run_source`
and `fetch_user_profile` see the first two; the last passes for a success (`Processed`)
until FastAPI encodes the response (`Encodable`, `Profile`).

| Code | Actions of `ClientApp` |
|---|---|
| FastAPI before the endpoint: bearer token, query parameters | `Refuse`, `Accept`, `RefuseCompany` |
| `get_jwks_client`, `get_http_client`, `count_primes` in a thread | `Accept`, `Admit` (the queue), `Resume` (the return) |
| `verify_access_token`, `get_key` | `Hit`; `Miss`, `FindKey` or `FetchKeys`, `StoreKeys`; `Verdict` is what the claims decide |
| `fetch_user_profile`, `profile` | `CallIdentity`, `Profile` |
| `build_company_snapshot`, `_run_source`, the encoding of the response | `Gather`, `Snapshot` |
| the identity service has a new key | `ReplaceKey` |

`/whoami` and `/admin/summary` are one endpoint here (`claims`): they differ in what the
claims say, which `AccessTokens` models. Of the cache this module keeps whether it holds
the current key; its contents are `JwksClient`'s.

## 3. Runs

| Run | Configuration | What it shows |
|---|---|---|
| `concurrent` | 2 users; 2 requests on a database with one rotated and two live tokens, 3 on an empty one, overlapping; tokens expire at time 1 | types, `RotationAtomic`, `RevocationHasCause`, `FamilyRevoked`, `SpentTokenRefused`, `DeactivationIsFinal`, `ExpiryIsFinal`, `SingleUseInTurn`, `FamilyDeadInTurn`, `ImplementsContract`, `EveryRequestAnswered` |
| `overlap_single_use`, `overlap_family` | 4 overlapping requests, 1 user | violated: `SingleUse`, `FamilyDead` |
| `jwks` | 3 requests, 3 keys | types, `ImplementsKeyCache`, `CurrentKeyIsKnown`, `BurstSharesFetch`, `CacheNeverGoesBack`, `EveryRequestAnswered` |
| `keys` | 1 or 2 processes, 5 keys, 3 crashes | types, `TokensSurviveRestarts`, `KeyFileSettles`, `EveryProcessGetsAKey` |
| `key_torn` | 1 process, 1 crash | violated: `ExistingFileLoads` |
| `sieve` | ranges between 41 numbers up to 291, segments of 12 | types, `CountExact`, `Terminates` |
| `accounts` | 3 requests, 2 instances, 2 addresses, one in 2 spellings | types, `OneWinner`, `RefusedWhenTaken`, `RegisteredCanLogIn`, `RestartsSucceed` |
| `accounts_bootstrap` | 1 instance, no requests | violated: `CreatesOnlyIfAbsent` |
| `access_tokens` | 1 user, 2 tokens of 2 seconds, 2 keys, clocks that differ by -1, 0, 1 | types, `LocalAccessEnds`, `FreshAtIdentity`, `RefusalHasReason` |
| `client_app` | 3 connections (snapshots; claims and profiles; calculations and claims), 1 thread, 2 HTTP connections, 2 public APIs; one of them or the identity service is unhealthy | types, `SourcesIsolated`, `FailuresAreOwn`, `NoCircularWait`, `LocalRequestsAnswered`, `EveryRequestAnswered` |
| `snapshot_lost` | as `client_app` | violated: `SnapshotAlwaysAnswered` |

Why the bounds are enough. *Refresh tokens*: the provisioned database is two sessions
and a rotation deep, so that two replays can lock its live rows in opposite orders and
a replay meets a rotation, a logout, a deactivation or an expiry; three requests on an
empty one are a login, a rotation and a replay or a retry. The second session of the
provisioned database is of the same user, where the family-wide UPDATE must end it, or of another one,
where it must not; on the empty one the other user is deactivated. *JWKS*: a
holder of the lock and two waiters, and a key that is rotated during the fetch and
once more after it. *Key store*: a race needs two processes; five keys are one for
each start of a process that three crashes allow, so the bound never stops a
behaviour. *Sieve*: the numbers lie around the ends of segments, 49, 121, 169 and 289;
the root of 290 is 17, so the inner sieve strikes for 2 and 3 and passes over 4, and
the base primes 13 and 17 are larger than a segment. *Accounts*: three requests are
two registrations that race and a login, or three that race; of two instances one may
start while the other inserts. *Access tokens*: one connection carries any number of
requests one after another; requests that overlap meet only in the key cache, which
`jwks` checks. Two tokens are one of each key, or one from before and one from after a
demotion; five instants let a token that was read before a deactivation be signed
after it and expire. *Client app*: the three connections carry any number of requests
one after another, so every pair of endpoints meets with each of them first; one
thread and two HTTP connections are the smallest pools that are ever exhausted and
ever free; two APIs let one fail while the other answers. `Latency` bounds the time
from the SELECT of a user to the signing, for which the code sets no limit: the window
of `LocalAccessEnds` grows with it. The invariants that carry the proofs hold for
every value of the constants.

Fairness. *Refresh tokens*: weak fairness of `Serve` for each request (the event loop
runs a coroutine that is ready, PostgreSQL answers a statement that is not blocked)
and of `BreakDeadlock` (PostgreSQL's deadlock detector aborts one of a cycle of waiting
transactions after `deadlock_timeout`). Nothing forces a request to be sent, or to
fail. *JWKS*: weak fairness of `Serve`; a fetch ends because httpx has a timeout
(`http_timeout_seconds`), and the failure is always possible while it runs. *Key
store*: weak fairness of the steps of `get_key_pair`: requests keep coming; the
property is claimed only while no process dies. *Sieve*: the thread runs.
*Client app*: weak fairness of `Handle`: the event loop runs what is ready, and a
function in a thread returns, since the range of a calculation is bounded
(`analytics_max_end`). `LocalRequestsAnswered` assumes no more: the network may hang
for ever. `EveryRequestAnswered` assumes `CallsEnd`, that every call ends, as the
timeouts of httpx make it do; they are timeouts of single reads, so a service that
trickles its answer is outside this assumption.

## 4. Where the code and its documentation differ

* `overlap_single_use` (`services/auth.py:133`). Both of two overlapping refreshes
  read the row as active; the UPDATE of the second waits for the first, then succeeds,
  since it names the row by its primary key only. One token buys two pairs.
* `overlap_family` (`services/auth.py:137`). The family-wide UPDATE does not see the
  row an overlapping rotation inserts; its token survives the reuse report. That these
  two need requests in flight at the same time, and that no retry or replay sent after
  the answer has such an effect, are `SingleUseInTurn` and `FamilyDeadInTurn`, proved as
  `SecondPairsOverlap` and `SurvivorsOverlap`.
* `key_torn` (`core/keys.py:89`). A process killed between creating the key file and
  writing it leaves a file that exists and cannot be loaded, so every later request
  that needs the key fails.
* `accounts_bootstrap` (`main.py:38`). With `admin@Example.com` configured the first
  start stores `admin@example.com`; the second does not find what is configured,
  registers it, and dies of `EmailAlreadyExistsError`. `RestartsSucceed` shows that an
  address in normal form does not have the problem.
* `snapshot_lost` (client `api/aggregation.py:38`). `_run_source` turns what its source
  does into a result, but the response is encoded after the endpoint has returned. A body
  such as `{"name": "\ud800"}` is read as JSON and cannot be written as UTF-8: the caller
  gets a 500 and none of the sources, where the comment says "Always returns 200".
  `SourcesIsolated` says that a source that is down, late or unreadable never does this.

Others were met while modelling and have no run. A failed download of the keys raises
an httpx exception that no handler turns into the 401 of `docs/client-app.md:167`
(client `core/jwks.py:48`): the answer is a 500. The loser of a race for an address
gets a 500 instead of the 409 (`services/auth.py:64`). A token that `/me` refuses makes
`/profile` answer 502, under the comment "Surface auth failures faithfully"
(client `services/identity.py:36`). A logged-out token that is
presented again counts as reuse (`services/auth.py:133`), though the comment below
speaks of replay after rotation. A failed or fruitless download is repeated by each
request of the burst (`jwks.py:41`), though `docs/client-app.md:158` promises one.
After a restart with a new key the client still accepts tokens of the cached old one
until a miss (`keys.py:105` says they do not survive). A calculation "doesn't freeze the
server for other users" (`docs/client-app.md:92`): as many calculations as there are
threads make every protected endpoint wait for one to end, because its dependencies are
plain functions (client `api/deps.py:30-35`); that they do get their turn is
`LocalRequestsAnswered`. A 200 of `/me` that is not JSON, or cannot be encoded again, is
answered 500, not the 502 of every other failure (client `services/identity.py:34`).

## 5. Proofs

All theorems hold for every set of requests, users, processes, any number of keys,
threads, connections, crashes and ticks, every range and every size of a segment, under
the `ConstantsAssumption` of the module alone.

* **`RefreshTokens_proofs`**: `TypeCorrectness`, `RotationIsAtomic`,
  `RevocationIsCaused`, `ReuseRevokesFamily`, `SpentTokensAreRefused`,
  `DeactivatedUsersGetNothing`, `ExpiredTokensBuyNothing`. None of the properties is
  inductive: that a rotation leaves its token revoked, for example, needs that the
  request holds the lock of the very row it presented. `IInv` therefore states what a
  request has established by the time it reaches each pc (`Control`), that presented
  tokens and families belong to the user of the request (`Tokens`), that a lock is
  held by a request about to revoke that row (`Locking`), what the clock showed when
  it was sent (`Timing`), and what the requests answered earlier imply for later ones
  (`History`). One lemma per action shows that it is preserved. From the same invariant:
  a token buys a second pair only for a refresh in flight together with the first
  (`SecondPairsOverlap`), and a session outlives a reuse report only by a rotation in
  flight together with the report (`SurvivorsOverlap`);
  a row lock delays a request only for one of the same user that is still being served
  (`WaitsStayWithinAUser`), and every circle of transactions that wait for each other's
  rows consists of reuse reports (`DeadlocksAreReports`), the one case for which
  `Fairness` calls upon the database's deadlock detector.
* **`RefreshTokensContract_proofs`**: `Refinement`: `Spec => ImplementsContract`, for
  requests that overlap and for requests that do not. `Fresh` says that, until two
  requests have overlapped, what a request read still holds when it writes, and that it is
  the only one in flight: the point where overlap weakens the contract. Each commit has a
  lemma that maps it to its step.
* **`JwksClient_proofs`**: `TypeCorrectness`, `FetchesAreMisses`,
  `CurrentKeyIsNeverRefused`, `BurstsShareAFetch`, `CacheMovesForward`. The invariant
  says that the queue is in order and holds exactly the waiting requests (`Queueing`),
  that a key set on its way is no older than the cache and than the token it is
  fetched for (`Replies`), and what is known of the requests ahead (`Sharing`).
  `QueueImplementsKeyCache` maps each step to one of `KeyCache` or a stutter: only the
  head of the queue has a reply (`OneReply`). `QueueNeverStalls`: the head of the queue
  is always a request with something to do, which it does in two steps at most, and
  nobody is overtaken.
* **`KeyStore_proofs`**: `TypeCorrectness`, `CompleteKeyFileStays` (any number of
  processes), `RestartsKeepTheKey` (one process). `OneKey` ties the file to the pc:
  absent until the process opens it, torn while it writes, the used key afterwards.
  `IncompleteFilesAreCompleted` (any number): while nobody dies, a file without a
  complete key has a process that is about to complete it.
* **`PrimeSieve_proofs`**: `TypeCorrectness`, `CountsAreExact`, `ZeroBytesFit`,
  `EveryStepIsProgress`, `NoCallIsStuck`. Both sieves have the same loop invariant: the
  flags still set are exactly those of the numbers without a divisor, among the ones
  struck with so far, whose square does not exceed them (`Unstruck`, `Left`). That a
  composite number has a prime factor up to the root of the limit is the lemma both
  rest on, proved from the least of its factors; that the code's number of zero bytes
  is the number of indices of the slice is `SliceLength`.
  Four natural numbers, compared lexicographically, drop with every step.
* **`Accounts_proofs`**: `TypeCorrectness`, `RegistrationsHaveOneWinner`,
  `RefusalsAreDeserved`, `RegisteredUsersLogIn`, `NormalAddressesRestart`. A row and
  the 201 of its request come into being together (`Owning`), so a row that stands in
  the way is somebody else's; an instance that did not find a normal address has not
  created it (`NotMine`); tables without a revision exist only inside the transaction of
  an instance that migrates (`Migrating`).
* **`AccessTokens_proofs`**: `TypeCorrectness`, `IdentityIsFresh`,
  `LocalAccessIsBounded`, `RefusalsHaveReasons`. `Rows` and
  `Minted` bound how long before its signature a token's claims were true; `Holding`
  says that the key set on its way is no older than the token it is fetched for, so an
  unknown key is an old one; `Doomed` that what a user lost stays lost while a request
  is in progress.
* **`ClientApp_proofs`**: `TypeCorrectness`, `SourcesAreIsolated`,
  `NobodySharesAFailure`, `NobodyWaitsInVain`, `NobodyIsOvertaken`. `Threading` says that
  a request in a function that needs a thread has one or stands in the queue, never
  both, so the limit is never passed; `Calling` says that a call is on its way only while its request waits
  for it, hence an answered request keeps the outcomes that explain its answer; `Routes`
  says who may be where, `Locking` that those at the lock are the ones in its queue and
  that who fetches is the first of them, `Dialled` that nobody waits for a call it has
  not made.

Only model-checked: liveness (`EveryRequestAnswered`, `EveryProcessGetsAKey`,
`LocalRequestsAnswered`, `Terminates`), which TLAPS does not support together with
fairness. What these properties need of the states, that nobody waits for something
that cannot come, is proved for each: `WaitsStayWithinAUser` and `DeadlocksAreReports`,
`QueueNeverStalls`, `IncompleteFilesAreCompleted`, `NobodyWaitsInVain` and
`NobodyIsOvertaken`, `NoCallIsStuck` and `EveryStepIsProgress`. Every invariant and
every action property of the passing runs, and both refinements, are theorems.

## 6. Not modelled

The rate limiter is an external library that the code only configures (5 per minute
and address, in memory). Configuration, logging, health checks and response headers
have no state or only write. Hashing is a call of argon2 and SHA-256; that argon2 stops
the event loop for its time (`services/auth.py:76`) is a longer pause between two
actions here. Downgrades and offline migrations are run by hand. Tokens that the identity
service did not sign, and the reactivation or promotion of a user, are left out of
`AccessTokens`.

Smaller differences that no property depends on. `CommitRotation` takes `expires_at`
from the clock at the COMMIT; the code computes it before the UPDATE, which may wait for
a row (`services/auth.py:94-95`). A COMMIT whose acknowledgement is lost is not an event
of its own: if it took effect it is a lost response, otherwise an `Abort`. `FailFetch`
stands for every way in which `_refresh` raises, the parsing of the key set included
(`jwks.py:47-55`). An `OSError` of `mkdir` or `write_bytes` in the key store is left
out, as is a `session.refresh` that fails after the COMMIT of a registration
(`services/auth.py:65`), which answers 500 for an account that exists. A 401 that a
working `/me` gives to a token it rejects counts as the answer of an unhealthy service
in `ClientApp`; when it gives one is modelled in `AccessTokens`.

What some properties leave open, by what the code does. A request that has read the user
before a deactivation, or its token before the expiry, still gets its pair:
`DeactivationIsFinal` and `ExpiryIsFinal` speak of requests sent later. A process that
lost the race for the key file signs with its own key until it ends: `KeyFileSettles` says
that no other joins it. A login typed with the domain in another spelling than the normal
one does not find the account: `RegisteredCanLogIn` speaks of the normal form.

## 7. Plan

In this order, the most important behaviour first:

1. *Done*: `RefreshTokens` with `TokenContract`, `JwksClient` with `KeyCache`,
   `KeyStore`, `PrimeSieve`, `Accounts` with the migration, `AccessTokens`,
   `ClientApp` with `WorkerThreads` and `OutboundCalls`, and the proofs above, those
   about `PrimeSieve` and about who waits for whom included.
2. Proofs: that `ClientApp` with its bit `cached` implements `KeyCache`; that the
   processes of `KeyStore` that sign with different keys are those that started together.
3. `JwksClient` driven by `KeyStore` instead of by `StartIdentity`, and `ClientApp` with
   the cache of `JwksClient` instead of one bit.
