---------------------------- MODULE RefreshTokens ----------------------------
(***************************************************************************)
(* The refresh-token lifecycle of the identity service                     *)
(* (identity_service/app/services/auth.py): login, rotation with reuse     *)
(* detection, logout.  Every HTTP request is a coroutine with a database   *)
(* session of its own; it can be interleaved with the others at each       *)
(* await, so an action is the Python code from one await to the next       *)
(* together with the SQL statement awaited there.                          *)
(*                                                                         *)
(* PostgreSQL runs the transactions at READ COMMITTED (the engine of       *)
(* db/session.py sets no isolation level): a SELECT sees what is committed *)
(* when it runs and takes no lock; an UPDATE locks each row it changes     *)
(* until the transaction ends, waits for a row another transaction holds   *)
(* and then tests its WHERE clause again on the newest version of the row. *)
(*                                                                         *)
(* A request mints at most one refresh token, so the token (and its row)   *)
(* bears the name of the request that minted it.                           *)
(***************************************************************************)
EXTENDS Naturals

CONSTANTS
  Requests,   \* the HTTP requests of a behaviour, each served once
  Users,      \* the registered users
  None,       \* no user, no request, a string that is no stored token
  RefreshTTL, \* settings.refresh_token_ttl_seconds
  MaxTime     \* bound on the clock

ASSUME ConstantsAssumption ==
  /\ None \notin Requests \cup Users
  /\ RefreshTTL \in Nat /\ MaxTime \in Nat

VARIABLES
  now,        \* the clock
  is_active,  \* users.is_active
  issued,     \* the rows of refresh_tokens
  revoked,    \* the rows whose revoked_at is not NULL
  expires_at, \* refresh_tokens.expires_at
  owner,      \* the user a request acts for; refresh_tokens.user_id of its row
  lock,       \* the request whose open transaction holds the row's lock
  pc,         \* where a request is, or how it was answered
  op,         \* the endpoint a request calls
  presented,  \* the refresh token in the body of the request
  stored,     \* what the SELECT of the request returned for that token
  family,     \* the rows the family-wide UPDATE of the request has to revoke
  before,     \* history: the requests answered before this one was sent
  sent        \* history: when the request was sent

tables  == <<is_active, issued, revoked, expires_at>>
request == <<owner, op, presented, stored, before, sent>>
vars    == <<now, tables, lock, pc, family, request>>

Waiting  == {"issuing", "selected", "loaded", "rotating", "revoking",
             "ending", "closing"}
Answered == {"granted", "lost", "rejected", "reused", "logged_out",
             "deactivated", "aborted"}

InFlight(r) == pc[r] \in Waiting \cup {"committed"}

(***************************************************************************)
(* The strings a client can send: tokens whose response it received, and   *)
(* strings the service never issued.                                       *)
(***************************************************************************)
Known == {t \in issued : pc[t] = "granted"} \cup {None}

Active(u) == {t \in issued \ revoked : owner[t] = u}
Held(r)   == {t \in Requests : lock[t] = r}

\* What SELECT ... WHERE token_hash = :hash returns, reduced to revoked_at.
Read(t) == IF t \notin issued THEN "absent"
           ELSE IF t \in revoked THEN "revoked" ELSE "active"

Init ==
  /\ now = 0
  /\ is_active = [u \in Users |-> TRUE]
  /\ issued = {} /\ revoked = {}
  /\ expires_at = [t \in Requests |-> 0]
  /\ owner = [r \in Requests |-> None]
  /\ lock = [t \in Requests |-> None]
  /\ pc = [r \in Requests |-> "idle"]
  /\ op = [r \in Requests |-> "none"]
  /\ presented = [r \in Requests |-> None]
  /\ stored = [r \in Requests |-> "absent"]
  /\ family = [r \in Requests |-> {}]
  /\ before = [r \in Requests |-> {}]
  /\ sent = [r \in Requests |-> 0]

Goto(r, from, to) == pc[r] = from /\ pc' = [pc EXCEPT ![r] = to]

\* Request r reaches `endpoint` and goes on at `to`.
Arrive(r, endpoint, to) ==
  /\ Goto(r, "idle", to)
  /\ op' = [op EXCEPT ![r] = endpoint]
  /\ before' = [before EXCEPT ![r] = {s \in Requests : pc[s] \in Answered}]
  /\ sent' = [sent EXCEPT ![r] = now]

LockRow(r, t) == lock[t] = None /\ lock' = [lock EXCEPT ![t] = r]

\* The end of the transaction of r, committed or rolled back.
ReleaseLocks(r) == lock' = [t \in Requests |-> IF lock[t] = r THEN None ELSE lock[t]]

\* Mutant of Insert: a sign error in the lifetime.
InsertStale(r) ==
  /\ issued' = issued \cup {r}
  /\ expires_at' = [expires_at EXCEPT ![r] = now - RefreshTTL]

\* INSERT of the row _create_refresh_token added to the session.
Insert(r) ==
  /\ issued' = issued \cup {r}
  /\ expires_at' = [expires_at EXCEPT ![r] = now + RefreshTTL]

-----------------------------------------------------------------------------
(* POST /auth/login                                                        *)

\* authenticate: the SELECT of the user, then the verification of the password.
Login(r, u, password_matches) ==
  /\ Arrive(r, "login", IF password_matches /\ is_active[u] THEN "issuing" ELSE "rejected")
  /\ owner' = [owner EXCEPT ![r] = u]
  /\ UNCHANGED <<now, tables, lock, family, presented, stored>>

\* issue_token_pair: INSERT and COMMIT.
IssuePair(r) ==
  /\ Goto(r, "issuing", "committed")
  /\ Insert(r)
  /\ UNCHANGED <<now, is_active, revoked, lock, family, request>>

-----------------------------------------------------------------------------
(* POST /auth/refresh and POST /auth/logout                                *)

\* The SELECT both begin with; logout has nothing to do unless the row is active.
Present(r, endpoint, t, to) ==
  /\ Arrive(r, endpoint, to)
  /\ presented' = [presented EXCEPT ![r] = t]
  /\ stored' = [stored EXCEPT ![r] = Read(t)]
  /\ owner' = [owner EXCEPT ![r] = IF t \in issued THEN owner[t] ELSE None]
  /\ UNCHANGED <<now, tables, lock, family>>

Refresh(r, t) == Present(r, "refresh", t, "selected")
Logout(r, t)  == Present(r, "logout", t, IF Read(t) = "active" THEN "ending" ELSE "logged_out")

Expired(r) == expires_at[presented[r]] <= now

\* rotate_refresh_token: an unknown or an expired token.
RejectStored(r) ==
  /\ stored[r] = "absent" \/ (stored[r] = "active" /\ Expired(r))
  /\ Goto(r, "selected", "rejected")
  /\ UNCHANGED <<now, tables, lock, family, request>>

\* Mutant of DetectReuse: only the presented row is revoked (again).
DetectReuseOfOne(r) ==
  /\ stored[r] = "revoked"
  /\ Goto(r, "selected", "revoking")
  /\ family' = [family EXCEPT ![r] = {presented[r]}]
  /\ UNCHANGED <<now, tables, lock, request>>

\* The row was revoked already: _revoke_all_for_user starts its UPDATE, whose
\* snapshot holds the rows of the user that are active now.
DetectReuse(r) ==
  /\ stored[r] = "revoked"
  /\ Goto(r, "selected", "revoking")
  /\ family' = [family EXCEPT ![r] = Active(owner[r])]
  /\ UNCHANGED <<now, tables, lock, request>>

\* The UPDATE reaches one more row, in an order PostgreSQL chooses; a row that
\* was revoked meanwhile fails the WHERE clause and is left out.
RevokeRow(r, t) ==
  /\ pc[r] = "revoking"
  /\ t \in family[r] \ revoked
  /\ LockRow(r, t)
  /\ UNCHANGED <<now, tables, pc, family, request>>

\* Mutant of CommitFamily: the commit is missing, closing the session rolls back.
ReportWithoutCommit(r) ==
  /\ family[r] \subseteq revoked \cup Held(r)
  /\ Goto(r, "revoking", "reused")
  /\ ReleaseLocks(r)
  /\ UNCHANGED <<now, tables, family, request>>

\* COMMIT of the family-wide revocation, then 401.
CommitFamily(r) ==
  /\ family[r] \subseteq revoked \cup Held(r)
  /\ Goto(r, "revoking", "reused")
  /\ revoked' = revoked \cup Held(r)
  /\ ReleaseLocks(r)
  /\ UNCHANGED <<now, is_active, issued, expires_at, family, request>>

\* Mutant of LoadUser: is_active is not looked at.
LoadAnyUser(r) ==
  /\ stored[r] = "active" /\ ~Expired(r)
  /\ Goto(r, "selected", "loaded")
  /\ UNCHANGED <<now, tables, lock, family, request>>

\* Mutant of LoadUser: the expiry is not looked at.
LoadUserOfExpired(r) ==
  /\ stored[r] = "active"
  /\ Goto(r, "selected", IF is_active[owner[r]] THEN "loaded" ELSE "rejected")
  /\ UNCHANGED <<now, tables, lock, family, request>>

\* Mutant of LoadUser: revoked_at is not looked at.
LoadUserOfRevoked(r) ==
  /\ stored[r] # "absent" /\ ~Expired(r)
  /\ Goto(r, "selected", IF is_active[owner[r]] THEN "loaded" ELSE "rejected")
  /\ UNCHANGED <<now, tables, lock, family, request>>

\* The SELECT of the token's user.
LoadUser(r) ==
  /\ stored[r] = "active" /\ ~Expired(r)
  /\ Goto(r, "selected", IF is_active[owner[r]] THEN "loaded" ELSE "rejected")
  /\ UNCHANGED <<now, tables, lock, family, request>>

\* Mutant of RetirePresented: revoked_at is never assigned.
KeepPresented(r) ==
  /\ Goto(r, "loaded", "rotating")
  /\ UNCHANGED <<now, tables, lock, family, request>>

\* The UPDATE the flush sends for stored.revoked_at: it names the row by its
\* primary key only, so it succeeds on a row that was revoked meanwhile.
RetirePresented(r) ==
  /\ Goto(r, "loaded", "rotating")
  /\ LockRow(r, presented[r])
  /\ UNCHANGED <<now, tables, family, request>>

\* The INSERT of the new row and the COMMIT.
CommitRotation(r) ==
  /\ Goto(r, "rotating", "committed")
  /\ revoked' = revoked \cup Held(r)
  /\ Insert(r)
  /\ ReleaseLocks(r)
  /\ UNCHANGED <<now, is_active, family, request>>

\* revoke_refresh_token: the same UPDATE, then the COMMIT.
EndSession(r) ==
  /\ Goto(r, "ending", "closing")
  /\ LockRow(r, presented[r])
  /\ UNCHANGED <<now, tables, family, request>>

CommitLogout(r) ==
  /\ Goto(r, "closing", "logged_out")
  /\ revoked' = revoked \cup Held(r)
  /\ ReleaseLocks(r)
  /\ UNCHANGED <<now, is_active, issued, expires_at, family, request>>

-----------------------------------------------------------------------------
(* Responses, failures and the environment                                 *)

\* The response with the new pair reaches the client, or is lost.
Reply(r, outcome) ==
  /\ Goto(r, "committed", outcome)
  /\ UNCHANGED <<now, tables, lock, family, request>>

\* Mutant of Abort: the statements commit one by one (autocommit).
AbortKeepsWrites(r) ==
  /\ pc[r] \in Waiting
  /\ pc' = [pc EXCEPT ![r] = "aborted"]
  /\ revoked' = revoked \cup Held(r)
  /\ ReleaseLocks(r)
  /\ UNCHANGED <<now, is_active, issued, expires_at, family, request>>

\* Mutant of Abort: the session of a failed request is not closed.
AbortKeepsLocks(r) ==
  /\ pc[r] \in Waiting
  /\ pc' = [pc EXCEPT ![r] = "aborted"]
  /\ UNCHANGED <<now, tables, lock, family, request>>

\* The process dies, the connection drops or a statement fails before the
\* COMMIT: get_session closes the session and PostgreSQL rolls back.
Abort(r) ==
  /\ pc[r] \in Waiting
  /\ pc' = [pc EXCEPT ![r] = "aborted"]
  /\ ReleaseLocks(r)
  /\ UNCHANGED <<now, tables, family, request>>

\* PostgreSQL aborts one transaction of a cycle of waiting transactions.
Deadlocked(r) ==
  \E C \in SUBSET {s \in Requests : pc[s] = "revoking"} :
    /\ r \in C
    /\ \A s \in C : \E t \in family[s] \ revoked : lock[t] \in C \ {s}

BreakDeadlock(r) == Deadlocked(r) /\ Abort(r)

\* Nothing in the service clears is_active: an operator does, in the database.
Deactivate(r, u) ==
  /\ Arrive(r, "deactivate", "deactivated")
  /\ owner' = [owner EXCEPT ![r] = u]
  /\ is_active' = [is_active EXCEPT ![u] = FALSE]
  /\ UNCHANGED <<now, issued, revoked, expires_at, lock, family, presented, stored>>

Tick ==
  /\ now < MaxTime
  /\ now' = now + 1
  /\ UNCHANGED <<tables, lock, pc, family, request>>

\* Every request of the behaviour has been served.
Finished ==
  /\ \A r \in Requests : pc[r] \in Answered
  /\ now = MaxTime
  /\ UNCHANGED vars

-----------------------------------------------------------------------------
Send(r) ==
  \/ \E u \in Users, password_matches \in BOOLEAN : Login(r, u, password_matches)
  \/ \E t \in Known : Refresh(r, t) \/ Logout(r, t)
  \/ \E u \in Users : Deactivate(r, u)

Serve(r) ==
  \/ IssuePair(r)
  \/ RejectStored(r) \/ DetectReuse(r) \/ LoadUser(r)
  \/ \E t \in Requests : RevokeRow(r, t)
  \/ CommitFamily(r)
  \/ RetirePresented(r) \/ CommitRotation(r)
  \/ EndSession(r) \/ CommitLogout(r)
  \/ \E outcome \in {"granted", "lost"} : Reply(r, outcome)

Next ==
  \/ \E r \in Requests : Send(r) \/ Serve(r) \/ Abort(r)
  \/ Tick
  \/ Finished

Spec == Init /\ [][Next]_vars

(***************************************************************************)
(* The event loop runs every coroutine that is ready, PostgreSQL answers   *)
(* every statement that is not blocked and breaks deadlocks.               *)
(***************************************************************************)
Fairness == \A r \in Requests : WF_vars(Serve(r)) /\ WF_vars(BreakDeadlock(r))

FairSpec == Spec /\ Fairness

-----------------------------------------------------------------------------
TypeOK ==
  /\ now \in Nat
  /\ is_active \in [Users -> BOOLEAN]
  /\ issued \subseteq Requests
  /\ revoked \subseteq issued
  /\ expires_at \in [Requests -> Nat]
  /\ owner \in [Requests -> Users \cup {None}]
  /\ lock \in [Requests -> Requests \cup {None}]
  /\ pc \in [Requests -> Waiting \cup Answered \cup {"idle", "committed"}]
  /\ op \in [Requests -> {"none", "login", "refresh", "logout", "deactivate"}]
  /\ presented \in [Requests -> Requests \cup {None}]
  /\ stored \in [Requests -> {"absent", "active", "revoked"}]
  /\ family \in [Requests -> SUBSET Requests]
  /\ before \in [Requests -> SUBSET Requests]
  /\ sent \in [Requests -> Nat]

-----------------------------------------------------------------------------
(* What the service promises, whatever the requests and their overlap      *)

\* The new row and the retirement of the presented one are committed together
\* (auth.py:149-152): no pair is ever bought with a token that is still active.
RotationAtomic ==
  \A r \in issued : op[r] = "refresh" => presented[r] \in revoked

\* A token is revoked only by a rotation that minted its successor, by a logout
\* that was answered 204, or by a reuse report for the same user; a request
\* that fails or is rolled back revokes nothing (auth.py:136-139, 149-152, 162-164).
RevocationHasCause ==
  \A t \in revoked : \E r \in Requests :
    \/ op[r] = "refresh" /\ r \in issued /\ presented[r] = t
    \/ pc[r] = "logged_out" /\ presented[r] = t
    \/ pc[r] = "reused" /\ owner[r] = owner[t]

\* The 401 for a replayed token is sent after every token that the user held
\* when the replay began is revoked and the revocation committed (auth.py:137-139).
FamilyRevoked ==
  \A r \in Requests : pc[r] = "reused" =>
    {t \in before[r] \cap issued : owner[t] = owner[r]} \subseteq revoked

\* The answer of r told its client that t is spent: it was rotated, logged out,
\* or it belongs to a user whose tokens the reuse report of r cancelled.
Spends(r, t) ==
  \/ presented[r] = t /\ pc[r] \in {"granted", "lost", "logged_out"}
  \/ pc[r] = "reused" /\ owner[r] = owner[t] /\ t \in before[r] \cap issued

\* A refresh sent after the answer that spent its token buys nothing, however it
\* overlaps with other requests (auth.py:130-142 reads the row it then rotates).
SpentTokenRefused ==
  \A s \in issued : \A r \in before[s] :
    op[s] = "refresh" => ~Spends(r, presented[s])

\* No pair is issued to a user deactivated before the request was sent, neither
\* by password nor by a token issued earlier (auth.py:80, 144-146).
DeactivationIsFinal ==
  \A s \in issued : \A r \in before[s] : op[r] = "deactivate" => owner[r] # owner[s]

\* A token past its expiry when a request was sent never buys that request a
\* pair, whatever the request waits for meanwhile (auth.py:141-142).
ExpiryIsFinal ==
  \A r \in issued : op[r] = "refresh" => sent[r] < expires_at[presented[r]]

\* Every request is answered: rows locked by a transaction are released whether
\* it commits, fails or is the victim of a deadlock (db/session.py:24-27).
EveryRequestAnswered ==
  \A r \in Requests : InFlight(r) ~> pc[r] \in Answered

-----------------------------------------------------------------------------
(* What holds of requests that do not overlap                              *)

\* Neither request was answered when the other one was sent.
Overlapping(r, s) == r \notin before[s] /\ s \notin before[r]

Sent       == {r \in Requests : pc[r] # "idle"}
Overlapped == \E r \in Sent : \E s \in Sent \ {r} : Overlapping(r, s)

\* Rotation makes a token single-use: it buys one pair at most (auth.py:148-152).
SingleUse ==
  \A r, s \in issued : presented[r] = presented[s] /\ presented[r] # None => r = s

\* A token buys a second pair only for a request in flight together with the first:
\* a retry after a lost answer, or a replay after a rotation, never does, whatever
\* other requests overlap with them (auth.py:130-152).
SingleUseInTurn ==
  \A r, s \in issued :
    presented[r] = presented[s] /\ presented[r] # None /\ r # s => Overlapping(r, s)

\* A reuse report ends every session the user had when the replay was sent:
\* none of their tokens, and no successor of one, is active after the 401
\* (auth.py:120-123).
FamilyDead ==
  \A r \in Requests, t \in issued :
    pc[r] = "reused" /\ owner[t] = owner[r] /\ presented[t] \in before[r] => t \in revoked

\* A session outlives a reuse report only by a rotation in flight together with it:
\* no token that was handed out before the replay was sent, and none that is bought
\* with such a token after the 401, is active (auth.py:133-139).
FamilyDeadInTurn ==
  \A r \in Requests, t \in issued \ revoked :
    pc[r] = "reused" /\ owner[t] = owner[r] /\ {t, presented[t]} \cap before[r] # {}
      => Overlapping(r, t)

\* The requests that commit are the steps of the token contract, one by one and
\* in the order of their commits; requests that fail are no step of it.
Contract == INSTANCE TokenContract WITH
  Tokens     <- Requests,
  live       <- issued \ revoked,
  retired    <- revoked,
  holder     <- [t \in Requests |-> IF t \in issued THEN owner[t] ELSE None],
  origin     <- [t \in Requests |-> IF t \in issued THEN presented[t] ELSE None],
  overlapped <- Overlapped

ImplementsContract == Contract!Spec
=============================================================================
