-------------------------- MODULE AccessTokens_proofs --------------------------
(***************************************************************************)
(* Who is let in and who is refused, for every lifetime of tokens, every   *)
(* difference of the clocks, every delay of a signature and any number of  *)
(* users, requests, tokens and keys.                                       *)
(***************************************************************************)
EXTENDS AccessTokens, TLAPS

\* A row that is being signed was read less than Latency ago, from a user who had the
\* account and the role then.
Rows ==
  \A row \in reading :
    /\ row.at <= now /\ now <= row.at + Latency
    /\ row.at <= deactivated[row.sub]
    /\ row.admin => row.at <= demoted[row.sub]

\* A token was signed at most Latency after its user lost what it says.
Minted ==
  \A t \in tokens :
    /\ t.iat <= now /\ t.key <= signing
    /\ t.iat <= deactivated[t.sub] + Latency
    /\ t.admin => t.iat <= demoted[t.sub] + Latency

\* What a request in progress holds.  A key set that is served is no older than the
\* token it was asked for.
Holding ==
  \A r \in Requests :
    /\ pc[r] \in Pending => token[r] \in tokens
    /\ pc[r] = "fetching" =>
         /\ endpoint[r] \in AtClient
         /\ reply # 0 => token[r].key <= reply
    /\ pc[r] = "calling" => endpoint[r] = "profile"
    /\ pc[r] = "loading" => endpoint[r] \in AtIdentity \cup {"profile"}

\* What a user has lost is not given back while a request is in progress.
Doomed ==
  \A r \in Requests :
    (pc[r] \in Pending /\ ~entitled[r]) => ~Entitled(endpoint[r], token[r])

IInv == TypeOK /\ Rows /\ Minted /\ Holding /\ Doomed /\ FreshAtIdentity

LEMMA Constants ==
  /\ TTL \in Nat /\ Latency \in Nat /\ MaxTime \in Nat /\ MaxKeys \in Nat /\ MaxKeys >= 1
  /\ \A s \in Skews : s \in Int
  /\ Never \in Nat /\ Never \notin Times /\ \A n \in Times : n \in Nat /\ n <= Never
  /\ None \notin Token
<1>1. Token \subseteq [sub : Users, admin : BOOLEAN, iat : Nat, key : Nat]
  BY ConstantsAssumption DEF Token, Times
<1> QED
  BY <1>1, ConstantsAssumption DEF Never, Times

LEMMA InitInv == Init => IInv
<1> SUFFICES ASSUME Init PROVE IInv
  OBVIOUS
<1>1. TypeOK
  BY Constants DEF Init, TypeOK, Times, AtClient
<1>2. Rows /\ Minted
  BY DEF Init, Rows, Minted
<1>3. \A r \in Requests : pc[r] = "idle"
  BY DEF Init
<1>4. Holding /\ Doomed /\ FreshAtIdentity
  BY <1>3 DEF Holding, Doomed, FreshAtIdentity, Pending, InFlight
<1> QED
  BY <1>1, <1>2, <1>4 DEF IInv

LEMMA StutterInv ==
  ASSUME IInv, UNCHANGED vars
  PROVE  IInv'
  BY DEF IInv, vars, accounts, request, TypeOK, Rows, Minted, Holding, Doomed,
         FreshAtIdentity, Entitled, Active, Admin

-----------------------------------------------------------------------------
(* Requests                                                                *)

\* A request arrives and goes on to `to`.
LEMMA ArriveInv ==
  ASSUME IInv, NEW r \in Requests, NEW e \in AtClient \cup AtIdentity, NEW t \in tokens \cup {None},
         NEW to \in Answered \cup Pending,
         Arrive(r, e, t, to),
         to \in Pending => t \in tokens,
         to = "fetching" => e \in AtClient /\ reply = 0,
         to = "calling" => e = "profile",
         to = "loading" => e \in AtIdentity,
         to = "ok" => e \in {"whoami", "admin_summary"},
         UNCHANGED <<now, skew, signing, cache, reply, accounts, reading, tokens>>
  PROVE  IInv'
<1> USE DEF IInv, accounts
<1>1. /\ pc[r] = "idle" /\ pc' = [pc EXCEPT ![r] = to]
      /\ endpoint' = [endpoint EXCEPT ![r] = e]
      /\ token' = [token EXCEPT ![r] = t]
      /\ entitled' = [entitled EXCEPT ![r] = t # None /\ Entitled(e, t)]
  BY DEF Arrive, Goto
<1>2. TypeOK'
  <2>1. (t # None /\ Entitled(e, t)) \in BOOLEAN /\ t \in Token \cup {None}
    BY DEF TypeOK
  <2>2. endpoint' \in [Requests -> AtClient \cup AtIdentity] /\ token' \in [Requests -> Token \cup {None}]
        /\ entitled' \in [Requests -> BOOLEAN]
    BY <1>1, <2>1 DEF TypeOK
  <2>3. pc' \in [Requests -> Answered \cup Pending \cup {"idle"}]
    BY <1>1 DEF TypeOK, Pending
  <2>4. \A s \in Requests : pc[s] = "fetching" => pc'[s] = "fetching"
    BY <1>1 DEF TypeOK
  <2> QED
    BY <2>2, <2>3, <2>4 DEF TypeOK
<1>3. Rows' /\ Minted'
  BY DEF Rows, Minted
<1>4. Holding'
  BY <1>1 DEF TypeOK, Holding, Pending, InFlight
<1>5. Doomed'
  <2> SUFFICES ASSUME NEW s \in Requests, pc'[s] \in Pending, ~entitled'[s]
               PROVE  ~Entitled(endpoint[s], token[s])'
    BY DEF Doomed
  <2>1. CASE s = r
    BY <1>1, <2>1, Constants DEF TypeOK, Entitled, Active, Admin
  <2>2. CASE s # r
    BY <1>1, <2>2 DEF TypeOK, Doomed, Entitled, Active, Admin
  <2> QED
    BY <2>1, <2>2
<1>6. FreshAtIdentity'
  BY <1>1 DEF TypeOK, FreshAtIdentity, AtIdentity
<1> QED
  BY <1>2, <1>3, <1>4, <1>5, <1>6

LEMMA SendInv ==
  ASSUME IInv, NEW r \in Requests, Send(r)
  PROVE  IInv'
<1> USE DEF Answered, Pending, InFlight, AtClient, AtIdentity
<1>1. ASSUME NEW e \in AtClient, NoToken(r, e) PROVE IInv'
  BY <1>1, ArriveInv DEF NoToken
<1>2. ASSUME NEW e \in AtClient, NEW t \in tokens, Hit(r, e, t) PROVE IInv'
  <2>1. /\ Claims(e, t) \in {"unauthorized", "forbidden", "calling", "ok"}
        /\ Claims(e, t) = "calling" => e = "profile"
        /\ Claims(e, t) = "ok" => e \in {"whoami", "admin_summary"}
    BY DEF Claims
  <2> QED
    BY <1>2, <2>1, ArriveInv DEF Hit
<1>3. ASSUME NEW e \in AtClient, NEW t \in tokens, Fetch(r, e, t) PROVE IInv'
  <2>1. reply = 0
    BY <1>3 DEF Fetch, IInv, TypeOK
  <2> QED
    BY <1>3, <2>1, ArriveInv DEF Fetch
<1>4. ASSUME NEW e \in AtIdentity, NEW t \in tokens, Authenticate(r, e, t) PROVE IInv'
  BY <1>4, ArriveInv DEF Authenticate
<1> QED
  BY <1>1, <1>2, <1>3, <1>4 DEF Send

\* A request that has arrived goes on: nothing but its pc and the key cache changes.
LEMMA GoOnInv ==
  ASSUME IInv, NEW r \in Requests, NEW to \in Answered \cup Pending,
         pc[r] \in Pending, pc' = [pc EXCEPT ![r] = to],
         to # "fetching",
         to = "calling" => endpoint[r] = "profile",
         to = "loading" => pc[r] = "calling",
         to = "ok" => endpoint[r] \in {"whoami", "admin_summary"} \/ entitled[r],
         pc[r] = "fetching" => reply' = 0,
         pc[r] # "fetching" => UNCHANGED reply,
         cache' \subseteq cache \cup {reply}, cache' \subseteq 1 .. signing,
         UNCHANGED <<now, skew, signing, accounts, reading, tokens, request>>
  PROVE  IInv'
<1> USE DEF IInv, accounts, request
<1>1. TypeOK'
  <2>1. pc' \in [Requests -> Answered \cup Pending \cup {"idle"}]
    BY DEF TypeOK, Pending
  <2>2. reply' \in 0 .. signing'
    BY DEF TypeOK
  <2>3. reply' # 0 => \E s \in Requests : pc'[s] = "fetching"
    BY DEF TypeOK, Pending
  <2> QED
    BY <2>1, <2>2, <2>3 DEF TypeOK
<1>2. Rows' /\ Minted'
  BY DEF Rows, Minted
<1>3. Holding'
  BY DEF TypeOK, Holding, Pending, InFlight
<1>4. Doomed'
  BY DEF TypeOK, Doomed, Entitled, Active, Admin
<1>5. FreshAtIdentity'
  BY DEF TypeOK, FreshAtIdentity, AtIdentity
<1> QED
  BY <1>1, <1>2, <1>3, <1>4, <1>5

LEMMA ServeInv ==
  ASSUME IInv, NEW r \in Requests, Serve(r)
  PROVE  IInv'
<1> USE DEF Pending, InFlight, Answered, request, accounts
<1>1. CASE ServeJwks(r)
  <2> USE <1>1 DEF IInv, ServeJwks
  <2>1. TypeOK' /\ Rows' /\ Minted' /\ FreshAtIdentity'
    BY DEF TypeOK, Rows, Minted, FreshAtIdentity
  <2>2. Holding' /\ Doomed'
    BY DEF TypeOK, Holding, Doomed, Minted, Entitled, Active, Admin
  <2> QED
    BY <2>1, <2>2
<1>2. CASE Install(r)
  <2> DEFINE to == IF token[r].key = reply THEN Claims(endpoint[r], token[r]) ELSE "unauthorized"
  <2>1. /\ to \in {"unauthorized", "forbidden", "calling", "ok"}
        /\ to = "calling" => endpoint[r] = "profile"
        /\ to = "ok" => endpoint[r] \in {"whoami", "admin_summary"}
    BY <1>2 DEF Claims, IInv, Holding, Install, Goto, AtClient
  <2>2. pc[r] = "fetching" /\ pc' = [pc EXCEPT ![r] = to] /\ cache' = {reply} /\ reply' = 0
        /\ {reply} \subseteq 1 .. signing
    BY <1>2, Constants DEF Install, Goto, IInv, TypeOK
  <2>3. UNCHANGED <<now, skew, signing, accounts, reading, tokens, request>>
    BY <1>2 DEF Install
  <2> HIDE DEF to
  <2> QED
    BY <2>1, <2>2, <2>3, GoOnInv
<1>3. CASE FailFetch(r)
  BY <1>3, GoOnInv DEF FailFetch, Goto, IInv, TypeOK
<1>4. CASE Forward(r)
  <2>1. PICK to \in {"loading", "bad_gateway"} : pc[r] = "calling" /\ pc' = [pc EXCEPT ![r] = to]
    BY <1>4 DEF Forward, Goto, Rejection, IInv, Holding
  <2> QED
    BY <1>4, <2>1, GoOnInv DEF Forward, IInv, TypeOK
<1>5. CASE LoadUser(r)
  <2>1. pc[r] = "loading" /\ pc' = [pc EXCEPT ![r] = CurrentUser(r)]
    BY <1>5 DEF LoadUser, Goto
  <2>2. /\ CurrentUser(r) \in {"unauthorized", "bad_gateway", "forbidden", "ok"}
        /\ CurrentUser(r) = "ok" => Entitled(endpoint[r], token[r])
    BY DEF CurrentUser, Rejection, Entitled
  <2>3. CurrentUser(r) = "ok" => entitled[r]
    BY <2>1, <2>2 DEF IInv, Doomed
  <2> QED
    BY <1>5, <2>1, <2>2, <2>3, GoOnInv DEF LoadUser, IInv, TypeOK
<1>6. CASE Disconnect(r)
  <2>1. Dropped(r) \in {"unreachable", "aborted"}
    BY DEF Dropped
  <2>2. pc[r] \in {"calling", "loading"} /\ pc' = [pc EXCEPT ![r] = Dropped(r)]
    BY <1>6 DEF Disconnect
  <2> QED
    BY <1>6, <2>1, <2>2, GoOnInv DEF Disconnect, IInv, TypeOK
<1>7. CASE Finish(r)
  <2> USE <1>7 DEF IInv, Finish
  <2>1. TypeOK'
    <3>1. \A s \in Requests : pc[s] = "fetching" => pc'[s] = "fetching"
      BY DEF TypeOK
    <3>2. pc' \in [Requests -> Answered \cup Pending \cup {"idle"}]
      BY DEF TypeOK
    <3>3. endpoint' \in [Requests -> AtClient \cup AtIdentity] /\ token' \in [Requests -> Token \cup {None}]
          /\ entitled' \in [Requests -> BOOLEAN]
      BY DEF TypeOK, AtClient
    <3> QED
      BY <3>1, <3>2, <3>3 DEF TypeOK
  <2>2. Rows' /\ Minted' /\ FreshAtIdentity'
    BY DEF TypeOK, Rows, Minted, FreshAtIdentity
  <2>3. Holding' /\ Doomed'
    BY DEF TypeOK, Holding, Doomed, Entitled, Active, Admin
  <2> QED
    BY <2>1, <2>2, <2>3
<1> QED
  BY <1>1, <1>2, <1>3, <1>4, <1>5, <1>6, <1>7 DEF Serve

-----------------------------------------------------------------------------
(* Signing, operators, restarts and time                                   *)

LEMMA SigningInv ==
  ASSUME IInv,
         (\E u \in Users : ReadUser(u)) \/ (\E row \in reading : Sign(row))
  PROVE  IInv'
<1> USE Constants DEF IInv, accounts, request
<1>1. ASSUME NEW u \in Users, ReadUser(u) PROVE IInv'
  <2> DEFINE row == [sub |-> u, admin |-> Admin(u), at |-> now]
  <2>1. /\ row \in Row /\ row.sub = u /\ row.at = now /\ now <= Never
        /\ deactivated[u] = Never /\ (row.admin => demoted[u] = Never)
    BY <1>1 DEF ReadUser, Active, Admin, TypeOK, Row
  <2>2. reading' = reading \cup {row}
        /\ UNCHANGED <<now, skew, signing, cache, reply, accounts, tokens, pc, request>>
    BY <1>1 DEF ReadUser
  <2> HIDE DEF row
  <2>3. TypeOK'
    BY <2>1, <2>2 DEF TypeOK
  <2>4. Rows'
    BY <2>1, <2>2 DEF TypeOK, Rows, Times
  <2>5. Minted' /\ Holding' /\ Doomed' /\ FreshAtIdentity'
    BY <2>2 DEF Minted, Holding, Doomed, FreshAtIdentity, Entitled, Active, Admin
  <2> QED
    BY <2>3, <2>4, <2>5
<1>2. ASSUME NEW row \in reading, Sign(row) PROVE IInv'
  <2> DEFINE t == [sub |-> row.sub, admin |-> row.admin, iat |-> now, key |-> signing]
  <2>1. /\ row \in Row /\ t \in Token
        /\ t.sub = row.sub /\ t.admin = row.admin /\ t.iat = now /\ t.key = signing
    BY <1>2 DEF TypeOK, Row, Token
  <2>2. reading' = reading \ {row} /\ tokens' = tokens \cup {t}
        /\ UNCHANGED <<now, skew, signing, cache, reply, accounts, pc, request>>
    BY <1>2 DEF Sign
  <2> HIDE DEF t
  <2>3. TypeOK' /\ Rows'
    BY <2>1, <2>2 DEF TypeOK, Rows
  <2>4. t.iat <= now /\ t.key <= signing
        /\ t.iat <= deactivated[t.sub] + Latency /\ (t.admin => t.iat <= demoted[t.sub] + Latency)
    BY <2>1 DEF TypeOK, Rows, Row, Times
  <2>5. Minted'
    BY <2>2, <2>4 DEF Minted
  <2>6. Holding' /\ Doomed' /\ FreshAtIdentity'
    BY <2>2 DEF Holding, Doomed, FreshAtIdentity, Entitled, Active, Admin
  <2> QED
    BY <2>3, <2>5, <2>6
<1> QED
  BY <1>1, <1>2

LEMMA OperatorInv ==
  ASSUME IInv, NEW u \in Users, Deactivate(u) \/ Demote(u)
  PROVE  IInv'
<1> USE Constants DEF IInv, request
<1>1. CASE Deactivate(u)
  <2>1. deactivated' = [deactivated EXCEPT ![u] = now] /\ deactivated[u] = Never
        /\ UNCHANGED <<now, skew, signing, cache, reply, demoted, reading, tokens, pc, request>>
    BY <1>1 DEF Deactivate, Active
  <2>2. TypeOK'
    BY <2>1 DEF TypeOK
  <2>3. Rows'
    BY <2>1 DEF TypeOK, Rows, Row, Times
  <2>4. Minted'
    BY <2>1 DEF TypeOK, Minted, Token, Times
  <2>5. Holding' /\ Doomed' /\ FreshAtIdentity'
    BY <2>1 DEF TypeOK, Holding, Doomed, FreshAtIdentity, Entitled, Active, Admin
  <2> QED
    BY <2>2, <2>3, <2>4, <2>5
<1>2. CASE Demote(u)
  <2>1. demoted' = [demoted EXCEPT ![u] = now] /\ demoted[u] = Never
        /\ UNCHANGED <<now, skew, signing, cache, reply, deactivated, reading, tokens, pc, request>>
    BY <1>2 DEF Demote, Admin
  <2>2. TypeOK'
    BY <2>1 DEF TypeOK
  <2>3. Rows'
    BY <2>1 DEF TypeOK, Rows, Row, Times
  <2>4. Minted'
    BY <2>1 DEF TypeOK, Minted, Token, Times
  <2>5. Holding' /\ Doomed' /\ FreshAtIdentity'
    BY <2>1 DEF TypeOK, Holding, Doomed, FreshAtIdentity, Entitled, Active, Admin
  <2> QED
    BY <2>2, <2>3, <2>4, <2>5
<1> QED
  BY <1>1, <1>2

LEMMA TimeInv ==
  ASSUME IInv, Tick
  PROVE  IInv'
<1> USE Constants DEF IInv, Tick, accounts, request
<1>1. TypeOK'
  BY DEF TypeOK, Times
<1>2. Rows'
  BY DEF TypeOK, Rows, Row, Times
<1>3. Minted'
  BY DEF TypeOK, Minted, Token, Times
<1>4. Holding' /\ Doomed' /\ FreshAtIdentity'
  BY DEF Holding, Doomed, FreshAtIdentity, Entitled, Active, Admin
<1> QED
  BY <1>1, <1>2, <1>3, <1>4

LEMMA RestartInv ==
  ASSUME IInv, RestartIdentity \/ RestartClient
  PROVE  IInv'
<1> USE Constants DEF IInv, accounts, request, Pending, InFlight, Answered, Dropped
<1>1. CASE RestartIdentity
  <2> USE <1>1 DEF RestartIdentity
  <2>1. TypeOK'
    <3>1. \A s \in Requests : pc[s] = "fetching" => pc'[s] = "fetching"
      OBVIOUS
    <3>2. signing' \in 1 .. MaxKeys /\ cache' \subseteq 1 .. signing' /\ reply' \in 0 .. signing'
      BY DEF TypeOK
    <3> QED
      BY <3>1, <3>2 DEF TypeOK
  <2>2. Rows'
    BY DEF Rows
  <2>3. Minted'
    BY DEF TypeOK, Minted, Token
  <2>4. Holding' /\ Doomed' /\ FreshAtIdentity'
    BY DEF TypeOK, Holding, Doomed, FreshAtIdentity, Entitled, Active, Admin
  <2> QED
    BY <2>1, <2>2, <2>3, <2>4
<1>2. CASE RestartClient
  <2> USE <1>2 DEF RestartClient
  <2>1. TypeOK' /\ Rows' /\ Minted'
    BY DEF TypeOK, Rows, Minted
  <2>2. Holding' /\ Doomed' /\ FreshAtIdentity'
    BY DEF TypeOK, Holding, Doomed, FreshAtIdentity, Entitled, Active, Admin
  <2> QED
    BY <2>1, <2>2
<1> QED
  BY <1>1, <1>2

LEMMA Invariance == Spec => []IInv
<1>1. IInv /\ [Next]_vars => IInv'
  BY SendInv, ServeInv, SigningInv, OperatorInv, TimeInv, RestartInv, StutterInv DEF Next
<1> QED
  BY <1>1, InitInv, PTL DEF Spec

-----------------------------------------------------------------------------
(* What follows from the invariant                                         *)

\* The variables keep their types (client core/jwks.py:45-56, identity core/jwt.py:23-68).
THEOREM TypeCorrectness == Spec => []TypeOK
<1>1. IInv => TypeOK
  BY DEF IInv
<1> QED
  BY <1>1, Invariance, PTL

\* The identity service answers 200 to no user who had lost the account, or the role,
\* before the request came (identity api/deps.py:38-58).
THEOREM IdentityIsFresh == Spec => []FreshAtIdentity
<1>1. IInv => FreshAtIdentity
  BY DEF IInv
<1> QED
  BY <1>1, Invariance, PTL

\* Only Send(r) and Serve(r) answer r with a 200, a 401 or the 502 of a rejection.
LEMMA OwnAnswer ==
  ASSUME IInv, [Next]_vars, NEW r \in Requests,
         NEW answer \in {"ok", "unauthorized", "bad_gateway"}, Answers(r, answer)
  PROVE  Send(r) \/ Serve(r)
<1> USE DEF IInv, TypeOK, Answers, accounts, request
<1>1. ASSUME NEW s \in Requests, s # r, Send(s) \/ Serve(s) PROVE pc'[r] = pc[r]
  <2>1. Send(s) => pc'[r] = pc[r]
    BY <1>1 DEF Send, NoToken, Hit, Fetch, Authenticate, Arrive, Goto
  <2>2. Serve(s) => pc'[r] = pc[r]
    BY <1>1 DEF Serve, ServeJwks, Install, FailFetch, Forward, LoadUser, Disconnect, Finish, Goto
  <2> QED
    BY <1>1, <2>1, <2>2
<1>2. ASSUME RestartIdentity \/ RestartClient PROVE pc'[r] \in {pc[r], "aborted", "unreachable"}
  BY <1>2 DEF RestartIdentity, RestartClient, Dropped
<1>3. (\E u \in Users : ReadUser(u) \/ Deactivate(u) \/ Demote(u)) \/ (\E row \in reading : Sign(row))
      \/ Tick \/ UNCHANGED vars => pc' = pc
  BY DEF ReadUser, Deactivate, Demote, Sign, Tick, vars
<1> QED
  BY <1>1, <1>2, <1>3 DEF Next

\* The client lets a request in by itself only with a token that was signed here, is
\* within its lifetime by the client's clock and claims the role.
LEMMA LocalGrant ==
  ASSUME IInv, NEW r \in Requests, Send(r) \/ Serve(r),
         Answers(r, "ok"), endpoint'[r] \in {"whoami", "admin_summary"}
  PROVE  /\ token'[r] \in tokens /\ Timely(token'[r], now + skew)
         /\ endpoint'[r] \in AdminOnly => token'[r].admin
         /\ UNCHANGED <<now, skew, accounts>>
<1> USE DEF IInv, TypeOK, Answers
<1>1. ASSUME NEW e \in AtClient, NEW t \in tokens, Hit(r, e, t)
      PROVE  /\ token'[r] \in tokens /\ Timely(token'[r], now + skew)
             /\ endpoint'[r] \in AdminOnly => token'[r].admin
             /\ UNCHANGED <<now, skew, accounts>>
  BY <1>1 DEF Hit, Arrive, Goto, Claims
<1>2. ASSUME Install(r)
      PROVE  /\ token'[r] \in tokens /\ Timely(token'[r], now + skew)
             /\ endpoint'[r] \in AdminOnly => token'[r].admin
             /\ UNCHANGED <<now, skew, accounts>>
  BY <1>2 DEF Install, Goto, Claims, request, Holding, Pending
<1>3. ASSUME NEW e \in AtIdentity, NEW t \in tokens, Authenticate(r, e, t) PROVE FALSE
  BY <1>3 DEF Authenticate, Arrive, Goto, AtIdentity
<1>4. ASSUME LoadUser(r) PROVE FALSE
  BY <1>4 DEF LoadUser, Goto, Holding, AtIdentity, request
<1>5. ASSUME (\E e \in AtClient : NoToken(r, e)) \/ (\E e \in AtClient, t \in tokens : Fetch(r, e, t))
             \/ ServeJwks(r) \/ FailFetch(r) \/ Forward(r) \/ Disconnect(r) \/ Finish(r)
      PROVE  FALSE
  BY <1>5 DEF NoToken, Fetch, Arrive, ServeJwks, FailFetch, Forward, Rejection, Disconnect, Dropped,
              Finish, Goto
<1> QED
  BY <1>1, <1>2, <1>3, <1>4, <1>5 DEF Send, Serve

\* What the client grants by itself ends, for a user who lost the account or the role,
\* Latency + TTL after that by the client's clock (client core/security.py:37-45,
\* api/deps.py:66).
THEOREM LocalAccessIsBounded == Spec => LocalAccessEnds
<1>1. ASSUME IInv, [Next]_vars, NEW r \in Requests,
             Answers(r, "ok"), endpoint'[r] \in {"whoami", "admin_summary"}
      PROVE  /\ AccessEnds(deactivated[token'[r].sub])
             /\ endpoint'[r] \in AdminOnly => AccessEnds(demoted[token'[r].sub])
  <2>1. /\ token'[r] \in tokens /\ Timely(token'[r], now + skew)
        /\ endpoint'[r] \in AdminOnly => token'[r].admin
        /\ UNCHANGED <<now, skew, accounts>>
    BY <1>1, OwnAnswer, LocalGrant
  <2>2. /\ token'[r].iat <= deactivated[token'[r].sub] + Latency
        /\ token'[r].admin => token'[r].iat <= demoted[token'[r].sub] + Latency
    BY <1>1, <2>1 DEF IInv, Minted
  <2>3. /\ token'[r].iat \in Int /\ now + skew \in Int
        /\ deactivated[token'[r].sub] \in Int /\ demoted[token'[r].sub] \in Int
    BY <1>1, <2>1, Constants DEF IInv, TypeOK, Token, Times
  <2> QED
    BY <2>1, <2>2, <2>3, Constants DEF AccessEnds, Timely
<1>2. IInv /\ [Next]_vars =>
        [\A r \in Requests :
           (Answers(r, "ok") /\ endpoint'[r] \in {"whoami", "admin_summary"}) =>
             /\ AccessEnds(deactivated[token'[r].sub])
             /\ endpoint'[r] \in AdminOnly => AccessEnds(demoted[token'[r].sub])]_vars
  BY <1>1
<1> QED
  BY <1>2, Invariance, PTL DEF Spec, LocalAccessEnds

\* The reasons a refusal may have.
Reason(r) ==
  \/ ~Timely(token'[r], now)
  \/ endpoint'[r] \in AtClient /\ ~Timely(token'[r], now + skew)
  \/ token'[r].key # signing
  \/ endpoint'[r] \notin {"whoami", "admin_summary"} /\ ~Active(token'[r].sub)

\* A key that is not in the fetched set is older than the one in use.
LEMMA RefusalReason ==
  ASSUME IInv, NEW r \in Requests, Send(r) \/ Serve(r),
         NEW answer \in {"unauthorized", "bad_gateway"}, Answers(r, answer), token'[r] # None
  PROVE  Reason(r)
<1> USE DEF IInv, TypeOK, Answers, Reason
<1>1. ASSUME NEW e \in AtClient, NEW t \in tokens, Hit(r, e, t) PROVE Reason(r)
  BY <1>1 DEF Hit, Arrive, Goto, Claims
<1>2. ASSUME Install(r) PROVE Reason(r)
  <2>1. /\ pc[r] = "fetching" /\ reply # 0 /\ token' = token /\ endpoint' = endpoint
        /\ pc'[r] = IF token[r].key = reply THEN Claims(endpoint[r], token[r]) ELSE "unauthorized"
    BY <1>2 DEF Install, Goto, request
  <2>2. token[r] \in tokens /\ endpoint[r] \in AtClient /\ token[r].key <= reply
    BY <2>1 DEF Holding, Pending
  <2>3. CASE token[r].key = reply
    BY <2>1, <2>2, <2>3 DEF Claims
  <2>4. CASE token[r].key # reply
    <3>1. token[r].key \in Int /\ reply \in Int /\ signing \in Int /\ reply <= signing
      BY <2>2, Constants DEF Token
    <3> QED
      BY <2>1, <2>2, <2>4, <3>1
  <2> QED
    BY <2>3, <2>4
<1>3. ASSUME NEW e \in AtIdentity, NEW t \in tokens, Authenticate(r, e, t) PROVE Reason(r)
  BY <1>3 DEF Authenticate, Arrive, Goto, Decodes
<1>4. ASSUME Forward(r) PROVE Reason(r)
  BY <1>4 DEF Forward, Goto, Decodes, request
<1>5. ASSUME LoadUser(r) PROVE Reason(r)
  BY <1>5 DEF LoadUser, Goto, CurrentUser, Holding, AtIdentity, request
<1>6. ASSUME (\E e \in AtClient : NoToken(r, e)) \/ (\E e \in AtClient, t \in tokens : Fetch(r, e, t))
             \/ ServeJwks(r) \/ FailFetch(r) \/ Disconnect(r) \/ Finish(r)
      PROVE  FALSE
  BY <1>6 DEF NoToken, Fetch, Arrive, ServeJwks, FailFetch, Disconnect, Dropped, Finish, Goto
<1> QED
  BY <1>1, <1>2, <1>3, <1>4, <1>5, <1>6 DEF Send, Serve

\* Neither service refuses a token that is within its lifetime, signed with the key in
\* use and presented for an active user, whatever the caches of keys went through
\* (client core/security.py:33-35, identity core/jwt.py:53).
THEOREM RefusalsHaveReasons == Spec => RefusalHasReason
<1>1. ASSUME IInv, [Next]_vars, NEW r \in Requests, NEW answer \in {"unauthorized", "bad_gateway"},
             Answers(r, answer), token'[r] # None
      PROVE  Reason(r)
  BY <1>1, OwnAnswer, RefusalReason
<1>2. IInv /\ [Next]_vars =>
        [\A r \in Requests, answer \in {"unauthorized", "bad_gateway"} :
           (Answers(r, answer) /\ token'[r] # None) =>
             \/ ~Timely(token'[r], now)
             \/ endpoint'[r] \in AtClient /\ ~Timely(token'[r], now + skew)
             \/ token'[r].key # signing
             \/ endpoint'[r] \notin {"whoami", "admin_summary"} /\ ~Active(token'[r].sub)]_vars
  BY <1>1 DEF Reason
<1> QED
  BY <1>2, Invariance, PTL DEF Spec, RefusalHasReason

=============================================================================
