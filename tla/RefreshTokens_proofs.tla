------------------------ MODULE RefreshTokens_proofs ------------------------
(***************************************************************************)
(* The safety of RefreshTokens for every set of requests and users, any    *)
(* number of them, overlapping or not.  The invariant IInv says what a     *)
(* request has established by the time it has come to each pc; every       *)
(* action preserves it and the properties follow from it.                  *)
(***************************************************************************)
EXTENDS RefreshTokens, TLAPS

\* Which endpoint a request called, what it read and whether it minted a token,
\* as far as its pc tells.
Control ==
  \A r \in Requests :
    /\ pc[r] = "idle" <=> op[r] = "none"
    /\ r \in issued <=> pc[r] \in {"committed", "granted", "lost"}
    /\ r \in issued => op[r] \in {"login", "refresh"} /\ owner[r] \in Users
    /\ pc[r] = "issuing" => op[r] = "login" /\ owner[r] \in Users
    /\ pc[r] \in {"selected", "loaded", "rotating", "revoking", "reused"} => op[r] = "refresh"
    /\ pc[r] \in {"ending", "closing", "logged_out"} => op[r] = "logout"
    /\ op[r] = "deactivate" <=> pc[r] = "deactivated"
    /\ pc[r] \in {"loaded", "rotating", "ending", "closing"} => stored[r] = "active"
    /\ r \in issued /\ op[r] = "refresh" => stored[r] = "active" /\ presented[r] \in revoked
    /\ pc[r] \in {"revoking", "reused"} => stored[r] = "revoked" /\ owner[r] \in Users
    /\ stored[r] # "absent" => presented[r] # None
    /\ stored[r] = "revoked" => presented[r] \in revoked

\* The presented token and the snapshot of the family belong to the request's user.
Tokens ==
  \A r \in Requests :
    /\ presented[r] # None =>
         /\ presented[r] \in issued
         /\ owner[presented[r]] = owner[r]
         /\ op[r] \in {"refresh", "logout"}
    /\ pc[r] = "logged_out" /\ presented[r] # None => presented[r] \in revoked
    /\ pc[r] = "idle" => family[r] = {}
    /\ \A t \in family[r] : t \in issued /\ owner[t] = owner[r]

\* A locked row is one its holder is about to revoke.
Locking ==
  /\ \A t \in Requests : lock[t] # None =>
       /\ t \in issued
       /\ owner[t] = owner[lock[t]]
       /\ \/ pc[lock[t]] = "revoking" /\ t \in family[lock[t]]
          \/ pc[lock[t]] \in {"rotating", "closing"} /\ presented[lock[t]] = t
  /\ \A r \in Requests : pc[r] \in {"rotating", "closing"} => lock[presented[r]] = r

\* What the requests answered before r was sent imply for r.
History ==
  \A r \in Requests :
    /\ \A s \in before[r] : pc[s] \in Answered
    /\ pc[r] = "revoking" =>
         \A t \in before[r] : t \in issued /\ owner[t] = owner[r] => t \in family[r] \cup revoked
    /\ presented[r] # None /\ op[r] = "refresh" =>
         \A s \in before[r] : Spends(s, presented[r]) => stored[r] = "revoked"
    /\ op[r] = "deactivate" => ~is_active[owner[r]]
    /\ \A s \in before[r] : op[s] = "deactivate" /\ owner[s] = owner[r] =>
         pc[r] \notin {"issuing", "loaded", "rotating", "committed", "granted", "lost"}

IInv ==
  /\ TypeOK /\ Control /\ Tokens /\ Locking
  /\ FamilyRevoked /\ RevocationHasCause /\ History

-----------------------------------------------------------------------------
(* IInv is inductive                                                       *)

\* The service starts with no token and no request.
LEMMA InitEstablishes == Init => IInv
<1> SUFFICES ASSUME Init PROVE IInv
  OBVIOUS
<1> USE ConstantsAssumption DEF Init, IInv
<1>1. TypeOK
  BY DEF TypeOK
<1>2. Control /\ Tokens /\ Locking
  BY DEF Control, Tokens, Locking
<1>3. FamilyRevoked /\ RevocationHasCause /\ History
  BY DEF FamilyRevoked, RevocationHasCause, History
<1> QED
  BY <1>1, <1>2, <1>3

\* The SELECT of the user changes no table; a deactivated user is turned away here.
LEMMA LoginPreserves ==
  ASSUME IInv, NEW r \in Requests, NEW u \in Users, NEW password_matches \in BOOLEAN,
         Login(r, u, password_matches)
  PROVE  IInv'
<1> USE ConstantsAssumption DEF IInv, request, tables, Waiting, Answered, Login,
        Arrive, Goto
<1>1. TypeOK'
  BY DEF TypeOK, Locking
<1>2. Control'
  BY DEF TypeOK, Control, Tokens, Locking
<1>3. Tokens'
  BY DEF TypeOK, Control, Tokens, Locking
<1>4. Locking'
  BY DEF TypeOK, Control, Tokens, Locking
<1>5. FamilyRevoked'
  BY DEF TypeOK, Control, Tokens, Locking, History, FamilyRevoked
<1>6. RevocationHasCause'
  BY DEF TypeOK, Control, Tokens, Locking, RevocationHasCause
<1>7. History'
  BY DEF TypeOK, Control, Tokens, Locking, FamilyRevoked, History, Spends
<1> QED
  BY <1>1, <1>2, <1>3, <1>4, <1>5, <1>6, <1>7

\* The row of a login is new: no request presents it yet.
LEMMA IssuePairPreserves ==
  ASSUME IInv, NEW r \in Requests, IssuePair(r)
  PROVE  IInv'
<1> USE ConstantsAssumption DEF IInv, request, tables, Waiting, Answered, IssuePair,
        Goto, Insert
<1>1. TypeOK'
  BY DEF TypeOK, Locking
<1>2. Control'
  BY DEF TypeOK, Control, Tokens, Locking
<1>3. Tokens'
  BY DEF TypeOK, Control, Tokens, Locking
<1>4. Locking'
  BY DEF TypeOK, Control, Tokens, Locking
<1>5. FamilyRevoked'
  BY DEF TypeOK, Control, Tokens, Locking, History, FamilyRevoked
<1>6. RevocationHasCause'
  BY DEF TypeOK, Control, Tokens, Locking, RevocationHasCause
<1>7. History'
  BY DEF TypeOK, Control, Tokens, Locking, FamilyRevoked, History, Spends
<1> QED
  BY <1>1, <1>2, <1>3, <1>4, <1>5, <1>6, <1>7

\* The SELECT of a refresh: a spent token is read as revoked.
LEMMA RefreshPreserves ==
  ASSUME IInv, NEW r \in Requests, NEW t \in Known, Refresh(r, t)
  PROVE  IInv'
<1> USE ConstantsAssumption DEF IInv, request, tables, Waiting, Answered, Refresh,
        Present, Arrive, Goto, Known, Read
<1>1. TypeOK'
  BY DEF TypeOK, Locking
<1>2. Control'
  BY DEF TypeOK, Control, Tokens, Locking
<1>3. Tokens'
  BY DEF TypeOK, Control, Tokens, Locking
<1>4. Locking'
  BY DEF TypeOK, Control, Tokens, Locking
<1>5. FamilyRevoked'
  BY DEF TypeOK, Control, Tokens, Locking, History, FamilyRevoked
<1>6. RevocationHasCause'
  BY DEF TypeOK, Control, Tokens, Locking, RevocationHasCause
<1>7. History'
  BY DEF TypeOK, Control, Tokens, Locking, FamilyRevoked, History, Spends
<1> QED
  BY <1>1, <1>2, <1>3, <1>4, <1>5, <1>6, <1>7

\* The SELECT of a logout.
LEMMA LogoutPreserves ==
  ASSUME IInv, NEW r \in Requests, NEW t \in Known, Logout(r, t)
  PROVE  IInv'
<1> USE ConstantsAssumption DEF IInv, request, tables, Waiting, Answered, Logout,
        Present, Arrive, Goto, Known, Read
<1>1. TypeOK'
  BY DEF TypeOK, Locking
<1>2. Control'
  BY DEF TypeOK, Control, Tokens, Locking
<1>3. Tokens'
  BY DEF TypeOK, Control, Tokens, Locking
<1>4. Locking'
  BY DEF TypeOK, Control, Tokens, Locking
<1>5. FamilyRevoked'
  BY DEF TypeOK, Control, Tokens, Locking, History, FamilyRevoked
<1>6. RevocationHasCause'
  BY DEF TypeOK, Control, Tokens, Locking, RevocationHasCause
<1>7. History'
  BY DEF TypeOK, Control, Tokens, Locking, FamilyRevoked, History, Spends
<1> QED
  BY <1>1, <1>2, <1>3, <1>4, <1>5, <1>6, <1>7

\* Only is_active changes.
LEMMA DeactivatePreserves ==
  ASSUME IInv, NEW r \in Requests, NEW u \in Users, Deactivate(r, u)
  PROVE  IInv'
<1> USE ConstantsAssumption DEF IInv, request, tables, Waiting, Answered,
        Deactivate, Arrive, Goto
<1>1. TypeOK'
  BY DEF TypeOK, Locking
<1>2. Control'
  BY DEF TypeOK, Control, Tokens, Locking
<1>3. Tokens'
  BY DEF TypeOK, Control, Tokens, Locking
<1>4. Locking'
  BY DEF TypeOK, Control, Tokens, Locking
<1>5. FamilyRevoked'
  BY DEF TypeOK, Control, Tokens, Locking, History, FamilyRevoked
<1>6. RevocationHasCause'
  BY DEF TypeOK, Control, Tokens, Locking, RevocationHasCause
<1>7. History'
  BY DEF TypeOK, Control, Tokens, Locking, FamilyRevoked, History, Spends
<1> QED
  BY <1>1, <1>2, <1>3, <1>4, <1>5, <1>6, <1>7

\* An unknown or an expired token.
LEMMA RejectStoredPreserves ==
  ASSUME IInv, NEW r \in Requests, RejectStored(r)
  PROVE  IInv'
<1> USE ConstantsAssumption DEF IInv, request, tables, Waiting, Answered, RejectStored, Goto
<1>1. TypeOK'
  BY DEF TypeOK, Locking
<1>2. Control'
  BY DEF TypeOK, Control, Tokens, Locking
<1>3. Tokens'
  BY DEF TypeOK, Control, Tokens, Locking
<1>4. Locking'
  BY DEF TypeOK, Control, Tokens, Locking
<1>5. FamilyRevoked'
  BY DEF TypeOK, Control, Tokens, Locking, History, FamilyRevoked
<1>6. RevocationHasCause'
  BY DEF TypeOK, Control, Tokens, Locking, RevocationHasCause
<1>7. History'
  BY DEF TypeOK, Control, Tokens, Locking, FamilyRevoked, History, Spends
<1> QED
  BY <1>1, <1>2, <1>3, <1>4, <1>5, <1>6, <1>7

\* The snapshot of the UPDATE holds every active row of the user.
LEMMA DetectReusePreserves ==
  ASSUME IInv, NEW r \in Requests, DetectReuse(r)
  PROVE  IInv'
<1> USE ConstantsAssumption DEF IInv, request, tables, Waiting, Answered,
        DetectReuse, Goto, Active
<1>1. TypeOK'
  BY DEF TypeOK, Locking
<1>2. Control'
  BY DEF TypeOK, Control, Tokens, Locking
<1>3. Tokens'
  BY DEF TypeOK, Control, Tokens, Locking
<1>4. Locking'
  BY DEF TypeOK, Control, Tokens, Locking
<1>5. FamilyRevoked'
  BY DEF TypeOK, Control, Tokens, Locking, History, FamilyRevoked
<1>6. RevocationHasCause'
  BY DEF TypeOK, Control, Tokens, Locking, RevocationHasCause
<1>7. History'
  BY DEF TypeOK, Control, Tokens, Locking, FamilyRevoked, History, Spends
<1> QED
  BY <1>1, <1>2, <1>3, <1>4, <1>5, <1>6, <1>7

\* The row was read as active; is_active is read now.
LEMMA LoadUserPreserves ==
  ASSUME IInv, NEW r \in Requests, LoadUser(r)
  PROVE  IInv'
<1> USE ConstantsAssumption DEF IInv, request, tables, Waiting, Answered, LoadUser, Goto
<1>1. TypeOK'
  BY DEF TypeOK, Locking
<1>2. Control'
  BY DEF TypeOK, Control, Tokens, Locking
<1>3. Tokens'
  BY DEF TypeOK, Control, Tokens, Locking
<1>4. Locking'
  BY DEF TypeOK, Control, Tokens, Locking
<1>5. FamilyRevoked'
  BY DEF TypeOK, Control, Tokens, Locking, History, FamilyRevoked
<1>6. RevocationHasCause'
  BY DEF TypeOK, Control, Tokens, Locking, RevocationHasCause
<1>7. History'
  BY DEF TypeOK, Control, Tokens, Locking, FamilyRevoked, History, Spends
<1> QED
  BY <1>1, <1>2, <1>3, <1>4, <1>5, <1>6, <1>7

\* One more row locked by the family-wide UPDATE.
LEMMA RevokeRowPreserves ==
  ASSUME IInv, NEW r \in Requests, NEW t \in Requests, RevokeRow(r, t)
  PROVE  IInv'
<1> USE ConstantsAssumption DEF IInv, request, tables, Waiting, Answered, RevokeRow, LockRow
<1>1. TypeOK'
  BY DEF TypeOK, Locking
<1>2. Control'
  BY DEF TypeOK, Control, Tokens, Locking
<1>3. Tokens'
  BY DEF TypeOK, Control, Tokens, Locking
<1>4. Locking'
  BY DEF TypeOK, Control, Tokens, Locking
<1>5. FamilyRevoked'
  BY DEF TypeOK, Control, Tokens, Locking, History, FamilyRevoked
<1>6. RevocationHasCause'
  BY DEF TypeOK, Control, Tokens, Locking, RevocationHasCause
<1>7. History'
  BY DEF TypeOK, Control, Tokens, Locking, FamilyRevoked, History, Spends
<1> QED
  BY <1>1, <1>2, <1>3, <1>4, <1>5, <1>6, <1>7

\* All rows of the snapshot are revoked by this commit or by an earlier one.
LEMMA CommitFamilyPreserves ==
  ASSUME IInv, NEW r \in Requests, CommitFamily(r)
  PROVE  IInv'
<1> USE ConstantsAssumption DEF IInv, request, tables, Waiting, Answered,
        CommitFamily, Goto, Held, ReleaseLocks
<1>1. TypeOK'
  BY DEF TypeOK, Locking
<1>2. Control'
  BY DEF TypeOK, Control, Tokens, Locking
<1>3. Tokens'
  BY DEF TypeOK, Control, Tokens, Locking
<1>4. Locking'
  BY DEF TypeOK, Control, Tokens, Locking
<1>5. FamilyRevoked'
  BY DEF TypeOK, Control, Tokens, Locking, History, FamilyRevoked
<1>6. RevocationHasCause'
  BY DEF TypeOK, Control, Tokens, Locking, RevocationHasCause
<1>7. History'
  BY DEF TypeOK, Control, Tokens, Locking, FamilyRevoked, History, Spends
<1> QED
  BY <1>1, <1>2, <1>3, <1>4, <1>5, <1>6, <1>7

\* The presented row is locked.
LEMMA RetirePresentedPreserves ==
  ASSUME IInv, NEW r \in Requests, RetirePresented(r)
  PROVE  IInv'
<1> USE ConstantsAssumption DEF IInv, request, tables, Waiting, Answered,
        RetirePresented, Goto, LockRow
<1>1. TypeOK'
  BY DEF TypeOK, Locking
<1>2. Control'
  BY DEF TypeOK, Control, Tokens, Locking
<1>3. Tokens'
  BY DEF TypeOK, Control, Tokens, Locking
<1>4. Locking'
  BY DEF TypeOK, Control, Tokens, Locking
<1>5. FamilyRevoked'
  BY DEF TypeOK, Control, Tokens, Locking, History, FamilyRevoked
<1>6. RevocationHasCause'
  BY DEF TypeOK, Control, Tokens, Locking, RevocationHasCause
<1>7. History'
  BY DEF TypeOK, Control, Tokens, Locking, FamilyRevoked, History, Spends
<1> QED
  BY <1>1, <1>2, <1>3, <1>4, <1>5, <1>6, <1>7

\* The presented row is revoked in the transaction that inserts the new one.
LEMMA CommitRotationPreserves ==
  ASSUME IInv, NEW r \in Requests, CommitRotation(r)
  PROVE  IInv'
<1> USE ConstantsAssumption DEF IInv, request, tables, Waiting, Answered,
        CommitRotation, Goto, Held, Insert, ReleaseLocks
<1>1. TypeOK'
  BY DEF TypeOK, Locking
<1>2. Control'
  BY DEF TypeOK, Control, Tokens, Locking
<1>3. Tokens'
  BY DEF TypeOK, Control, Tokens, Locking
<1>4. Locking'
  BY DEF TypeOK, Control, Tokens, Locking
<1>5. FamilyRevoked'
  BY DEF TypeOK, Control, Tokens, Locking, History, FamilyRevoked
<1>6. RevocationHasCause'
  <2> SUFFICES ASSUME NEW t \in revoked'
               PROVE  RevocationHasCause!(t)'
    BY DEF RevocationHasCause
  <2>1. CASE t \in revoked
    <3>1. PICK q \in Requests : RevocationHasCause!(t)!(q)
      BY <2>1 DEF RevocationHasCause
    <3> QED
      BY <3>1 DEF TypeOK, Control
  <2>2. CASE t \in Held(r)
    BY <2>2 DEF TypeOK, Control, Locking
  <2> QED
    BY <2>1, <2>2
<1>7. History'
  BY DEF TypeOK, Control, Tokens, Locking, FamilyRevoked, History, Spends
<1> QED
  BY <1>1, <1>2, <1>3, <1>4, <1>5, <1>6, <1>7

\* The presented row is locked.
LEMMA EndSessionPreserves ==
  ASSUME IInv, NEW r \in Requests, EndSession(r)
  PROVE  IInv'
<1> USE ConstantsAssumption DEF IInv, request, tables, Waiting, Answered,
        EndSession, Goto, LockRow
<1>1. TypeOK'
  BY DEF TypeOK, Locking
<1>2. Control'
  BY DEF TypeOK, Control, Tokens, Locking
<1>3. Tokens'
  BY DEF TypeOK, Control, Tokens, Locking
<1>4. Locking'
  BY DEF TypeOK, Control, Tokens, Locking
<1>5. FamilyRevoked'
  BY DEF TypeOK, Control, Tokens, Locking, History, FamilyRevoked
<1>6. RevocationHasCause'
  BY DEF TypeOK, Control, Tokens, Locking, RevocationHasCause
<1>7. History'
  BY DEF TypeOK, Control, Tokens, Locking, FamilyRevoked, History, Spends
<1> QED
  BY <1>1, <1>2, <1>3, <1>4, <1>5, <1>6, <1>7

\* The presented row is revoked.
LEMMA CommitLogoutPreserves ==
  ASSUME IInv, NEW r \in Requests, CommitLogout(r)
  PROVE  IInv'
<1> USE ConstantsAssumption DEF IInv, request, tables, Waiting, Answered,
        CommitLogout, Goto, Held, ReleaseLocks
<1>1. TypeOK'
  BY DEF TypeOK, Locking
<1>2. Control'
  BY DEF TypeOK, Control, Tokens, Locking
<1>3. Tokens'
  BY DEF TypeOK, Control, Tokens, Locking
<1>4. Locking'
  BY DEF TypeOK, Control, Tokens, Locking
<1>5. FamilyRevoked'
  BY DEF TypeOK, Control, Tokens, Locking, History, FamilyRevoked
<1>6. RevocationHasCause'
  <2> SUFFICES ASSUME NEW t \in revoked'
               PROVE  RevocationHasCause!(t)'
    BY DEF RevocationHasCause
  <2>1. CASE t \in revoked
    <3>1. PICK q \in Requests : RevocationHasCause!(t)!(q)
      BY <2>1 DEF RevocationHasCause
    <3> QED
      BY <3>1 DEF TypeOK, Control
  <2>2. CASE t \in Held(r)
    BY <2>2 DEF TypeOK, Control, Locking
  <2> QED
    BY <2>1, <2>2
<1>7. History'
  BY DEF TypeOK, Control, Tokens, Locking, FamilyRevoked, History, Spends
<1> QED
  BY <1>1, <1>2, <1>3, <1>4, <1>5, <1>6, <1>7

\* The response leaves the tables alone.
LEMMA ReplyPreserves ==
  ASSUME IInv, NEW r \in Requests, NEW outcome \in {"granted", "lost"}, Reply(r, outcome)
  PROVE  IInv'
<1> USE ConstantsAssumption DEF IInv, request, tables, Waiting, Answered, Reply, Goto
<1>1. TypeOK'
  BY DEF TypeOK, Locking
<1>2. Control'
  BY DEF TypeOK, Control, Tokens, Locking
<1>3. Tokens'
  BY DEF TypeOK, Control, Tokens, Locking
<1>4. Locking'
  BY DEF TypeOK, Control, Tokens, Locking
<1>5. FamilyRevoked'
  BY DEF TypeOK, Control, Tokens, Locking, History, FamilyRevoked
<1>6. RevocationHasCause'
  BY DEF TypeOK, Control, Tokens, Locking, RevocationHasCause
<1>7. History'
  BY DEF TypeOK, Control, Tokens, Locking, FamilyRevoked, History, Spends
<1> QED
  BY <1>1, <1>2, <1>3, <1>4, <1>5, <1>6, <1>7

\* A rollback leaves the tables alone.
LEMMA AbortPreserves ==
  ASSUME IInv, NEW r \in Requests, Abort(r)
  PROVE  IInv'
<1> USE ConstantsAssumption DEF IInv, request, tables, Waiting, Answered, Abort,
        ReleaseLocks
<1>1. TypeOK'
  BY DEF TypeOK, Locking
<1>2. Control'
  BY DEF TypeOK, Control, Tokens, Locking
<1>3. Tokens'
  BY DEF TypeOK, Control, Tokens, Locking
<1>4. Locking'
  BY DEF TypeOK, Control, Tokens, Locking
<1>5. FamilyRevoked'
  BY DEF TypeOK, Control, Tokens, Locking, History, FamilyRevoked
<1>6. RevocationHasCause'
  BY DEF TypeOK, Control, Tokens, Locking, RevocationHasCause
<1>7. History'
  BY DEF TypeOK, Control, Tokens, Locking, FamilyRevoked, History, Spends
<1> QED
  BY <1>1, <1>2, <1>3, <1>4, <1>5, <1>6, <1>7

\* The clock and the end of a behaviour change no conjunct but the type of now.
LEMMA IdlePreserves ==
  ASSUME IInv, Tick \/ Finished \/ UNCHANGED vars
  PROVE  IInv'
<1> USE ConstantsAssumption DEF IInv, request, tables, vars, Tick, Finished
<1>1. TypeOK'
  BY DEF TypeOK
<1>2. Control' /\ Tokens' /\ Locking'
  BY DEF Control, Tokens, Locking
<1>3. FamilyRevoked' /\ RevocationHasCause' /\ History'
  BY DEF FamilyRevoked, RevocationHasCause, History, Spends
<1> QED
  BY <1>1, <1>2, <1>3

\* Every step of the service preserves the invariant.
LEMMA NextPreserves == IInv /\ [Next]_vars => IInv'
<1> SUFFICES ASSUME IInv, [Next]_vars PROVE IInv'
  OBVIOUS
<1>1. ASSUME NEW r \in Requests, Send(r) PROVE IInv'
  <2>1. \A t \in Known : (Refresh(r, t) => IInv') /\ (Logout(r, t) => IInv')
    BY RefreshPreserves, LogoutPreserves
  <2> QED
    BY <1>1, <2>1, LoginPreserves, DeactivatePreserves DEF Send
<1>2. ASSUME NEW r \in Requests, Serve(r) PROVE IInv'
  BY <1>2, IssuePairPreserves, RejectStoredPreserves, DetectReusePreserves,
     LoadUserPreserves, RevokeRowPreserves, CommitFamilyPreserves,
     RetirePresentedPreserves, CommitRotationPreserves, EndSessionPreserves,
     CommitLogoutPreserves, ReplyPreserves DEF Serve
<1>3. ASSUME NEW r \in Requests, Abort(r) PROVE IInv'
  BY <1>3, AbortPreserves
<1> QED
  BY <1>1, <1>2, <1>3, IdlePreserves DEF Next

\* The invariant holds of every reachable state.
LEMMA Invariance == Spec => []IInv
  BY InitEstablishes, NextPreserves, PTL DEF Spec

-----------------------------------------------------------------------------
(* Expiry                                                                  *)

\* A request that has passed the test of the expiry was sent before it.
Timing ==
  \A r \in Requests :
    /\ sent[r] <= now
    /\ pc[r] \in {"loaded", "rotating"} \/ (r \in issued /\ op[r] = "refresh") =>
         sent[r] < expires_at[presented[r]]

\* Nothing moves the expiry of a row that is presented, or the time a request was
\* sent; the clock only goes forward.
LEMMA TimingPreserves ==
  ASSUME IInv, Timing, [Next]_vars
  PROVE  Timing'
<1> USE DEF IInv, Timing, request, tables
<1>1. ASSUME NEW r \in Requests, Send(r) PROVE Timing'
  BY <1>1 DEF TypeOK, Control, Send, Login, Refresh, Logout, Present, Deactivate, Arrive, Goto
<1>2. ASSUME NEW r \in Requests, Serve(r) PROVE Timing'
  <2>1. CASE IssuePair(r) \/ CommitRotation(r)
    BY <2>1, ConstantsAssumption
       DEF TypeOK, Control, Tokens, IssuePair, CommitRotation, Insert, Goto, ReleaseLocks
  <2>2. CASE LoadUser(r) \/ RejectStored(r)
    BY <2>2 DEF TypeOK, Control, Tokens, LoadUser, RejectStored, Expired, Goto
  <2>3. CASE \/ DetectReuse(r) \/ CommitFamily(r) \/ RetirePresented(r)
             \/ (\E t \in Requests : RevokeRow(r, t))
             \/ EndSession(r) \/ CommitLogout(r)
             \/ (\E outcome \in {"granted", "lost"} : Reply(r, outcome))
    BY <2>3 DEF TypeOK, Control, DetectReuse, CommitFamily, RetirePresented, RevokeRow,
                EndSession, CommitLogout, Reply, Goto
  <2> QED
    BY <1>2, <2>1, <2>2, <2>3 DEF Serve
<1>3. ASSUME NEW r \in Requests, Abort(r) PROVE Timing'
  BY <1>3 DEF TypeOK, Control, Abort, Goto
<1>4. CASE Tick
  BY <1>4 DEF TypeOK, Tick
<1>5. CASE Finished \/ UNCHANGED vars
  BY <1>5 DEF Finished, vars
<1> QED
  BY <1>1, <1>2, <1>3, <1>4, <1>5 DEF Next

\* The timing holds of every reachable state.
LEMMA TimingInvariance == Spec => []Timing
<1>1. Init => Timing
  <2> SUFFICES ASSUME Init, NEW r \in Requests PROVE Timing!(r)
    BY DEF Timing
  <2>1. sent[r] = 0 /\ now = 0
    BY DEF Init
  <2>2. pc[r] = "idle" /\ r \notin issued
    BY DEF Init
  <2> QED
    BY <2>1, <2>2
<1>2. IInv /\ Timing /\ [Next]_vars => Timing'
  BY TimingPreserves
<1> QED
  BY <1>1, <1>2, Invariance, PTL DEF Spec

-----------------------------------------------------------------------------
(* What the service promises                                               *)

\* Every variable keeps its type, and only rows that exist are revoked.
THEOREM TypeCorrectness == Spec => []TypeOK
<1>1. IInv => TypeOK
  BY DEF IInv
<1> QED
  BY <1>1, Invariance, PTL

\* No pair is bought with a token that stays active, whatever overlaps with the
\* rotation and wherever it fails.
THEOREM RotationIsAtomic == Spec => []RotationAtomic
<1>1. IInv => RotationAtomic
  BY DEF IInv, TypeOK, Control, RotationAtomic
<1> QED
  BY <1>1, Invariance, PTL

\* No token is revoked but by a rotation, a logout or a reuse report that committed.
THEOREM RevocationIsCaused == Spec => []RevocationHasCause
<1>1. IInv => RevocationHasCause
  BY DEF IInv
<1> QED
  BY <1>1, Invariance, PTL

\* A reuse report is sent when all tokens that were handed out before are revoked.
THEOREM ReuseRevokesFamily == Spec => []FamilyRevoked
<1>1. IInv => FamilyRevoked
  BY DEF IInv
<1> QED
  BY <1>1, Invariance, PTL

\* Once an answer has said that a token is spent, no later refresh succeeds with it.
THEOREM SpentTokensAreRefused == Spec => []SpentTokenRefused
<1>1. IInv => SpentTokenRefused
  <2> SUFFICES ASSUME IInv, NEW s \in issued, NEW r \in before[s], op[s] = "refresh",
                      Spends(r, presented[s])
               PROVE  FALSE
    BY DEF SpentTokenRefused
  <2>1. s \in Requests /\ presented[s] # None
    BY DEF IInv, TypeOK, Control
  <2>2. stored[s] = "active"
    BY <2>1 DEF IInv, Control
  <2>3. stored[s] = "revoked"
    BY <2>1 DEF IInv, History
  <2> QED
    BY <2>2, <2>3
<1> QED
  BY <1>1, Invariance, PTL

\* A user who is deactivated gets no pair from a request sent afterwards.
THEOREM DeactivatedUsersGetNothing == Spec => []DeactivationIsFinal
<1>1. IInv => DeactivationIsFinal
  <2> SUFFICES ASSUME IInv, NEW s \in issued, NEW r \in before[s],
                      op[r] = "deactivate", owner[r] = owner[s]
               PROVE  FALSE
    BY DEF DeactivationIsFinal
  <2>1. s \in Requests /\ pc[s] \in {"committed", "granted", "lost"}
    BY DEF IInv, TypeOK, Control
  <2> QED
    BY <2>1 DEF IInv, History
<1> QED
  BY <1>1, Invariance, PTL

\* A token that had expired when a request was sent buys it nothing.
THEOREM ExpiredTokensBuyNothing == Spec => []ExpiryIsFinal
<1>1. IInv /\ Timing => ExpiryIsFinal
  BY DEF IInv, TypeOK, Timing, ExpiryIsFinal
<1> QED
  BY <1>1, Invariance, TimingInvariance, PTL

-----------------------------------------------------------------------------
(* Who waits for whom                                                      *)

\* The statement of r that comes next needs no row that is locked.
Unblocked(r) ==
  /\ pc[r] \in {"loaded", "ending"} => lock[presented[r]] = None
  /\ pc[r] = "revoking" =>
       \/ family[r] \subseteq revoked \cup Held(r)
       \/ \E t \in family[r] \ revoked : lock[t] = None

\* The transaction of s has a row that r is to change.
WaitsFor(r, s) ==
  \E t \in Held(s) :
    \/ pc[r] \in {"loaded", "ending"} /\ presented[r] = t
    \/ pc[r] = "revoking" /\ t \in family[r] \ revoked

\* Whoever holds a lock is on its way to a COMMIT or a rollback, and acts for the
\* user of the row.
OnlyOwnRequestsBlock ==
  \A r \in Requests : Unblocked(r) \/
    \E s \in Requests \ {r} :
      /\ WaitsFor(r, s)
      /\ pc[s] \in {"rotating", "closing", "revoking"}
      /\ owner[s] = owner[r]

\* Requests each of which waits for one of them, and has one of them waiting for it.
Circle(C) ==
  \A r \in C : (\E s \in C \ {r} : WaitsFor(r, s)) /\ (\E s \in C \ {r} : WaitsFor(s, r))

EveryCircleIsBroken ==
  \A C \in SUBSET Requests : Circle(C) => \A r \in C : Deadlocked(r)

\* A refresh or a logout waits for a row only while another request of the same user,
\* which is still being served, has it: no lock outlives its transaction, and no user
\* keeps another one waiting (auth.py:109-114, 149-152, 162-164, db/session.py:24-27).
THEOREM WaitsStayWithinAUser == Spec => []OnlyOwnRequestsBlock
<1>1. IInv => OnlyOwnRequestsBlock
  <2> SUFFICES ASSUME IInv, NEW r \in Requests, ~Unblocked(r)
               PROVE  \E s \in Requests \ {r} :
                        /\ WaitsFor(r, s)
                        /\ pc[s] \in {"rotating", "closing", "revoking"}
                        /\ owner[s] = owner[r]
    BY DEF OnlyOwnRequestsBlock
  <2> DEFINE Needed(t) ==
        \/ pc[r] \in {"loaded", "ending"} /\ presented[r] = t
        \/ pc[r] = "revoking" /\ t \in family[r] \ revoked
  <2>1. \E t \in Requests : Needed(t) /\ lock[t] # None /\ lock[t] # r
    <3>1. CASE pc[r] \in {"loaded", "ending"} /\ lock[presented[r]] # None
      <4>1. presented[r] \in Requests
        BY <3>1 DEF IInv, TypeOK, Control
      <4>2. pc[lock[presented[r]]] \in {"rotating", "closing", "revoking"}
        BY <3>1, <4>1 DEF IInv, Locking
      <4>3. lock[presented[r]] # r
        BY <3>1, <4>2
      <4> QED
        BY <3>1, <4>1, <4>3
    <3>2. CASE /\ pc[r] = "revoking" /\ ~(family[r] \subseteq revoked \cup Held(r))
               /\ \A t \in family[r] \ revoked : lock[t] # None
      <4>1. PICK t \in family[r] : t \notin revoked /\ t \notin Held(r)
        BY <3>2
      <4>2. t \in Requests
        BY DEF IInv, TypeOK
      <4> QED
        BY <3>2, <4>1, <4>2 DEF Held
    <3> QED
      BY <3>1, <3>2 DEF Unblocked
  <2>2. PICK t \in Requests : Needed(t) /\ lock[t] # None /\ lock[t] # r
    BY <2>1
  <2>3. lock[t] \in Requests /\ t \in Held(lock[t])
    BY <2>2 DEF IInv, TypeOK, Held
  <2>4. /\ owner[t] = owner[lock[t]]
        /\ pc[lock[t]] \in {"rotating", "closing", "revoking"}
    BY <2>2 DEF IInv, Locking
  <2>5. owner[t] = owner[r]
    <3>1. CASE pc[r] \in {"loaded", "ending"} /\ presented[r] = t
      BY <3>1 DEF IInv, Control, Tokens
    <3>2. CASE t \in family[r]
      BY <3>2 DEF IInv, Tokens
    <3> QED
      BY <2>2, <3>1, <3>2
  <2> QED
    BY <2>2, <2>3, <2>4, <2>5 DEF WaitsFor
<1> QED
  BY <1>1, Invariance, PTL

\* Transactions that wait for each other in a circle are all reuse reports, and the
\* database finds each such circle: a rotation or a logout has nothing to wait for
\* once it has its row (auth.py:109-114, 149-152, 162-164).
THEOREM DeadlocksAreReports == Spec => []EveryCircleIsBroken
<1>1. IInv => EveryCircleIsBroken
  <2> SUFFICES ASSUME IInv, NEW C \in SUBSET Requests, Circle(C), NEW r \in C
               PROVE  Deadlocked(r)
    BY DEF EveryCircleIsBroken
  <2>1. ASSUME NEW q \in C
        PROVE  pc[q] = "revoking" /\ \E t \in family[q] \ revoked : lock[t] \in C \ {q}
    <3>1. PICK s \in C \ {q} : WaitsFor(s, q)
      BY DEF Circle
    <3>2. PICK t \in Requests : lock[t] = q
      BY <3>1 DEF WaitsFor, Held
    <3>3. pc[q] \in {"rotating", "closing", "revoking"}
      <4>1. q # None
        BY ConstantsAssumption
      <4> QED
        BY <3>2, <4>1 DEF IInv, Locking
    <3>4. PICK p \in C \ {q} : WaitsFor(q, p)
      BY DEF Circle
    <3>5. PICK u \in Held(p) :
            \/ pc[q] \in {"loaded", "ending"} /\ presented[q] = u
            \/ pc[q] = "revoking" /\ u \in family[q] \ revoked
      BY <3>4 DEF WaitsFor
    <3>6. pc[q] = "revoking" /\ u \in family[q] \ revoked
      BY <3>3, <3>5
    <3>7. lock[u] = p
      BY DEF Held
    <3> QED
      BY <3>6, <3>7
  <2> QED
    BY <2>1 DEF Deadlocked
<1> QED
  BY <1>1, Invariance, PTL

-----------------------------------------------------------------------------
(* What overlap can do, and nothing else                                   *)

\* A request buys nothing with a token that was spent before it was sent.
LEMMA SpentBuysNothing ==
  ASSUME IInv, NEW t \in issued, NEW s \in before[t],
         presented[t] # None, Spends(s, presented[t])
  PROVE  FALSE
<1>1. /\ t \in Requests /\ op[t] \in {"refresh", "logout"}
      /\ op[t] \in {"login", "refresh"}
  BY DEF IInv, TypeOK, Control, Tokens
<1>2. op[t] = "refresh" /\ stored[t] = "active"
  BY <1>1 DEF IInv, Control
<1> QED
  BY <1>1, <1>2 DEF IInv, History

\* A token buys a second pair only for a request that is in flight together with the
\* first: a retry or a replay sent after the answer buys nothing, whatever else
\* overlaps (auth.py:130-153).
THEOREM SecondPairsOverlap == Spec => []SingleUseInTurn
<1>1. IInv => SingleUseInTurn
  <2>1. ASSUME IInv, NEW r \in issued, NEW s \in issued,
               presented[r] = presented[s], presented[r] # None, r \in before[s]
        PROVE  FALSE
    <3>1. r \in Requests /\ s \in Requests
      BY <2>1 DEF IInv, TypeOK
    <3>2. pc[r] \in {"granted", "lost"}
      BY <2>1, <3>1 DEF IInv, Control, History, Answered
    <3>3. Spends(r, presented[s])
      BY <2>1, <3>2 DEF Spends
    <3> QED
      BY <2>1, <3>3, SpentBuysNothing
  <2> QED
    BY <2>1 DEF SingleUseInTurn, Overlapping
<1> QED
  BY <1>1, Invariance, PTL

\* A session outlives the report of a reuse only by a rotation in flight together
\* with it: the tokens handed out before are revoked when it is sent, and they buy
\* nothing afterwards (auth.py:133-139).
THEOREM SurvivorsOverlap == Spec => []FamilyDeadInTurn
<1>1. IInv => FamilyDeadInTurn
  <2> SUFFICES ASSUME IInv, NEW r \in Requests, NEW t \in issued \ revoked, pc[r] = "reused",
                      owner[t] = owner[r], {t, presented[t]} \cap before[r] # {}
               PROVE  Overlapping(r, t)
    BY DEF FamilyDeadInTurn
  <2>1. t \notin before[r]
    BY DEF IInv, FamilyRevoked
  <2>2. r \notin before[t]
    <3>1. presented[t] \in before[r]
      BY <2>1
    <3>2. presented[t] \in Requests /\ presented[t] # None /\ t \in Requests
      BY <3>1, ConstantsAssumption DEF IInv, TypeOK
    <3>3. presented[t] \in issued /\ owner[presented[t]] = owner[r]
      BY <3>2 DEF IInv, Tokens
    <3>4. Spends(r, presented[t])
      BY <3>1, <3>3 DEF Spends
    <3> QED
      BY <3>2, <3>4, SpentBuysNothing
  <2> QED
    BY <2>1, <2>2 DEF Overlapping
<1> QED
  BY <1>1, Invariance, PTL
=============================================================================
