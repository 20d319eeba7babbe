-------------------- MODULE RefreshTokensContract_proofs --------------------
(***************************************************************************)
(* RefreshTokens implements TokenContract: each transaction that commits   *)
(* is one step of the contract.  As long as no two requests overlap, what  *)
(* the request in flight has read still holds when it commits; from then   *)
(* on the contract allows for what the overlap may have changed.           *)
(***************************************************************************)
EXTENDS RefreshTokens_proofs

\* What a request in flight read of its token, or of the family, still holds.
Fresh ==
  \A r \in Requests :
    /\ pc[r] \in {"selected", "loaded", "rotating", "ending", "closing"} /\ stored[r] = "active"
         => presented[r] \notin revoked
    /\ pc[r] = "revoking" => family[r] = Active(owner[r])

FreshInTurn == ~Overlapped => Fresh

-----------------------------------------------------------------------------
(* Without overlap, nothing that was read goes stale                       *)

\* Two requests in flight overlap: neither was answered when the other was sent.
LEMMA InFlightAlone ==
  ASSUME IInv, ~Overlapped, NEW r \in Requests, NEW s \in Requests,
         pc[r] \in Waiting, pc[s] \in Waiting
  PROVE  r = s
<1>1. r \in Sent /\ s \in Sent
  BY DEF Sent, Waiting
<1>2. Overlapping(r, s)
  BY DEF IInv, History, Overlapping, Waiting, Answered
<1> QED
  BY <1>1, <1>2 DEF Overlapped

\* Requests that have overlapped have done so for good.
LEMMA OverlapStays ==
  ASSUME IInv, Overlapped, [Next]_vars
  PROVE  Overlapped'
<1>1. PICK r \in Sent, s \in Sent : s # r /\ Overlapping(r, s)
  BY DEF Overlapped
<1>2. \A q \in Sent : q \in Requests /\ pc[q] # "idle"
  BY DEF Sent
<1>3. ASSUME NEW q \in Sent PROVE q \in Sent' /\ before'[q] = before[q]
  <2> USE <1>2 DEF IInv, TypeOK, Sent, tables, request
  <2>1. ASSUME NEW p \in Requests, Send(p) PROVE pc'[q] # "idle" /\ before'[q] = before[q]
    BY <2>1 DEF Send, Login, Refresh, Logout, Present, Deactivate, Arrive, Goto, Answered, Waiting
  <2>2. ASSUME NEW p \in Requests, Serve(p) PROVE pc'[q] # "idle" /\ before' = before
    BY <2>2 DEF Serve, IssuePair, RejectStored, DetectReuse, LoadUser, RevokeRow, CommitFamily,
                RetirePresented, CommitRotation, EndSession, CommitLogout, Reply, Goto
  <2>3. ASSUME NEW p \in Requests, Abort(p) PROVE pc'[q] # "idle" /\ before' = before
    BY <2>3 DEF Abort
  <2>4. CASE Tick \/ Finished \/ UNCHANGED vars
    BY <2>4 DEF Tick, Finished, vars
  <2> QED
    BY <2>1, <2>2, <2>3, <2>4 DEF Next
<1>4. r \in Sent' /\ s \in Sent' /\ before'[r] = before[r] /\ before'[s] = before[s]
  BY <1>1, <1>3
<1> QED
  BY <1>1, <1>4 DEF Overlapped, Overlapping

\* A request that arrives reads its token as it is, and touches no row.
LEMMA SendFresh ==
  ASSUME IInv, Fresh, NEW r \in Requests, Send(r)
  PROVE  Fresh'
<1> USE ConstantsAssumption
        DEF IInv, TypeOK, Control, Tokens, Arrive, Goto, Fresh, Active, tables, request
<1>1. ASSUME NEW u \in Users, NEW password_matches \in BOOLEAN, Login(r, u, password_matches)
      PROVE  Fresh'
  BY <1>1 DEF Login
<1>2. ASSUME NEW t \in Known, Refresh(r, t) PROVE Fresh'
  BY <1>2 DEF Refresh, Present, Read, Known
<1>3. ASSUME NEW t \in Known, Logout(r, t) PROVE Fresh'
  BY <1>3 DEF Logout, Present, Read, Known
<1>4. ASSUME NEW u \in Users, Deactivate(r, u) PROVE Fresh'
  BY <1>4 DEF Deactivate
<1> QED
  BY <1>1, <1>2, <1>3, <1>4 DEF Send

\* A request that is alone is the only one with something to go stale, and it has
\* used it when it changes a row.
LEMMA ServeFresh ==
  ASSUME IInv, Fresh, ~Overlapped, NEW r \in Requests, Serve(r)
  PROVE  Fresh'
<1> USE ConstantsAssumption
        DEF IInv, TypeOK, Control, Tokens, Goto, Fresh, Active, tables, request
<1>1. ASSUME NEW s \in Requests, s # r, pc[r] \in Waiting PROVE pc[s] \notin Waiting
  BY <1>1, InFlightAlone
<1>2. CASE IssuePair(r)
  BY <1>1, <1>2 DEF IssuePair, Insert, Waiting
<1>3. CASE RejectStored(r) \/ LoadUser(r) \/ RetirePresented(r) \/ EndSession(r)
  BY <1>3 DEF RejectStored, LoadUser, RetirePresented, EndSession
<1>4. CASE DetectReuse(r)
  BY <1>4 DEF DetectReuse
<1>5. CASE CommitFamily(r)
  BY <1>1, <1>5 DEF CommitFamily, Waiting
<1>6. CASE CommitRotation(r)
  BY <1>1, <1>6 DEF CommitRotation, Insert, Waiting
<1>7. CASE CommitLogout(r)
  BY <1>1, <1>7 DEF CommitLogout, Waiting
<1>8. CASE \/ \E t \in Requests : RevokeRow(r, t)
           \/ \E outcome \in {"granted", "lost"} : Reply(r, outcome)
  BY <1>8 DEF RevokeRow, Reply
<1> QED
  BY <1>2, <1>3, <1>4, <1>5, <1>6, <1>7, <1>8 DEF Serve

\* Until two requests overlap, what a request has read is as it was.
LEMMA FreshPreserves ==
  ASSUME IInv, FreshInTurn, [Next]_vars
  PROVE  FreshInTurn'
<1> SUFFICES ASSUME ~Overlapped' PROVE Fresh'
  BY DEF FreshInTurn
<1>1. ~Overlapped /\ Fresh
  BY OverlapStays DEF FreshInTurn
<1>2. ASSUME NEW r \in Requests, Abort(r) PROVE Fresh'
  BY <1>1, <1>2 DEF IInv, TypeOK, Abort, Fresh, Active, tables, request
<1>3. CASE Tick \/ Finished \/ UNCHANGED vars
  BY <1>1, <1>3 DEF Tick, Finished, vars, Fresh, Active, tables, request
<1> QED
  BY <1>1, <1>2, <1>3, SendFresh, ServeFresh DEF Next

\* Both invariants hold of every state.
LEMMA FreshInvariance == Spec => [](IInv /\ FreshInTurn)
<1>1. Init => FreshInTurn
  BY DEF Init, FreshInTurn, Fresh
<1>2. IInv /\ FreshInTurn /\ [Next]_vars => FreshInTurn'
  BY FreshPreserves
<1> QED
  BY <1>1, <1>2, Invariance, PTL DEF Spec

-----------------------------------------------------------------------------
(* The contract                                                            *)

\* The values that the refinement gives to holder and origin.
Holder == [t \in Requests |-> IF t \in issued THEN owner[t] ELSE None]
Origin == [t \in Requests |-> IF t \in issued THEN presented[t] ELSE None]

\* No token exists when the service starts.
LEMMA InitMaps == Init => Contract!Init
  BY DEF Init, Contract!Init, Overlapped, Sent

\* A step that writes no row and keeps what is said of every token does nothing to
\* the contract, but that it may be where requests overlap for the first time.
LEMMA NothingCommitted ==
  ASSUME IInv, [Next]_vars, issued' = issued, revoked' = revoked,
         \A t \in issued : owner'[t] = owner[t] /\ presented'[t] = presented[t]
  PROVE  Contract!Overlap \/ UNCHANGED Contract!vars
<1>1. Holder' = Holder /\ Origin' = Origin
  BY DEF Holder, Origin
<1>2. UNCHANGED Contract!tokens
  BY <1>1 DEF Holder, Origin, Contract!tokens
<1>3. Overlapped' = Overlapped \/ Overlapped' = TRUE
  <2>1. Overlapped \in BOOLEAN /\ Overlapped' \in BOOLEAN
    BY DEF Overlapped
  <2> QED
    BY <2>1, OverlapStays
<1> QED
  BY <1>2, <1>3 DEF Contract!Overlap, Contract!vars

\* A step of a request that was sent already makes no two requests overlap.
LEMMA OverlapUnchanged ==
  ASSUME IInv, NEW r \in Requests, NEW to, to # "idle", pc[r] # "idle",
         pc' = [pc EXCEPT ![r] = to], before' = before
  PROVE  Overlapped' = Overlapped
<1>1. Sent' = Sent
  BY DEF Sent, IInv, TypeOK
<1> QED
  BY <1>1 DEF Overlapped, Overlapping

\* The commit of a login grants a token.
LEMMA IssuePairGrants ==
  ASSUME IInv, NEW r \in Requests, IssuePair(r)
  PROVE  \E u \in Users : Contract!Grant(r, u)
<1>1. /\ r \notin issued /\ owner[r] \in Users /\ revoked \subseteq issued
      /\ presented[r] = None
  BY DEF IInv, TypeOK, Control, Tokens, IssuePair, Goto
<1>2. /\ issued' = issued \cup {r} /\ revoked' = revoked
      /\ owner' = owner /\ presented' = presented
  BY DEF IssuePair, Insert, request
<1>3. Overlapped' = Overlapped
  BY OverlapUnchanged DEF IssuePair, Goto, request
<1>4. Holder' = [Holder EXCEPT ![r] = owner[r]]
  BY <1>1, <1>2 DEF Holder
<1>5. Origin' = [Origin EXCEPT ![r] = None]
  BY <1>1, <1>2 DEF Origin
<1>6. Contract!Mint(r, owner[r], None)
  BY <1>1, <1>3, <1>4, <1>5 DEF Holder, Origin, Contract!Mint
<1>7. Contract!Grant(r, owner[r])
  BY <1>1, <1>2, <1>6 DEF Contract!Grant
<1> QED
  BY <1>1, <1>7

\* The commit of a rotation exchanges the presented token for the new one; the
\* presented one is still live unless requests have overlapped.
LEMMA CommitRotationRotates ==
  ASSUME IInv, FreshInTurn, NEW r \in Requests, CommitRotation(r)
  PROVE  \E t \in Requests : Contract!Rotate(t, r)
<1> DEFINE t == presented[r]
<1>1. /\ r \notin issued /\ revoked \subseteq issued
      /\ t \in issued /\ t \in Requests /\ owner[t] = owner[r]
      /\ stored[r] = "active" /\ pc[r] = "rotating"
  BY ConstantsAssumption DEF IInv, TypeOK, Control, Tokens, CommitRotation, Goto
<1>2. Held(r) = {t}
  BY <1>1, ConstantsAssumption
     DEF IInv, TypeOK, Locking, Held, CommitRotation, Goto
<1>3. /\ issued' = issued \cup {r} /\ revoked' = revoked \cup {t}
      /\ owner' = owner /\ presented' = presented
  BY <1>2 DEF CommitRotation, Insert, request
<1>4. Overlapped' = Overlapped
  BY OverlapUnchanged DEF CommitRotation, Goto, request
<1>5. Holder' = [Holder EXCEPT ![r] = Holder[t]]
  BY <1>1, <1>3 DEF Holder
<1>6. Origin' = [Origin EXCEPT ![r] = t]
  BY <1>1, <1>3 DEF Origin
<1>7. ~Overlapped => t \notin revoked
  BY <1>1 DEF FreshInTurn, Fresh
<1>8. t \in Contract!Spendable
  BY <1>1, <1>7 DEF Contract!Spendable
<1>9. Contract!Mint(r, Holder[t], t)
  BY <1>1, <1>4, <1>5, <1>6 DEF Holder, Origin, Contract!Mint
<1>10. Contract!Rotate(t, r)
  BY <1>1, <1>3, <1>8, <1>9 DEF Holder, Contract!Rotate
<1> QED
  BY <1>1, <1>10

\* The commit of a logout retires the presented token, unless an overlapping
\* request has done so.
LEMMA CommitLogoutRetires ==
  ASSUME IInv, NEW r \in Requests, CommitLogout(r)
  PROVE  (\E t \in Requests : Contract!Retire(t)) \/ UNCHANGED Contract!vars
<1> DEFINE t == presented[r]
<1>1. t \in issued /\ t \in Requests
  BY ConstantsAssumption DEF IInv, TypeOK, Control, Tokens, CommitLogout, Goto
<1>2. Held(r) = {t}
  BY <1>1, ConstantsAssumption
     DEF IInv, TypeOK, Locking, Held, CommitLogout, Goto
<1>3. issued' = issued /\ revoked' = revoked \cup {t}
  BY <1>2 DEF CommitLogout
<1>4. Holder' = Holder /\ Origin' = Origin
  BY DEF CommitLogout, Holder, Origin, request
<1>5. Overlapped' = Overlapped
  BY OverlapUnchanged DEF CommitLogout, Goto, request
<1>6. CASE t \in revoked
  BY <1>3, <1>4, <1>5, <1>6 DEF Holder, Origin, Contract!vars, Contract!tokens
<1>7. CASE t \notin revoked
  <2>1. Contract!Retire(t)
    BY <1>1, <1>3, <1>4, <1>5, <1>7 DEF Holder, Origin, Contract!Retire, Contract!Cancel
  <2> QED
    BY <1>1, <2>1
<1> QED
  BY <1>6, <1>7

\* The commit of a family-wide revocation retires tokens its user held: all of
\* them, unless requests have overlapped.
LEMMA CommitFamilyRetires ==
  ASSUME IInv, FreshInTurn, NEW r \in Requests, CommitFamily(r)
  PROVE  \E u \in Users : \E gone \in SUBSET (issued \ revoked) : Contract!RetireFamily(u, gone)
<1> DEFINE u == owner[r]
           gone == Held(r) \ revoked
<1>1. /\ presented[r] \in revoked /\ presented[r] \in Requests
      /\ owner[presented[r]] = u /\ revoked \subseteq issued /\ u \in Users
  BY ConstantsAssumption DEF IInv, TypeOK, Control, Tokens, CommitFamily, Goto
<1>2. Held(r) \subseteq family[r] /\ family[r] \subseteq {t \in issued : owner[t] = u}
  BY ConstantsAssumption
     DEF IInv, TypeOK, Control, Tokens, Locking, Held, CommitFamily, Goto
<1>3. Contract!LiveOf(u) = Active(u) /\ Contract!RetiredOf(u) # {}
  BY <1>1 DEF Contract!LiveOf, Contract!RetiredOf, Active, IInv, TypeOK
<1>4. gone \subseteq Active(u)
  BY <1>2 DEF Active
<1>5. ~Overlapped => gone = Active(u)
  <2> SUFFICES ASSUME ~Overlapped PROVE Active(u) \subseteq gone
    BY <1>4
  <2>1. family[r] = Active(u)
    BY DEF FreshInTurn, Fresh, CommitFamily, Goto
  <2> QED
    BY <2>1 DEF CommitFamily, Active
<1>6. issued' = issued /\ revoked' = revoked \cup gone
  BY DEF CommitFamily
<1>7. Holder' = Holder /\ Origin' = Origin
  BY DEF CommitFamily, Holder, Origin, request
<1>8. Overlapped' = Overlapped
  BY OverlapUnchanged DEF CommitFamily, Goto, request
<1>9. Contract!Cancel(gone)
  BY <1>6, <1>7, <1>8 DEF Holder, Origin, Contract!Cancel
<1>10. Contract!RetireFamily(u, gone)
  BY <1>3, <1>4, <1>5, <1>9 DEF Contract!RetireFamily
<1>11. gone \in SUBSET (issued \ revoked)
  BY <1>4 DEF Active
<1> QED
  BY <1>1, <1>10, <1>11

\* Every step of the service is one step of the contract, or none.
LEMMA NextMaps ==
  ASSUME IInv, FreshInTurn, [Next]_vars
  PROVE  [Contract!Next]_(Contract!vars)
<1>1. Contract!Overlap => [Contract!Next]_(Contract!vars)
  BY DEF Contract!Next
<1>2. ASSUME NEW r \in Requests, Send(r) PROVE [Contract!Next]_(Contract!vars)
  <2>1. /\ pc[r] = "idle" /\ issued' = issued /\ revoked' = revoked
        /\ \A t \in Requests \ {r} : owner'[t] = owner[t] /\ presented'[t] = presented[t]
    BY <1>2 DEF IInv, TypeOK, Send, Login, Refresh, Logout, Present, Deactivate, Arrive, Goto, tables
  <2>2. r \notin issued /\ issued \subseteq Requests
    BY <2>1 DEF IInv, TypeOK, Control
  <2> QED
    BY <1>1, <2>1, <2>2, NothingCommitted
<1>3. ASSUME NEW r \in Requests, Serve(r) PROVE [Contract!Next]_(Contract!vars)
  <2>1. ASSUME RejectStored(r) \/ DetectReuse(r) \/ LoadUser(r) \/ RetirePresented(r)
               \/ EndSession(r) \/ (\E t \in Requests : RevokeRow(r, t))
               \/ (\E outcome \in {"granted", "lost"} : Reply(r, outcome))
        PROVE  [Contract!Next]_(Contract!vars)
    <3>1. issued' = issued /\ revoked' = revoked /\ owner' = owner /\ presented' = presented
      BY <2>1
         DEF RejectStored, DetectReuse, LoadUser, RetirePresented, EndSession,
             RevokeRow, Reply, tables, request
    <3> QED
      BY <1>1, <3>1, NothingCommitted
  <2>2. CASE IssuePair(r)
    BY <2>2, IssuePairGrants DEF Contract!Next
  <2>3. CASE CommitFamily(r)
    BY <2>3, CommitFamilyRetires DEF Contract!Next
  <2>4. CASE CommitRotation(r)
    BY <2>4, CommitRotationRotates DEF Contract!Next
  <2>5. CASE CommitLogout(r)
    BY <2>5, CommitLogoutRetires DEF Contract!Next
  <2> QED
    BY <1>3, <2>1, <2>2, <2>3, <2>4, <2>5 DEF Serve
<1>4. ASSUME \/ \E r \in Requests : Abort(r)
             \/ Tick \/ Finished \/ UNCHANGED vars
      PROVE  [Contract!Next]_(Contract!vars)
  <2>1. issued' = issued /\ revoked' = revoked /\ owner' = owner /\ presented' = presented
    BY <1>4 DEF Abort, Tick, Finished, vars, tables, request
  <2> QED
    BY <1>1, <2>1, NothingCommitted
<1> QED
  BY <1>2, <1>3, <1>4 DEF Next

\* The service implements the contract: until two requests overlap, a token buys one
\* successor and a replayed token ends all sessions of its user (auth.py:117-164);
\* from then on a token may buy several successors, but only for its own user, no
\* token comes back to life, and a report ends sessions of none but the user it is
\* about.
THEOREM Refinement == Spec => ImplementsContract
<1>1. IInv /\ FreshInTurn /\ [Next]_vars => [Contract!Next]_(Contract!vars)
  BY NextMaps
<1> QED
  BY <1>1, FreshInvariance, InitMaps, PTL DEF ImplementsContract, Contract!Spec, Spec
=============================================================================
