---------------------------- MODULE Accounts_proofs ----------------------------
(***************************************************************************)
(* Registration, login and the admin at startup, for every set of          *)
(* requests, instances and addresses.                                      *)
(***************************************************************************)
EXTENDS Accounts, TLAPS

\* Whoever goes on to insert has an address to insert.
Addressed ==
  \A x \in Actors :
    pc[x] \in {"absent", "inserting", "created", "conflict", "error", "failed", "rejected"} =>
      address[x] \in Typed

\* The row of a request and its 201 are written by one step.
Owning ==
  /\ \A r \in Requests : pc[r] = "created" => account[Normal[address[r]]] = r
  /\ \A r \in Requests, a \in Stored : account[a] = r => pc[r] = "created"

\* Only a row stands in the way of a registration.
Taken ==
  \A x \in Actors :
    pc[x] \in {"conflict", "error", "failed"} => account[Normal[address[x]]] # None

\* An instance that does not find its admin has not created it, if the configured
\* address is in normal form.
NotMine ==
  \A i \in Instances :
    (pc[i] \in {"absent", "inserting", "failed"} /\ address[i] \in Stored) =>
      account[address[i]] # i

\* What was answered before a request stays answered.
Answering == \A l \in Requests : \A r \in before[l] : pc[r] \in Answered

\* The schema appears as a whole, and whoever looks into it finds it.
Migrating ==
  /\ schema \in {"absent", "head"}
  /\ \A i \in Instances : pc[i] = "unmigrated" => schema = "head"

IInv ==
  /\ Migrating
  /\ TypeOK /\ Addressed /\ Owning /\ Taken /\ NotMine /\ Answering /\ RegisteredCanLogIn

LEMMA Constants ==
  /\ \A r \in Requests : r \notin Instances /\ r \in Actors
  /\ \A i \in Instances : i \in Actors
  /\ \A a \in Typed : Normal[a] \in Stored
  /\ \A a \in Stored : a \in Typed /\ Normal[a] = a
  /\ None \notin Actors /\ None \notin Typed
  BY ConstantsAssumption DEF Actors

LEMMA InitInv == Init => IInv
<1> SUFFICES ASSUME Init PROVE IInv
  OBVIOUS
<1>1. TypeOK
  BY Constants DEF Init, TypeOK, Starting
<1>2. \A x \in Actors : pc[x] \in {"idle", "down"}
  BY DEF Init
<1>3. \A a \in Stored : account[a] = None
  BY DEF Init
<1>4. Addressed /\ Taken
  BY <1>2 DEF Addressed, Taken
<1>5. Owning /\ NotMine
  BY <1>2, <1>3, Constants DEF Owning, NotMine
<1>6. Answering /\ RegisteredCanLogIn
  BY DEF Init, Answering, RegisteredCanLogIn
<1>7. Migrating
  BY <1>2, Constants DEF Init, Migrating
<1> QED
  BY <1>1, <1>4, <1>5, <1>6, <1>7 DEF IInv

\* A request arrives; what it finds decides where it goes.
LEMMA ArriveInv ==
  ASSUME IInv, NEW r \in Requests, NEW e \in Typed, Register(r, e) \/ Login(r, e)
  PROVE  IInv'
<1> USE Constants DEF IInv, Answered
<1>1. PICK t : Arrive(r, e, t) /\ t \in {"conflict", "inserting", "logged_in", "rejected"}
                 /\ (t = "conflict" => Found(Normal[e])) /\ (t = "rejected" => ~Found(e))
  BY DEF Register, Login
<1>2. /\ pc[r] = "idle" /\ pc' = [pc EXCEPT ![r] = t]
      /\ address' = [address EXCEPT ![r] = e]
      /\ before' = [before EXCEPT ![r] = {s \in Requests : pc[s] \in Answered}]
      /\ UNCHANGED <<schema, configured, account>>
  BY <1>1 DEF Arrive, Goto
<1>3. TypeOK'
  BY <1>1, <1>2 DEF TypeOK
<1>4. Addressed' /\ Taken' /\ NotMine'
  BY <1>1, <1>2 DEF TypeOK, Addressed, Taken, NotMine, Found
<1>5. Owning'
  BY <1>1, <1>2 DEF TypeOK, Owning
<1>6. Answering'
  BY <1>1, <1>2 DEF TypeOK, Answering
<1>7. RegisteredCanLogIn'
  <2> SUFFICES ASSUME NEW l \in Requests, pc'[l] = "rejected",
                      NEW s \in before'[l], pc'[s] = "created"
               PROVE  address'[l] # Normal[address'[s]]
    BY <1>3 DEF RegisteredCanLogIn, TypeOK
  <2>1. s \in Requests /\ s # r /\ pc[s] = "created" /\ address'[s] = address[s]
    BY <1>1, <1>2, <1>3 DEF TypeOK
  <2>2. account[Normal[address[s]]] = s /\ s # None /\ Normal[address[s]] \in Stored
    BY <2>1 DEF Owning, Addressed
  <2>3. CASE l = r
    BY <1>1, <1>2, <2>1, <2>2, <2>3 DEF TypeOK, Found
  <2>4. CASE l # r
    BY <1>2, <2>1, <2>4 DEF TypeOK, RegisteredCanLogIn
  <2> QED
    BY <2>3, <2>4
<1>8. Migrating'
  BY <1>1, <1>2 DEF TypeOK, Migrating
<1> QED
  BY <1>3, <1>4, <1>5, <1>6, <1>7, <1>8

\* The row is inserted, or the unique index refuses it.
LEMMA InsertInv ==
  ASSUME IInv, NEW x \in Actors, Insert(x)
  PROVE  IInv'
<1> USE Constants DEF IInv, Answered
<1> DEFINE a == Normal[address[x]]
<1>0. pc[x] = "inserting" /\ address[x] \in Typed /\ a \in Stored
      /\ UNCHANGED <<schema, configured, address, before>>
  BY DEF Insert, Addressed
<1>1. CASE ~Occupied(a)
  <2>1. /\ account[a] = None
        /\ account' = [account EXCEPT ![a] = x]
        /\ pc' = [pc EXCEPT ![x] = IF x \in Requests THEN "created" ELSE "up"]
    BY <1>1 DEF Insert, Occupied
  <2> HIDE DEF a
  <2>2. TypeOK' /\ Addressed' /\ Migrating'
    BY <1>0, <2>1 DEF TypeOK, Addressed, Starting, Migrating
  <2>3. Owning'
    BY <1>0, <2>1 DEF TypeOK, Addressed, Owning, a, Actors
  <2>4. Taken' /\ NotMine'
    BY <1>0, <2>1 DEF TypeOK, Addressed, Taken, NotMine, Actors
  <2>5. Answering'
    BY <1>0, <2>1 DEF TypeOK, Answering
  <2>6. RegisteredCanLogIn'
    BY <1>0, <2>1 DEF TypeOK, Answering, RegisteredCanLogIn
  <2> QED
    BY <2>2, <2>3, <2>4, <2>5, <2>6
<1>2. CASE Occupied(a)
  <2>1. /\ account[a] # None /\ UNCHANGED account
        /\ pc' = [pc EXCEPT ![x] = IF x \in Requests THEN "error" ELSE "failed"]
    BY <1>2 DEF Insert, Occupied
  <2>2. TypeOK' /\ Addressed' /\ Owning' /\ Taken' /\ NotMine'
    BY <1>0, <2>1 DEF TypeOK, Starting, Addressed, Owning, Taken, NotMine
  <2>3. Answering' /\ RegisteredCanLogIn' /\ Migrating'
    BY <1>0, <2>1 DEF TypeOK, Answering, RegisteredCanLogIn, Migrating
  <2> QED
    BY <2>2, <2>3
<1> QED
  BY <1>1, <1>2

\* The migration changes no row and starts before everything else.
LEMMA MigrationInv ==
  ASSUME IInv, NEW i \in Instances, Upgrade(i) \/ CreateTables(i) \/ CommitSchema(i)
  PROVE  IInv'
<1> USE Constants DEF IInv, Answered, Goto
<1>1. PICK t : /\ pc' = [pc EXCEPT ![i] = t] /\ pc[i] \in {"down", "migrating", "upgraded"}
               /\ t \in {"migrated", "migrating", "upgraded", "unmigrated"}
               /\ UNCHANGED <<configured, account, address, before>>
  BY DEF Upgrade, CreateTables, CommitSchema
<1>2. TypeOK'
  <2>1. schema' \in {"absent", "tables", "head"}
    BY DEF TypeOK, Upgrade, CreateTables, CommitSchema
  <2> QED
    BY <1>1, <2>1 DEF TypeOK, Starting
<1>3. Addressed' /\ Owning' /\ Taken' /\ NotMine'
  BY <1>1 DEF TypeOK, Addressed, Owning, Taken, NotMine
<1>4. Answering' /\ RegisteredCanLogIn'
  BY <1>1 DEF TypeOK, Answering, RegisteredCanLogIn
<1>5. Migrating'
  BY DEF TypeOK, Migrating, Upgrade, CreateTables, CommitSchema
<1> QED
  BY <1>2, <1>3, <1>4, <1>5

\* The steps that change no row and insert nothing.
LEMMA OtherInv ==
  ASSUME IInv,
         (\E x \in Actors : Abort(x)) \/
         (\E i \in Instances : LookUpAdmin(i) \/ RegisterAdmin(i) \/ Stop(i))
  PROVE  IInv'
<1> USE Constants DEF IInv, Answered, Goto
<1>1. ASSUME NEW x \in Actors, Abort(x) PROVE IInv'
  <2>1. TypeOK' /\ Addressed' /\ Owning' /\ Taken' /\ NotMine'
    BY <1>1 DEF Abort, TypeOK, Starting, Addressed, Owning, Taken, NotMine
  <2>2. Answering' /\ RegisteredCanLogIn' /\ Migrating'
    BY <1>1 DEF Abort, TypeOK, Answering, RegisteredCanLogIn, Migrating
  <2> QED
    BY <2>1, <2>2
<1>2. ASSUME NEW i \in Instances, LookUpAdmin(i) PROVE IInv'
  <2>1. TypeOK' /\ Addressed' /\ Owning' /\ Taken' /\ NotMine'
    BY <1>2 DEF LookUpAdmin, Found, TypeOK, Starting, Addressed, Owning, Taken, NotMine
  <2>2. Answering' /\ RegisteredCanLogIn' /\ Migrating'
    BY <1>2 DEF LookUpAdmin, TypeOK, Answering, RegisteredCanLogIn, Migrating
  <2> QED
    BY <2>1, <2>2
<1>3. ASSUME NEW i \in Instances, RegisterAdmin(i) PROVE IInv'
  <2>1. TypeOK' /\ Addressed' /\ Owning' /\ Taken' /\ NotMine'
    BY <1>3 DEF RegisterAdmin, Found, TypeOK, Starting, Addressed, Owning, Taken, NotMine
  <2>2. Answering' /\ RegisteredCanLogIn' /\ Migrating'
    BY <1>3 DEF RegisterAdmin, TypeOK, Answering, RegisteredCanLogIn, Migrating
  <2> QED
    BY <2>1, <2>2
<1>4. ASSUME NEW i \in Instances, Stop(i) PROVE IInv'
  <2>1. TypeOK' /\ Addressed' /\ Owning' /\ Taken' /\ NotMine'
    BY <1>4 DEF Stop, TypeOK, Starting, Addressed, Owning, Taken, NotMine
  <2>2. Answering' /\ RegisteredCanLogIn' /\ Migrating'
    BY <1>4 DEF Stop, TypeOK, Answering, RegisteredCanLogIn, Migrating
  <2> QED
    BY <2>1, <2>2
<1> QED
  BY <1>1, <1>2, <1>3, <1>4

LEMMA StutterInv ==
  ASSUME IInv, UNCHANGED vars
  PROVE  IInv'
  BY DEF IInv, vars, Migrating, TypeOK, Addressed, Owning, Taken, NotMine, Answering, RegisteredCanLogIn

LEMMA Invariance == Spec => []IInv
<1>1. IInv /\ [Next]_vars => IInv'
  BY ArriveInv, InsertInv, MigrationInv, OtherInv, StutterInv DEF Next
<1> QED
  BY <1>1, InitInv, PTL DEF Spec

\* The variables keep their types (services/auth.py:52-82, main.py:33-49).
THEOREM TypeCorrectness == Spec => []TypeOK
<1>1. IInv => TypeOK
  BY DEF IInv
<1> QED
  BY <1>1, Invariance, PTL

\* However many registrations and instances race for an address, the 201 goes to the
\* one whose row it is (auth.py:55-64, models/user.py:25).
THEOREM RegistrationsHaveOneWinner == Spec => []OneWinner
<1>1. IInv => OneWinner
  BY DEF IInv, Owning, OneWinner
<1> QED
  BY <1>1, Invariance, PTL

\* A registration, or a start, is only refused for an address that is taken, and a
\* registration never for its own row (auth.py:55-64).
THEOREM RefusalsAreDeserved == Spec => []RefusedWhenTaken
<1>1. IInv => RefusedWhenTaken
  <2> SUFFICES ASSUME IInv PROVE RefusedWhenTaken
    OBVIOUS
  <2>1. ASSUME NEW r \in Requests, pc[r] \in {"conflict", "error"}
        PROVE  account[Normal[address[r]]] \notin {r, None}
    BY <2>1, Constants DEF IInv, Addressed, Owning, Taken
  <2>2. ASSUME NEW i \in Instances, pc[i] = "failed"
        PROVE  account[Normal[address[i]]] # None
    BY <2>2, Constants DEF IInv, Taken
  <2> QED
    BY <2>1, <2>2 DEF RefusedWhenTaken
<1> QED
  BY <1>1, Invariance, PTL

\* From the 201 on a login with the normal form of the address finds the account
\* (auth.py:43, schemas/user.py:14).
THEOREM RegisteredUsersLogIn == Spec => []RegisteredCanLogIn
<1>1. IInv => RegisteredCanLogIn
  BY DEF IInv
<1> QED
  BY <1>1, Invariance, PTL

\* Neither a migration that was interrupted nor an admin address in normal form keeps
\* an instance from starting again (env.py:43-44, main.py:38-48).
THEOREM NormalAddressesRestart == Spec => []RestartsSucceed
<1>1. IInv => RestartsSucceed
  BY DEF IInv, Migrating, NotMine, RestartsSucceed
<1> QED
  BY <1>1, Invariance, PTL
=============================================================================
