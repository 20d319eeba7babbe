------------------------------- MODULE Accounts -------------------------------
(***************************************************************************)
(* The accounts of the identity service: registration and login            *)
(* (identity_service/app/services/auth.py), and the start of an instance:  *)
(* alembic upgrade head && uvicorn (identity_service/Dockerfile), which    *)
(* migrates the database (identity_service/alembic) and then creates the   *)
(* configured admin (identity_service/app/main.py).                        *)
(*                                                                         *)
(* UserCreate stores an address as EmailStr returns it, normalised         *)
(* (schemas/user.py); logins and the lookup at startup compare what was    *)
(* typed or configured with what is stored.                                *)
(***************************************************************************)
CONSTANTS
  Requests,  \* requests to /auth/register and /auth/login, each served once
  Instances, \* identity services on one database
  Typed,     \* addresses as they are typed
  Stored,    \* those that are in normal form
  Normal,    \* the normal form of each address
  None       \* nobody; as the configured address: BOOTSTRAP_ADMIN_EMAIL is not set

Actors == Requests \cup Instances

ASSUME ConstantsAssumption ==
  /\ Requests \cap Instances = {}
  /\ Stored \subseteq Typed
  /\ Normal \in [Typed -> Stored] /\ \A a \in Stored : Normal[a] = a
  /\ None \notin Actors \cup Typed

VARIABLES
  schema,     \* absent, at head, or tables that alembic_version does not know of
  configured, \* settings.bootstrap_admin_email
  account,    \* who inserted the row of users with this address
  pc,         \* where an actor is, or how its request was answered
  address,    \* the address an actor was given
  before      \* history: the requests answered before this one was sent

vars == <<schema, configured, account, pc, address, before>>

Answered == {"created", "conflict", "error", "logged_in", "rejected", "aborted"}

\* get_user_by_email finds a row.
Found(e) == e \in Stored /\ account[e] # None

Init ==
  /\ schema = "absent"
  /\ configured \in Typed \cup {None}
  /\ account = [a \in Stored |-> None]
  /\ pc = [x \in Actors |-> IF x \in Requests THEN "idle" ELSE "down"]
  /\ address = [x \in Actors |-> None]
  /\ before = [r \in Requests |-> {}]

Goto(x, from, to) == pc[x] = from /\ pc' = [pc EXCEPT ![x] = to]

-----------------------------------------------------------------------------
(* Requests, served by an instance that has found its schema               *)

Arrive(r, e, to) ==
  /\ schema = "head"
  /\ Goto(r, "idle", to)
  /\ address' = [address EXCEPT ![r] = e]
  /\ before' = [before EXCEPT ![r] = {s \in Requests : pc[s] \in Answered}]
  /\ UNCHANGED <<schema, configured, account>>

\* Mutant of Register: the lookup lacks its WHERE clause.
RegisterFirst(r, e) ==
  Arrive(r, e, IF \E a \in Stored : Found(a) THEN "conflict" ELSE "inserting")

\* register_user up to its lookup: EmailAlreadyExistsError becomes a 409.
Register(r, e) == Arrive(r, e, IF Found(Normal[e]) THEN "conflict" ELSE "inserting")

\* authenticate with the right password.
Login(r, e) == Arrive(r, e, IF Found(e) THEN "logged_in" ELSE "rejected")

\* The unique index on users.email has an entry.
Occupied(a) == account[a] # None

\* Mutant of Insert: the address is stored as it was typed.
InsertTyped(x) ==
  /\ pc[x] = "inserting"
  /\ pc' = [pc EXCEPT ![x] = IF x \in Requests THEN "created" ELSE "up"]
  /\ account' = [account EXCEPT ![address[x]] = x]
  /\ UNCHANGED <<schema, configured, address, before>>

\* Mutant of Insert: the wrong value is stored.
InsertAddress(x) ==
  /\ pc[x] = "inserting"
  /\ ~Occupied(Normal[address[x]])
  /\ pc' = [pc EXCEPT ![x] = IF x \in Requests THEN "created" ELSE "up"]
  /\ account' = [account EXCEPT ![Normal[address[x]]] = address[x]]
  /\ UNCHANGED <<schema, configured, address, before>>

\* Mutant of Insert: the row of whoever was first is overwritten.
InsertOver(x) ==
  /\ pc[x] = "inserting"
  /\ pc' = [pc EXCEPT ![x] = IF x \in Requests THEN "created" ELSE "up"]
  /\ account' = [account EXCEPT ![Normal[address[x]]] = x]
  /\ UNCHANGED <<schema, configured, address, before>>

\* INSERT and COMMIT.  The unique index refuses an address that was inserted after
\* the lookup; nothing handles the IntegrityError: 500, or the process does not start.
Insert(x) ==
  /\ pc[x] = "inserting"
  /\ IF ~Occupied(Normal[address[x]])
     THEN /\ pc' = [pc EXCEPT ![x] = IF x \in Requests THEN "created" ELSE "up"]
          /\ account' = [account EXCEPT ![Normal[address[x]]] = x]
     ELSE /\ pc' = [pc EXCEPT ![x] = IF x \in Requests THEN "error" ELSE "failed"]
          /\ UNCHANGED account
  /\ UNCHANGED <<schema, configured, address, before>>

\* The database fails before the COMMIT.
Abort(x) ==
  /\ Goto(x, "inserting", "aborted")
  /\ UNCHANGED <<schema, configured, account, address, before>>

-----------------------------------------------------------------------------
(* Starts                                                                  *)

\* alembic upgrade head reads the revision in alembic_version.
Upgrade(i) ==
  /\ Goto(i, "down", IF schema = "head" THEN "migrated" ELSE "migrating")
  /\ UNCHANGED <<schema, configured, account, address, before>>

\* Mutant of CreateTables: the tables are committed before the revision is.
CreateTablesAtOnce(i) ==
  /\ \A j \in Instances : pc[j] # "upgraded"
  /\ Goto(i, "migrating", IF schema = "absent" THEN "upgraded" ELSE "unmigrated")
  /\ schema' = IF schema = "absent" THEN "tables" ELSE schema
  /\ UNCHANGED <<configured, account, address, before>>

\* The revision 0001_initial creates its tables, in a transaction that PostgreSQL
\* lets wait for another one that creates them; if they are there by then alembic
\* fails, and uvicorn is not started.
CreateTables(i) ==
  /\ \A j \in Instances : pc[j] # "upgraded"
  /\ Goto(i, "migrating", IF schema = "absent" THEN "upgraded" ELSE "unmigrated")
  /\ UNCHANGED <<schema, configured, account, address, before>>

\* COMMIT of the tables and of the revision.
CommitSchema(i) ==
  /\ Goto(i, "upgraded", "migrated")
  /\ schema' = "head"
  /\ UNCHANGED <<configured, account, address, before>>

\* Mutant of LookUpAdmin: every start goes on to create the admin.
LookUpNoAdmin(i) ==
  /\ Goto(i, "migrated", IF configured = None THEN "up" ELSE "absent")
  /\ address' = [address EXCEPT ![i] = configured]
  /\ UNCHANGED <<schema, configured, account, before>>

\* lifespan, _bootstrap_admin: is there a row with the configured address?
LookUpAdmin(i) ==
  /\ Goto(i, "migrated", IF configured = None \/ Found(configured) THEN "up" ELSE "absent")
  /\ address' = [address EXCEPT ![i] = configured]
  /\ UNCHANGED <<schema, configured, account, before>>

\* register_user looks its normal form up; its exception ends the process.
RegisterAdmin(i) ==
  /\ Goto(i, "absent", IF Found(Normal[address[i]]) THEN "failed" ELSE "inserting")
  /\ UNCHANGED <<schema, configured, account, address, before>>

\* The process ends, its open transaction is rolled back; it can be started again.
Stop(i) ==
  /\ pc[i] # "down"
  /\ pc' = [pc EXCEPT ![i] = "down"]
  /\ UNCHANGED <<schema, configured, account, address, before>>

Next ==
  \/ \E r \in Requests, e \in Typed : Register(r, e) \/ Login(r, e)
  \/ \E x \in Actors : Insert(x) \/ Abort(x)
  \/ \E i \in Instances : Upgrade(i) \/ CreateTables(i) \/ CommitSchema(i)
  \/ \E i \in Instances : LookUpAdmin(i) \/ RegisterAdmin(i) \/ Stop(i)

Spec == Init /\ [][Next]_vars

-----------------------------------------------------------------------------
Starting == {"down", "migrating", "upgraded", "unmigrated", "migrated", "absent", "up", "failed"}

TypeOK ==
  /\ schema \in {"absent", "tables", "head"}
  /\ configured \in Typed \cup {None}
  /\ account \in [Stored -> Actors \cup {None}]
  /\ pc \in [Actors -> Answered \cup Starting \cup {"idle", "inserting"}]
  /\ address \in [Actors -> Typed \cup {None}]
  /\ before \in [Requests -> SUBSET Requests]

\* A 201 is given for an account of one's own: registrations that race for an
\* address, in any spelling, and instances that start meanwhile have one winner
\* (auth.py:55-64, models/user.py:25).
OneWinner ==
  \A r \in Requests : pc[r] = "created" => account[Normal[address[r]]] = r

\* A registration is refused, with 409 or 500, only if somebody else has the address,
\* and an instance fails to start only if its admin's address is taken (auth.py:55-64).
RefusedWhenTaken ==
  /\ \A r \in Requests : pc[r] \in {"conflict", "error"} =>
       account[Normal[address[r]]] \notin {r, None}
  /\ \A i \in Instances : pc[i] = "failed" => account[Normal[address[i]]] # None

\* Whoever registered an address, in whatever spelling, logs in with its normal form
\* from the 201 on (auth.py:43, 58-64; schemas/user.py:14).
RegisteredCanLogIn ==
  \A l \in Requests : pc[l] = "rejected" =>
    \A r \in before[l] : pc[r] = "created" => address[l] # Normal[address[r]]

\* No start fails on what an earlier start of the same instance left behind, however
\* that one ended: a migration fails only when another one has completed the schema
\* (env.py:43-44), and, with an address in normal form, the admin is only refused for
\* an account of somebody else (main.py:38-48).
RestartsSucceed ==
  \A i \in Instances :
    /\ pc[i] = "unmigrated" => schema = "head"
    /\ pc[i] = "failed" /\ address[i] \in Stored => account[address[i]] # i

\* "Create the configured admin user on startup if it does not yet exist"
\* (main.py:34): no start fails on the account an earlier start created.
CreatesOnlyIfAbsent ==
  \A i \in Instances : pc[i] = "failed" => account[Normal[address[i]]] # i
=============================================================================
