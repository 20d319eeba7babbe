------------------------------- MODULE KeyStore -------------------------------
(***************************************************************************)
(* The signing key of the identity service (app/core/keys.py).  The first  *)
(* request of a process that signs, checks or publishes loads the key from *)
(* JWT_PRIVATE_KEY_PATH, or generates it and writes it there; lru_cache    *)
(* keeps it until the process ends.  Nothing orders the file operations of *)
(* processes that share the file, and a process may die between two of     *)
(* them.  A key is the number of its generation.                           *)
(***************************************************************************)
EXTENDS Naturals, FiniteSets

CONSTANTS
  Processes,   \* identity services that may share the key file
  MaxKeys,     \* bound on the keys generated
  MaxCrashes,  \* bound on the processes that die
  None         \* no key; as a file: no file

ASSUME ConstantsAssumption ==
  /\ MaxKeys \in Nat /\ MaxCrashes \in Nat
  /\ None \notin Nat

VARIABLES
  path,    \* JWT_PRIVATE_KEY_PATH is set
  deployed,\* the processes of this deployment
  file,    \* the key in the file, None without a file, Torn while it has no complete key
  pc,      \* how far each process is
  key,     \* the key a process has generated and not yet returned
  cache,   \* the result lru_cache holds for a process
  raised,  \* the processes whose last load raised
  keys,    \* the number of keys generated
  signed,  \* the keys that signed an access token since the container was created
  crashes

deployment == <<path, deployed>>
vars == <<deployment, file, pc, key, cache, raised, keys, signed, crashes>>

Torn == 0
Keys == 1..MaxKeys

Init ==
  /\ path \in BOOLEAN
  /\ deployed \in SUBSET Processes \ {{}}
  /\ file = None /\ keys = 0 /\ signed = {} /\ crashes = 0
  /\ pc = [p \in Processes |-> "stopped"]
  /\ key = [p \in Processes |-> None] /\ cache = [p \in Processes |-> None]
  /\ raised = {}

Goto(p, label) == pc' = [pc EXCEPT ![p] = label]

\* get_key_pair returns k to p.
Return(p, k) ==
  /\ cache' = [cache EXCEPT ![p] = k]
  /\ key' = [key EXCEPT ![p] = None]
  /\ raised' = raised \ {p}
  /\ Goto(p, "up")

Start(p) ==
  /\ pc[p] = "stopped"
  /\ Goto(p, "up")
  /\ UNCHANGED <<deployment, file, key, cache, raised, keys, signed, crashes>>

\* Mutant of Exists: the file is not looked for.
ExistsNever(p) ==
  /\ pc[p] = "up" /\ cache[p] = None
  /\ path
  /\ Goto(p, "absent")
  /\ UNCHANGED <<deployment, file, key, cache, raised, keys, signed, crashes>>

\* A request calls get_key_pair, whose result is not cached: key_file.exists().
Exists(p) ==
  /\ pc[p] = "up" /\ cache[p] = None
  /\ path
  /\ Goto(p, IF file = None THEN "absent" ELSE "found")
  /\ UNCHANGED <<deployment, file, key, cache, raised, keys, signed, crashes>>

\* Mutant of Load: the file is not parsed.
LoadUnparsed(p) ==
  /\ pc[p] = "found"
  /\ Return(p, file)
  /\ UNCHANGED <<deployment, file, keys, signed, crashes>>

\* Mutant of Load: the failed load is not tried again.
LoadOnce(p) ==
  /\ pc[p] = "found"
  /\ IF file \in Keys
     THEN Return(p, file)
     ELSE /\ raised' = raised \cup {p}
          /\ Goto(p, "broken")
          /\ UNCHANGED <<cache, key>>
  /\ UNCHANGED <<deployment, file, keys, signed, crashes>>

\* The file is read.  What is not a key raises: the request fails, nothing is
\* cached, and the next request tries again.
Load(p) ==
  /\ pc[p] = "found"
  /\ IF file \in Keys
     THEN Return(p, file)
     ELSE /\ raised' = raised \cup {p}
          /\ Goto(p, "up")
          /\ UNCHANGED <<cache, key>>
  /\ UNCHANGED <<deployment, file, keys, signed, crashes>>

\* Mutant of Generate: the key is returned without being written.
GenerateAndReturn(p) ==
  /\ pc[p] = "absent"
  /\ keys < MaxKeys
  /\ keys' = keys + 1
  /\ Return(p, keys + 1)
  /\ UNCHANGED <<deployment, file, signed, crashes>>

\* The file was absent: rsa.generate_private_key.
Generate(p) ==
  /\ pc[p] = "absent"
  /\ keys < MaxKeys
  /\ keys' = keys + 1
  /\ key' = [key EXCEPT ![p] = keys + 1]
  /\ Goto(p, "generated")
  /\ UNCHANGED <<deployment, file, cache, raised, signed, crashes>>

\* write_bytes creates or truncates the file ...
Open(p) ==
  /\ pc[p] = "generated"
  /\ file' = Torn
  /\ Goto(p, "opened")
  /\ UNCHANGED <<deployment, key, cache, raised, keys, signed, crashes>>

\* ... and writes the key, which is then returned.
Write(p) ==
  /\ pc[p] = "opened"
  /\ file' = key[p]
  /\ Return(p, key[p])
  /\ UNCHANGED <<deployment, keys, signed, crashes>>

\* Without a path the key lives in memory only.
GenerateEphemeral(p) ==
  /\ pc[p] = "up" /\ cache[p] = None
  /\ ~path
  /\ keys < MaxKeys
  /\ keys' = keys + 1
  /\ Return(p, keys + 1)
  /\ UNCHANGED <<deployment, file, signed, crashes>>

\* create_access_token.
Sign(p) ==
  /\ pc[p] = "up" /\ cache[p] # None
  /\ signed' = signed \cup {cache[p]}
  /\ UNCHANGED <<deployment, file, pc, key, cache, raised, keys, crashes>>

\* The process ends, wherever it is; its memory is lost, the file stays.
Crash(p) ==
  /\ pc[p] # "stopped"
  /\ crashes < MaxCrashes
  /\ crashes' = crashes + 1
  /\ Goto(p, "stopped")
  /\ key' = [key EXCEPT ![p] = None] /\ cache' = [cache EXCEPT ![p] = None]
  /\ raised' = raised \ {p}
  /\ UNCHANGED <<deployment, file, keys, signed>>

\* The container is created anew: the file is gone with it (docker-compose.yml).
Recreate ==
  /\ \A p \in Processes : pc[p] = "stopped"
  /\ crashes < MaxCrashes
  /\ crashes' = crashes + 1
  /\ file' = None /\ signed' = {}
  /\ UNCHANGED <<deployment, pc, key, cache, raised, keys>>

GetKeyPair(p) ==
  \/ Exists(p) \/ Load(p)
  \/ Generate(p) \/ Open(p) \/ Write(p)
  \/ GenerateEphemeral(p)

Next ==
  \/ \E p \in deployed : Start(p) \/ GetKeyPair(p) \/ Sign(p) \/ Crash(p)
  \/ Recreate

Spec == Init /\ [][Next]_vars

\* Requests keep coming to every process, and a call that has begun goes on.
FairSpec == Spec /\ \A p \in Processes : WF_vars(GetKeyPair(p))

-----------------------------------------------------------------------------
TypeOK ==
  /\ path \in BOOLEAN /\ deployed \subseteq Processes
  /\ file \in {None, Torn} \cup Keys
  /\ pc \in [Processes -> {"stopped", "up", "found", "absent", "generated", "opened"}]
  /\ key \in [Processes -> {None} \cup Keys] /\ cache \in [Processes -> {None} \cup Keys]
  /\ raised \subseteq Processes /\ signed \subseteq Keys
  /\ keys \in 0..MaxKeys /\ crashes \in 0..MaxCrashes

Writers == {p \in Processes : pc[p] \in {"absent", "generated", "opened"}}

\* With a path and one process, every key in use is the one that signed before:
\* tokens survive restarts of the process, wherever it died (docker-compose.yml:28;
\* keys.py:82-101 returns a key only when the file holds it).
TokensSurviveRestarts ==
  path /\ (\A p, q \in deployed : p = q) =>
    \A p \in deployed : cache[p] # None => file = cache[p] /\ signed \subseteq {cache[p]}

\* However many processes share the file: once it holds a key and none of those that
\* found it absent is left, no process replaces the key or sets out to, and none comes
\* to sign with another one; those that lost the race have done so (keys.py:82-95).
KeyFileSettles ==
  [][(path /\ file \in Keys /\ Writers = {}) =>
       /\ Writers' = {} /\ file' \in {file, None}
       /\ \A p \in Processes : cache'[p] \in {cache[p], None, file}]_vars

\* Processes that start together may write different keys, but while none of them
\* dies each one ends up with a key: a half-written file is only passed through
\* (keys.py:82-95, 110).
EveryProcessGetsAKey ==
  \A p \in Processes : pc[p] = "up" ~> cache[p] # None \/ crashes > 0

\* "If set and the file exists it is loaded" (core/config.py:36): no load raises.
ExistingFileLoads == raised = {}
=============================================================================
