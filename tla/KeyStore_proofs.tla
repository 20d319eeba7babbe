--------------------------- MODULE KeyStore_proofs ---------------------------
(***************************************************************************)
(* The key file for any number of keys and crashes: what holds however     *)
(* many processes share it, and what holds when there is one.              *)
(***************************************************************************)
EXTENDS KeyStore, TLAPS

\* A process that writes has a key to write.
Pending == \A p \in Processes : pc[p] \in {"generated", "opened"} => key[p] \in Keys

\* One process: the file is absent until the process opens it, holds no key while it
\* is being written, and the only key that is used is the one in the file.
OneKey ==
  path /\ (\A p, q \in deployed : p = q) => \A p \in deployed :
    /\ pc[p] \in {"absent", "generated"} => file = None
    /\ pc[p] = "opened" => file = Torn
    /\ cache[p] # None => pc[p] = "up" /\ file = cache[p]
    /\ signed \subseteq {file}
    /\ file \in {None, Torn} => signed = {}

IInv == TypeOK /\ Pending

LEMMA NoneIsNoKey == None \notin Keys /\ Torn \notin Keys /\ None # Torn
  BY ConstantsAssumption DEF Keys, Torn

\* The types, with what a writer has at hand, are preserved by every step.
LEMMA Invariance ==
  Spec => []IInv
<1>1. Init => IInv
  BY ConstantsAssumption DEF Init, IInv, TypeOK, Pending
<1>2. IInv /\ [Next]_vars => IInv'
  <2> SUFFICES ASSUME IInv, [Next]_vars PROVE IInv'
    OBVIOUS
  <2> USE NoneIsNoKey DEF IInv, TypeOK, Pending, deployment
  <2>1. CASE UNCHANGED vars
    BY <2>1 DEF vars, deployment
  <2>2. ASSUME NEW p \in deployed, Start(p) PROVE IInv'
    BY <2>2 DEF Start, Goto
  <2>3. ASSUME NEW p \in deployed, Exists(p) PROVE IInv'
    BY <2>3 DEF Exists, Goto
  <2>4. ASSUME NEW p \in deployed, Load(p) PROVE IInv'
    BY <2>4 DEF Load, Return, Goto
  <2>5. ASSUME NEW p \in deployed, Generate(p) PROVE IInv'
    <3>1. keys + 1 \in Keys /\ keys + 1 \in 0..MaxKeys
      BY <2>5, ConstantsAssumption DEF Generate, Keys
    <3> QED
      BY <2>5, <3>1 DEF Generate, Goto
  <2>6. ASSUME NEW p \in deployed, Open(p) PROVE IInv'
    BY <2>6 DEF Open, Goto
  <2>7. ASSUME NEW p \in deployed, Write(p) PROVE IInv'
    BY <2>7 DEF Write, Return, Goto
  <2>8. ASSUME NEW p \in deployed, GenerateEphemeral(p) PROVE IInv'
    <3>1. keys + 1 \in Keys /\ keys + 1 \in 0..MaxKeys
      BY <2>8, ConstantsAssumption DEF GenerateEphemeral, Keys
    <3> QED
      BY <2>8, <3>1 DEF GenerateEphemeral, Return, Goto
  <2>9. ASSUME NEW p \in deployed, Sign(p) PROVE IInv'
    BY <2>9 DEF Sign
  <2>10. ASSUME NEW p \in deployed, Crash(p) PROVE IInv'
    BY <2>10, ConstantsAssumption DEF Crash, Goto
  <2>11. CASE Recreate
    BY <2>11, ConstantsAssumption DEF Recreate
  <2> QED
    BY <2>1, <2>2, <2>3, <2>4, <2>5, <2>6, <2>7, <2>8, <2>9, <2>10, <2>11 DEF Next, GetKeyPair
<1> QED
  BY <1>1, <1>2, PTL DEF Spec

\* The variables keep their types (keys.py:76-131).
THEOREM TypeCorrectness ==
  Spec => []TypeOK
<1>1. IInv => TypeOK
  BY DEF IInv
<1> QED
  BY <1>1, Invariance, PTL

\* Once the file holds a key and no writer is left, no process sets out to replace it
\* or comes to hold another key, for any number of processes (keys.py:82-95).
THEOREM CompleteKeyFileStays ==
  Spec => KeyFileSettles
<1>1. ASSUME IInv, [Next]_vars, path, file \in Keys, Writers = {}
      PROVE  /\ Writers' = {} /\ file' \in {file, None}
             /\ \A p \in Processes : cache'[p] \in {cache[p], None, file}
  <2> USE <1>1, NoneIsNoKey DEF IInv, TypeOK
  <2>0. \A p \in Processes : pc[p] \notin {"absent", "generated", "opened"}
    BY DEF Writers
  <2>1. file' \in {file, None}
    BY <2>0 DEF Next, vars, deployment, GetKeyPair, Start, Exists, Load, Generate, Open, Write,
                GenerateEphemeral, Sign, Crash, Recreate
  <2>2. \A p \in Processes : pc'[p] \notin {"absent", "generated", "opened"}
    BY <2>0 DEF Next, vars, deployment, GetKeyPair, Start, Exists, Load, Generate, Open, Write,
                GenerateEphemeral, Sign, Crash, Recreate, Return, Goto
  <2>3. \A p \in Processes : cache'[p] \in {cache[p], None, file}
    BY <2>0 DEF Next, vars, deployment, GetKeyPair, Start, Exists, Load, Generate, Open, Write,
                GenerateEphemeral, Sign, Crash, Recreate, Return
  <2> QED
    BY <2>1, <2>2, <2>3 DEF Writers
<1>2. IInv /\ [Next]_vars =>
        [(path /\ file \in Keys /\ Writers = {}) =>
           /\ Writers' = {} /\ file' \in {file, None}
           /\ \A p \in Processes : cache'[p] \in {cache[p], None, file}]_vars
  BY <1>1
<1> QED
  BY <1>2, Invariance, PTL DEF Spec, KeyFileSettles

\* A single process that dies and restarts anywhere goes on with the key it signed
\* with (docker-compose.yml:28, keys.py:82-101).
THEOREM RestartsKeepTheKey ==
  Spec => []TokensSurviveRestarts
<1>1. Init => OneKey
  BY DEF Init, OneKey
<1>2. IInv /\ OneKey /\ [Next]_vars => OneKey'
  <2> SUFFICES ASSUME IInv, OneKey, [Next]_vars PROVE OneKey'
    OBVIOUS
  <2> USE NoneIsNoKey DEF IInv, TypeOK, Pending, OneKey, deployment
  <2>1. CASE UNCHANGED vars
    BY <2>1 DEF vars, deployment
  <2>2. ASSUME NEW p \in deployed, Start(p) PROVE OneKey'
    BY <2>2 DEF Start, Goto
  <2>3. ASSUME NEW p \in deployed, Exists(p) PROVE OneKey'
    BY <2>3 DEF Exists, Goto
  <2>4. ASSUME NEW p \in deployed, Load(p) PROVE OneKey'
    BY <2>4 DEF Load, Return, Goto
  <2>5. ASSUME NEW p \in deployed, Generate(p) PROVE OneKey'
    BY <2>5 DEF Generate, Goto
  <2>6. ASSUME NEW p \in deployed, Open(p) PROVE OneKey'
    BY <2>6 DEF Open, Goto
  <2>7. ASSUME NEW p \in deployed, Write(p) PROVE OneKey'
    BY <2>7 DEF Write, Return, Goto
  <2>8. ASSUME NEW p \in deployed, GenerateEphemeral(p) PROVE OneKey'
    BY <2>8 DEF GenerateEphemeral
  <2>9. ASSUME NEW p \in deployed, Sign(p) PROVE OneKey'
    BY <2>9 DEF Sign
  <2>10. ASSUME NEW p \in deployed, Crash(p) PROVE OneKey'
    BY <2>10 DEF Crash, Goto
  <2>11. CASE Recreate
    BY <2>11 DEF Recreate
  <2> QED
    BY <2>1, <2>2, <2>3, <2>4, <2>5, <2>6, <2>7, <2>8, <2>9, <2>10, <2>11 DEF Next, GetKeyPair
<1>3. OneKey => TokensSurviveRestarts
  BY DEF OneKey, TokensSurviveRestarts
<1> QED
  BY <1>1, <1>2, <1>3, Invariance, PTL DEF Spec

\* A file without a complete key is being written by a process, or one has died.
BeingWritten == crashes = 0 /\ file = Torn => \E p \in deployed : pc[p] = "opened"

\* The file holds an incomplete key only while one of the processes is writing it,
\* unless one has died: with all alive, a request that fails to load the file finds a
\* key there later, however many processes write at once (keys.py:82-95, 110).
THEOREM IncompleteFilesAreCompleted ==
  Spec => []BeingWritten
<1>1. Init => BeingWritten
  BY ConstantsAssumption DEF Init, BeingWritten, Torn
<1>2. IInv /\ BeingWritten /\ [Next]_vars => BeingWritten'
  <2> SUFFICES ASSUME IInv, BeingWritten, [Next]_vars PROVE BeingWritten'
    OBVIOUS
  <2> USE NoneIsNoKey DEF IInv, TypeOK, Pending, BeingWritten, deployment
  <2>1. CASE UNCHANGED vars
    BY <2>1 DEF vars, deployment
  <2>2. ASSUME NEW p \in deployed, Start(p) \/ Exists(p) \/ Generate(p) PROVE BeingWritten'
    BY <2>2 DEF Start, Exists, Generate, Goto
  <2>3. ASSUME NEW p \in deployed, Load(p) PROVE BeingWritten'
    BY <2>3 DEF Load, Return, Goto
  <2>4. ASSUME NEW p \in deployed, Open(p) PROVE BeingWritten'
    BY <2>4 DEF Open, Goto
  <2>5. ASSUME NEW p \in deployed, Write(p) PROVE BeingWritten'
    BY <2>5 DEF Write
  <2>6. ASSUME NEW p \in deployed, GenerateEphemeral(p) \/ Sign(p) PROVE BeingWritten'
    BY <2>6 DEF GenerateEphemeral, Sign, Return, Goto
  <2>7. ASSUME (\E p \in deployed : Crash(p)) \/ Recreate PROVE BeingWritten'
    BY <2>7, ConstantsAssumption DEF Crash, Recreate
  <2> QED
    BY <2>1, <2>2, <2>3, <2>4, <2>5, <2>6, <2>7 DEF Next, GetKeyPair
<1> QED
  BY <1>1, <1>2, Invariance, PTL DEF Spec
=============================================================================
