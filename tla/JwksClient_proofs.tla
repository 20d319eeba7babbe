-------------------------- MODULE JwksClient_proofs --------------------------
(***************************************************************************)
(* The safety of JwksClient for any number of requests and of signing      *)
(* keys.                                                                   *)
(***************************************************************************)
EXTENDS JwksClient, TLAPS

\* The queue holds the waiting requests, once each, in the order they came.
Queueing ==
  /\ \A i, j \in 1..Len(queue) : queue[i] = queue[j] => i = j
  /\ \A i \in 1..Len(queue) : pc[queue[i]] \in Waiting
  /\ \A r \in Requests : pc[r] \in Waiting => \E i \in 1..Len(queue) : queue[i] = r
  /\ \A i, j \in 1..Len(queue) : queue[i] \in ahead[queue[j]] => i < j
  /\ \A s \in Requests : \A r \in ahead[s] : pc[r] # "idle" /\ pc[s] # "idle"

\* A key set holds one key; on its way it is no older than the cache or the token.
Replies ==
  /\ \A j, k \in cache : j = k
  /\ \A r \in Requests : reply[r] # {} =>
       /\ pc[r] = "fetching"
       /\ \A g, h \in reply[r] : g = h
       /\ \A g \in reply[r] : kid[r] <= g /\ \A k \in cache : k <= g

\* Those ahead of a request that fetches have been answered.
Fetching ==
  /\ \A r \in Requests : pc[r] = "fetching" => r \in fetched
  /\ \A r \in Requests : pc[r] \in {"idle", "locked_out"} => r \notin fetched
  /\ \A s \in fetched : \A r \in ahead[s] : pc[r] \in Answered

\* Before a waiting request fetches, the key found for one ahead of it with the
\* same kid is cached or no longer the signing key.
Sharing ==
  /\ \A s \in Requests : pc[s] = "locked_out" =>
       \A r \in ahead[s] \cap fetched : pc[r] = "verified" /\ kid[r] = kid[s] =>
         kid[s] \in cache \/ kid[s] < signing
  /\ \A s \in fetched : \A r \in ahead[s] \cap fetched :
       pc[r] = "verified" /\ kid[r] = kid[s] => kid[s] < signing

Refused == \A r \in Requests : pc[r] = "unknown_key" => kid[r] < signing

IInv == TypeOK /\ FetchOnlyOnMiss /\ Queueing /\ Replies /\ Fetching /\ Sharing /\ Refused

-----------------------------------------------------------------------------
(* IInv is inductive                                                       *)

\* What is known of a queue: its head, and the queue one place on.
LEMMA QueueFacts ==
  ASSUME TypeOK, queue # <<>>
  PROVE  /\ Len(queue) \in Nat /\ Len(queue) >= 1
         /\ Head(queue) = queue[1]
         /\ \A i \in 1..Len(queue) : queue[i] \in Requests
         /\ Tail(queue) \in Seq(Requests)
         /\ Len(Tail(queue)) = Len(queue) - 1
         /\ \A i \in 1..(Len(queue) - 1) : Tail(queue)[i] = queue[i + 1]
         /\ Tail(queue) # <<>> => Head(Tail(queue)) = queue[2] /\ Len(queue) >= 2
  BY DEF TypeOK

\* A hit involves nobody else.
LEMMA HitPreserves ==
  ASSUME IInv, NEW r \in Requests, NEW k \in 0..signing, Hit(r, k)
  PROVE  IInv'
<1> USE ConstantsAssumption DEF IInv, TypeOK, identity, history, Waiting, Answered, Forged,
         Hit, Present, Goto
<1>1. TypeOK'
  BY DEF FetchOnlyOnMiss, Queueing, Replies, Fetching, Sharing, Refused
<1>2. FetchOnlyOnMiss'
  BY DEF FetchOnlyOnMiss, Queueing, Replies, Fetching, Sharing, Refused
<1>3. Queueing'
  BY DEF FetchOnlyOnMiss, Queueing, Replies, Fetching, Sharing, Refused
<1>4. Replies'
  BY DEF FetchOnlyOnMiss, Queueing, Replies, Fetching, Sharing, Refused
<1>5. Fetching'
  BY DEF FetchOnlyOnMiss, Queueing, Replies, Fetching, Sharing, Refused
<1>6. Sharing'
  BY DEF FetchOnlyOnMiss, Queueing, Replies, Fetching, Sharing, Refused
<1>7. Refused'
  BY DEF FetchOnlyOnMiss, Queueing, Replies, Fetching, Sharing, Refused
<1> QED
  BY <1>1, <1>2, <1>3, <1>4, <1>5, <1>6, <1>7

\* With the lock free, no one is waiting.
LEMMA FetchPreserves ==
  ASSUME IInv, NEW r \in Requests, NEW k \in 0..signing, Fetch(r, k)
  PROVE  IInv'
<1> USE ConstantsAssumption DEF IInv, TypeOK, identity, history, Waiting, Answered, Forged,
         Fetch, Present, Goto
<1>1. TypeOK'
  BY DEF FetchOnlyOnMiss, Queueing, Replies, Fetching, Sharing, Refused
<1>2. FetchOnlyOnMiss'
  BY DEF FetchOnlyOnMiss, Queueing, Replies, Fetching, Sharing, Refused
<1>3. Queueing'
  BY DEF FetchOnlyOnMiss, Queueing, Replies, Fetching, Sharing, Refused
<1>4. Replies'
  BY DEF FetchOnlyOnMiss, Queueing, Replies, Fetching, Sharing, Refused
<1>5. Fetching'
  BY DEF FetchOnlyOnMiss, Queueing, Replies, Fetching, Sharing, Refused
<1>6. Sharing'
  BY DEF FetchOnlyOnMiss, Queueing, Replies, Fetching, Sharing, Refused
<1>7. Refused'
  BY DEF FetchOnlyOnMiss, Queueing, Replies, Fetching, Sharing, Refused
<1> QED
  BY <1>1, <1>2, <1>3, <1>4, <1>5, <1>6, <1>7

\* The request joins the queue behind all others.
LEMMA AwaitLockPreserves ==
  ASSUME IInv, NEW r \in Requests, NEW k \in 0..signing, AwaitLock(r, k)
  PROVE  IInv'
<1> USE ConstantsAssumption DEF IInv, TypeOK, identity, history, Waiting, Answered, Forged
<1> DEFINE n == Len(queue)
<1>1. /\ n \in Nat /\ n >= 1 /\ Len(queue') = n + 1
      /\ queue'[n + 1] = r /\ \A i \in 1..n : queue'[i] = queue[i] /\ queue[i] \in Requests
      /\ queue' \in Seq(Requests) /\ queue' # <<>> /\ Head(queue') = Head(queue)
      /\ InQueue = {queue[i] : i \in 1..n}
  BY DEF AwaitLock, InQueue
<1>2. /\ pc[r] = "idle" /\ pc' = [pc EXCEPT ![r] = "locked_out"]
      /\ kid' = [kid EXCEPT ![r] = k] /\ ahead' = [ahead EXCEPT ![r] = InQueue]
      /\ UNCHANGED <<signing, up, cache, reply, fetched>> /\ k \notin cache
  BY DEF AwaitLock, Present, Goto
<1>3. TypeOK'
  BY <1>1, <1>2 DEF AwaitLock, Present
<1>4. FetchOnlyOnMiss'
  BY <1>1, <1>2 DEF FetchOnlyOnMiss
<1>5. Queueing'
  <2>1. \A i \in 1..n : queue[i] # r
    BY <1>2 DEF Queueing
  <2>2. \A i \in 1..Len(queue') : (i \in 1..n /\ queue'[i] = queue[i]) \/ (i = n + 1 /\ queue'[i] = r)
    <3> SUFFICES ASSUME NEW i \in 1..Len(queue')
                 PROVE  (i \in 1..n /\ queue'[i] = queue[i]) \/ (i = n + 1 /\ queue'[i] = r)
      OBVIOUS
    <3>1. i \in 1..n \/ i = n + 1
      BY <1>1
    <3>2. CASE i \in 1..n
      BY <3>2, <1>1
    <3>3. CASE i = n + 1
      <4>1. queue'[n + 1] = r
        BY <1>1
      <4> QED
        BY <3>3, <4>1
    <3> QED
      BY <3>1, <3>2, <3>3
  <2>3. \A i, j \in 1..Len(queue') : queue'[i] = queue'[j] => i = j
    <3> SUFFICES ASSUME NEW i \in 1..Len(queue'), NEW j \in 1..Len(queue'), queue'[i] = queue'[j]
                 PROVE  i = j
      OBVIOUS
    <3>1. CASE queue'[i] = r
      BY <3>1, <2>1, <2>2
    <3>2. CASE queue'[i] # r
      <4>1. i \in 1..n /\ j \in 1..n /\ queue[i] = queue[j]
        BY <3>2, <2>2
      <4> QED
        BY <4>1 DEF Queueing
    <3> QED
      BY <3>1, <3>2
  <2>4. \A i \in 1..Len(queue') : pc'[queue'[i]] \in Waiting
    <3>1. \A i \in 1..n : queue[i] \in Requests /\ pc[queue[i]] \in Waiting
      BY <1>1 DEF Queueing
    <3> SUFFICES ASSUME NEW i \in 1..Len(queue') PROVE pc'[queue'[i]] \in Waiting
      OBVIOUS
    <3>2. CASE queue'[i] = r
      BY <3>2, <1>2
    <3>3. CASE queue'[i] # r
      <4>1. i \in 1..n /\ queue'[i] = queue[i]
        BY <3>3, <2>2
      <4> QED
        BY <4>1, <3>1, <3>3, <1>2
    <3> QED
      BY <3>2, <3>3
  <2>5. \A s \in Requests : pc'[s] \in Waiting => \E i \in 1..Len(queue') : queue'[i] = s
    <3> SUFFICES ASSUME NEW s \in Requests, pc'[s] \in Waiting
                 PROVE  \E i \in 1..Len(queue') : queue'[i] = s
      OBVIOUS
    <3>1. CASE s = r
      <4> n + 1 \in 1..Len(queue')
        BY <1>1
      <4> QED
        BY <3>1, <1>1
    <3>2. CASE s # r
      <4>1. PICK i \in 1..n : queue[i] = s
        BY <3>2, <1>2 DEF Queueing
      <4>2. i \in 1..Len(queue') /\ queue'[i] = s
        BY <4>1, <1>1
      <4> QED
        BY <4>2
    <3> QED
      BY <3>1, <3>2
  <2>6. \A i, j \in 1..Len(queue') : queue'[i] \in ahead'[queue'[j]] => i < j
    <3> SUFFICES ASSUME NEW i \in 1..Len(queue'), NEW j \in 1..Len(queue'),
                        queue'[i] \in ahead'[queue'[j]]
                 PROVE  i < j
      OBVIOUS
    <3>1. CASE queue'[j] = r
      <4>1. queue'[i] \in InQueue
        BY <3>1, <1>2
      <4>2. queue'[i] # r
        BY <4>1, <1>1, <2>1
      <4>3. i \in 1..n /\ j = n + 1
        BY <4>2, <3>1, <2>1, <2>2
      <4> QED
        BY <4>3, <1>1
    <3>2. CASE queue'[j] # r
      <4>1. j \in 1..n /\ queue'[j] = queue[j] /\ queue[j] \in Requests
        BY <3>2, <1>1, <2>2
      <4>2. queue'[i] \in ahead[queue[j]]
        BY <4>1, <3>2, <1>2
      <4>3. queue'[i] # r
        BY <4>1, <4>2, <1>2 DEF Queueing
      <4>4. i \in 1..n /\ queue'[i] = queue[i]
        BY <4>3, <2>2
      <4> QED
        BY <4>1, <4>2, <4>4 DEF Queueing
    <3> QED
      BY <3>1, <3>2
  <2>7. \A s \in Requests : \A t \in ahead'[s] : pc'[t] # "idle" /\ pc'[s] # "idle"
    <3>1. \A i \in 1..n : queue[i] \in Requests /\ pc[queue[i]] \in Waiting
      BY <1>1 DEF Queueing
    <3>2. ASSUME NEW t \in InQueue PROVE t \in Requests /\ pc[t] # "idle"
      <4>1. PICK i \in 1..n : t = queue[i]
        BY <1>1
      <4> QED
        BY <4>1, <3>1
    <3>3. \A t \in Requests : pc[t] # "idle" => pc'[t] # "idle"
      BY <1>2
    <3>4. pc'[r] # "idle" /\ ahead'[r] = InQueue
      BY <1>2
    <3>5. ASSUME NEW s \in Requests, s # r, NEW t \in ahead'[s]
          PROVE  t \in Requests /\ pc[t] # "idle" /\ pc[s] # "idle"
      <4>1. ahead'[s] = ahead[s] /\ ahead[s] \subseteq Requests
        BY <1>2, <3>5
      <4> QED
        BY <4>1, <3>5 DEF Queueing
    <3> QED
      BY <3>2, <3>3, <3>4, <3>5
  <2> QED
    BY <2>3, <2>4, <2>5, <2>6, <2>7 DEF Queueing
<1>6. Replies' /\ Refused'
  BY <1>2 DEF Replies, Refused
<1>7. Fetching'
  BY <1>2 DEF Fetching, Queueing
<1>8. Sharing'
  BY <1>1, <1>2 DEF Sharing, Queueing, Fetching
<1> QED
  BY <1>3, <1>4, <1>5, <1>6, <1>7, <1>8

\* Where a request leaves the head of the queue, the others move up one place.
LEMMA Dequeue ==
  ASSUME TypeOK, Queueing, NEW r \in Requests, NEW to \in Answered,
         queue # <<>>, Head(queue) = r, queue' = Tail(queue), UNCHANGED ahead,
         pc' = [pc EXCEPT ![r] = to]
  PROVE  Queueing' /\ (queue \in Seq(Requests))' /\ \A i \in 1..Len(queue') : queue'[i] # r
<1> USE DEF TypeOK, Waiting, Answered
<1>1. /\ Len(queue) \in Nat /\ Len(queue') = Len(queue) - 1 /\ r = queue[1]
      /\ \A i \in 1..Len(queue') : queue'[i] = queue[i + 1] /\ i + 1 \in 1..Len(queue)
  BY QueueFacts
<1>2. \A i \in 1..Len(queue') : queue'[i] # r
  BY <1>1 DEF Queueing
<1>3. \A i, j \in 1..Len(queue') : queue'[i] = queue'[j] => i = j
  <2> SUFFICES ASSUME NEW i \in 1..Len(queue'), NEW j \in 1..Len(queue'), queue'[i] = queue'[j]
               PROVE  i = j
    OBVIOUS
  <2>1. queue[i + 1] = queue[j + 1] /\ i + 1 \in 1..Len(queue) /\ j + 1 \in 1..Len(queue)
    BY <1>1
  <2>2. i + 1 = j + 1
    BY <2>1 DEF Queueing
  <2> QED
    BY <2>2, <1>1
<1>4. \A i \in 1..Len(queue') : pc'[queue'[i]] \in Waiting
  BY <1>1, <1>2 DEF Queueing
<1>5. \A s \in Requests : pc'[s] \in Waiting => \E i \in 1..Len(queue') : queue'[i] = s
  <2> SUFFICES ASSUME NEW s \in Requests, pc'[s] \in Waiting
               PROVE  \E i \in 1..Len(queue') : queue'[i] = s
    OBVIOUS
  <2>1. PICK i \in 1..Len(queue) : queue[i] = s
    BY DEF Queueing
  <2>2. i # 1
    BY <1>1, <2>1
  <2>3. i - 1 \in 1..Len(queue') /\ queue'[i - 1] = queue[(i - 1) + 1] /\ (i - 1) + 1 = i
    BY <1>1, <2>2
  <2> QED
    BY <2>1, <2>3
<1>6. \A i, j \in 1..Len(queue') : queue'[i] \in ahead'[queue'[j]] => i < j
  <2> SUFFICES ASSUME NEW i \in 1..Len(queue'), NEW j \in 1..Len(queue'),
                      queue'[i] \in ahead'[queue'[j]]
               PROVE  i < j
    OBVIOUS
  <2>1. queue[i + 1] \in ahead[queue[j + 1]] /\ i + 1 \in 1..Len(queue) /\ j + 1 \in 1..Len(queue)
    BY <1>1
  <2>2. i + 1 < j + 1
    BY <2>1 DEF Queueing
  <2> QED
    BY <2>2, <1>1
<1>7. \A s \in Requests : \A t \in ahead'[s] : pc'[t] # "idle" /\ pc'[s] # "idle"
  BY DEF Queueing
<1> QED
  BY <1>2, <1>3, <1>4, <1>5, <1>6, <1>7, QueueFacts DEF Queueing

\* All those ahead of the head of the queue have been answered.
LEMMA HeadIsNext ==
  ASSUME TypeOK, Queueing, queue # <<>>
  PROVE  \A r \in ahead[Head(queue)] : pc[r] \in Answered
<1> SUFFICES ASSUME NEW r \in ahead[Head(queue)], pc[r] \notin Answered PROVE FALSE
  OBVIOUS
<1>1. Len(queue) >= 1 /\ Head(queue) = queue[1] /\ Len(queue) \in Nat /\ Head(queue) \in Requests
  BY QueueFacts
<1>2. r \in Requests /\ pc[r] \in Waiting
  BY <1>1 DEF TypeOK, Queueing
<1>3. PICK i \in 1..Len(queue) : queue[i] = r
  BY <1>2 DEF Queueing
<1>4. i < 1
  BY <1>1, <1>3 DEF Queueing
<1> QED
  BY <1>3, <1>4

\* The double check under the lock: a hit leaves the queue, a miss fetches.
LEMMA TakeLockPreserves ==
  ASSUME IInv, NEW r \in Requests, TakeLock(r)
  PROVE  IInv'
<1> USE ConstantsAssumption DEF IInv, TypeOK, identity, history, Waiting, Answered, Forged
<1>1. /\ queue # <<>> /\ Head(queue) = r /\ pc[r] = "locked_out"
      /\ UNCHANGED <<signing, up, cache, reply, kid, ahead>>
  BY DEF TakeLock, Goto
<1>2. CASE kid[r] \in cache
  <2>1. pc' = [pc EXCEPT ![r] = "verified"] /\ queue' = Tail(queue) /\ fetched' = fetched
    BY <1>2 DEF TakeLock, Goto
  <2>2. Queueing' /\ (queue \in Seq(Requests))'
    BY <1>1, <2>1, Dequeue
  <2>3. TypeOK'
    BY <1>1, <2>1, <2>2 DEF TakeLock
  <2>4. FetchOnlyOnMiss'
    BY <1>1, <2>1 DEF FetchOnlyOnMiss
  <2>5. Replies' /\ Fetching' /\ Sharing' /\ Refused'
    BY <1>1, <2>1 DEF Replies, Fetching, Sharing, Refused
  <2> QED
    BY <2>2, <2>3, <2>4, <2>5
<1>3. CASE kid[r] \notin cache
  <2>1. pc' = [pc EXCEPT ![r] = "fetching"] /\ queue' = queue /\ fetched' = fetched \cup {r}
    BY <1>3 DEF TakeLock, Goto
  <2>2. TypeOK' /\ Queueing'
    BY <1>1, <2>1 DEF TakeLock, Queueing
  <2>3. FetchOnlyOnMiss'
    BY <1>1, <1>3, <2>1 DEF FetchOnlyOnMiss
  <2>4. Replies' /\ Refused'
    BY <1>1, <2>1 DEF Replies, Refused
  <2>5. Fetching'
    BY <1>1, <2>1, HeadIsNext DEF Fetching
  <2>6. Sharing'
    BY <1>1, <1>3, <2>1, HeadIsNext DEF Sharing, Fetching
  <2> QED
    BY <2>2, <2>3, <2>4, <2>5, <2>6
<1> QED
  BY <1>2, <1>3

\* The key set is read after the token was signed.
LEMMA ServeJwksPreserves ==
  ASSUME IInv, NEW r \in Requests, ServeJwks(r)
  PROVE  IInv'
<1> USE ConstantsAssumption DEF IInv, TypeOK, identity, history, Waiting, Answered, Forged,
         ServeJwks
<1>1. TypeOK'
  BY DEF FetchOnlyOnMiss, Queueing, Replies, Fetching, Sharing, Refused
<1>2. FetchOnlyOnMiss'
  BY DEF FetchOnlyOnMiss, Queueing, Replies, Fetching, Sharing, Refused
<1>3. Queueing'
  BY DEF FetchOnlyOnMiss, Queueing, Replies, Fetching, Sharing, Refused
<1>4. Replies'
  BY DEF FetchOnlyOnMiss, Queueing, Replies, Fetching, Sharing, Refused
<1>5. Fetching'
  BY DEF FetchOnlyOnMiss, Queueing, Replies, Fetching, Sharing, Refused
<1>6. Sharing'
  BY DEF FetchOnlyOnMiss, Queueing, Replies, Fetching, Sharing, Refused
<1>7. Refused'
  BY DEF FetchOnlyOnMiss, Queueing, Replies, Fetching, Sharing, Refused
<1> QED
  BY <1>1, <1>2, <1>3, <1>4, <1>5, <1>6, <1>7

\* A key set that arrives is at least as new as the one it replaces.
LEMMA InstallPreserves ==
  ASSUME IInv, NEW r \in Requests, Install(r)
  PROVE  IInv'
<1> USE ConstantsAssumption DEF IInv, TypeOK, identity, history, Waiting, Answered, Forged
<1> DEFINE to == IF kid[r] \in reply[r] THEN "verified" ELSE "unknown_key"
<1>1. /\ reply[r] # {} /\ pc[r] = "fetching" /\ pc' = [pc EXCEPT ![r] = to]
      /\ cache' = reply[r] /\ queue' = Tail(queue) /\ reply' = [reply EXCEPT ![r] = {}]
      /\ UNCHANGED <<signing, up, kid, fetched, ahead>>
  BY DEF Install, Goto, Release
<1>2. queue # <<>> /\ Head(queue) = r
  BY <1>1 DEF FetchOnlyOnMiss
<1>3. Queueing' /\ (queue \in Seq(Requests))'
  BY <1>1, <1>2, Dequeue
<1>4. TypeOK'
  BY <1>1, <1>3
<1>5. \A s \in Requests : s # r => pc'[s] # "fetching"
  BY <1>1, <1>2 DEF FetchOnlyOnMiss
<1>6. FetchOnlyOnMiss' /\ Replies'
  <2>1. FetchOnlyOnMiss'
    BY <1>1, <1>5 DEF FetchOnlyOnMiss
  <2>2. \A s \in Requests : reply'[s] = {}
    BY <1>1, <1>5 DEF Replies
  <2>3. \A j, k \in cache' : j = k
    BY <1>1 DEF Replies
  <2> QED
    BY <2>1, <2>2, <2>3 DEF Replies
<1>7. PICK g \in reply[r] : g \in 1..signing /\ kid[r] <= g /\ \A k \in cache : k <= g
  BY <1>1 DEF Replies
<1>8. \A k \in cache : k \in cache' \/ k < signing
  BY <1>1, <1>7
<1>9. Fetching'
  BY <1>1 DEF Fetching
<1>10. Refused'
  BY <1>1, <1>7 DEF Refused
<1>11. Sharing'
  <2>1. \A s \in fetched : r \notin ahead[s]
    BY <1>1 DEF Fetching
  <2>2. ASSUME NEW s \in Requests, pc'[s] = "locked_out", NEW t \in ahead[s] \cap fetched,
               pc'[t] = "verified", kid[t] = kid[s]
        PROVE  kid[s] \in cache' \/ kid[s] < signing
    <3>1. CASE t = r
      BY <3>1, <2>2, <1>1
    <3>2. CASE t # r
      BY <3>2, <2>2, <1>1, <1>8 DEF Sharing
    <3> QED
      BY <3>1, <3>2
  <2>3. ASSUME NEW s \in fetched, NEW t \in ahead[s] \cap fetched,
               pc'[t] = "verified", kid[t] = kid[s]
        PROVE  kid[s] < signing
    BY <2>3, <2>1, <1>1 DEF Sharing
  <2> QED
    BY <2>2, <2>3, <1>1 DEF Sharing
<1> QED
  BY <1>3, <1>4, <1>6, <1>9, <1>10, <1>11

\* A fetch that fails leaves the cache to those behind it.
LEMMA FailFetchPreserves ==
  ASSUME IInv, NEW r \in Requests, FailFetch(r)
  PROVE  IInv'
<1> USE ConstantsAssumption DEF IInv, TypeOK, identity, history, Waiting, Answered, Forged
<1>1. /\ pc[r] = "fetching" /\ pc' = [pc EXCEPT ![r] = "failed"]
      /\ queue' = Tail(queue) /\ reply' = [reply EXCEPT ![r] = {}]
      /\ UNCHANGED <<signing, up, cache, kid, fetched, ahead>>
  BY DEF FailFetch, Goto, Release
<1>2. queue # <<>> /\ Head(queue) = r
  BY <1>1 DEF FetchOnlyOnMiss
<1>3. Queueing' /\ (queue \in Seq(Requests))'
  BY <1>1, <1>2, Dequeue
<1>4. TypeOK'
  BY <1>1, <1>3
<1>5. \A s \in Requests : s # r => pc'[s] # "fetching"
  BY <1>1, <1>2 DEF FetchOnlyOnMiss
<1>6. FetchOnlyOnMiss' /\ Replies'
  BY <1>1, <1>5 DEF FetchOnlyOnMiss, Replies
<1>7. Fetching' /\ Sharing' /\ Refused'
  BY <1>1 DEF Fetching, Sharing, Refused
<1> QED
  BY <1>3, <1>4, <1>6, <1>7

\* The cache outlives the identity process.
LEMMA StopIdentityPreserves ==
  ASSUME IInv, StopIdentity
  PROVE  IInv'
<1> USE ConstantsAssumption DEF IInv, TypeOK, identity, history, Waiting, Answered, Forged,
         StopIdentity
<1>1. TypeOK'
  BY DEF FetchOnlyOnMiss, Queueing, Replies, Fetching, Sharing, Refused
<1>2. FetchOnlyOnMiss'
  BY DEF FetchOnlyOnMiss, Queueing, Replies, Fetching, Sharing, Refused
<1>3. Queueing'
  BY DEF FetchOnlyOnMiss, Queueing, Replies, Fetching, Sharing, Refused
<1>4. Replies'
  BY DEF FetchOnlyOnMiss, Queueing, Replies, Fetching, Sharing, Refused
<1>5. Fetching'
  BY DEF FetchOnlyOnMiss, Queueing, Replies, Fetching, Sharing, Refused
<1>6. Sharing'
  BY DEF FetchOnlyOnMiss, Queueing, Replies, Fetching, Sharing, Refused
<1>7. Refused'
  BY DEF FetchOnlyOnMiss, Queueing, Replies, Fetching, Sharing, Refused
<1> QED
  BY <1>1, <1>2, <1>3, <1>4, <1>5, <1>6, <1>7

\* The signing key stays or is replaced by a newer one.
LEMMA StartIdentityPreserves ==
  ASSUME IInv, NEW k \in 1..MaxKeys, StartIdentity(k)
  PROVE  IInv'
<1> USE ConstantsAssumption DEF IInv, TypeOK, identity, history, Waiting, Answered, Forged,
         StartIdentity
<1>1. TypeOK'
  BY DEF FetchOnlyOnMiss, Queueing, Replies, Fetching, Sharing, Refused
<1>2. FetchOnlyOnMiss'
  BY DEF FetchOnlyOnMiss, Queueing, Replies, Fetching, Sharing, Refused
<1>3. Queueing'
  BY DEF FetchOnlyOnMiss, Queueing, Replies, Fetching, Sharing, Refused
<1>4. Replies'
  BY DEF FetchOnlyOnMiss, Queueing, Replies, Fetching, Sharing, Refused
<1>5. Fetching'
  BY DEF FetchOnlyOnMiss, Queueing, Replies, Fetching, Sharing, Refused
<1>6. Sharing'
  BY DEF FetchOnlyOnMiss, Queueing, Replies, Fetching, Sharing, Refused
<1>7. Refused'
  BY DEF FetchOnlyOnMiss, Queueing, Replies, Fetching, Sharing, Refused
<1> QED
  BY <1>1, <1>2, <1>3, <1>4, <1>5, <1>6, <1>7

\* A new client process waits for nothing.
LEMMA RestartClientPreserves ==
  ASSUME IInv, RestartClient
  PROVE  IInv'
<1> USE ConstantsAssumption DEF IInv, TypeOK, identity, history, Waiting, Answered, Forged,
         RestartClient
<1>1. TypeOK'
  BY DEF FetchOnlyOnMiss, Queueing, Replies, Fetching, Sharing, Refused
<1>2. FetchOnlyOnMiss'
  BY DEF FetchOnlyOnMiss, Queueing, Replies, Fetching, Sharing, Refused
<1>3. Queueing'
  BY DEF FetchOnlyOnMiss, Queueing, Replies, Fetching, Sharing, Refused
<1>4. Replies'
  BY DEF FetchOnlyOnMiss, Queueing, Replies, Fetching, Sharing, Refused
<1>5. Fetching'
  BY DEF FetchOnlyOnMiss, Queueing, Replies, Fetching, Sharing, Refused
<1>6. Sharing'
  BY DEF FetchOnlyOnMiss, Queueing, Replies, Fetching, Sharing, Refused
<1>7. Refused'
  BY DEF FetchOnlyOnMiss, Queueing, Replies, Fetching, Sharing, Refused
<1> QED
  BY <1>1, <1>2, <1>3, <1>4, <1>5, <1>6, <1>7

\* Nothing is cached and nobody waits when the client starts.
LEMMA InitEstablishes == Init => IInv
<1> SUFFICES ASSUME Init PROVE IInv
  OBVIOUS
<1> USE ConstantsAssumption DEF Init, IInv, Forged, Waiting
<1>1. TypeOK
  BY DEF TypeOK
<1>2. FetchOnlyOnMiss /\ Queueing /\ Replies /\ Fetching /\ Sharing /\ Refused
  BY DEF FetchOnlyOnMiss, Queueing, Replies, Fetching, Sharing, Refused
<1> QED
  BY <1>1, <1>2

\* Every step of the client, or of the identity service, preserves the invariant.
LEMMA NextPreserves == IInv /\ [Next]_vars => IInv'
<1> SUFFICES ASSUME IInv, [Next]_vars PROVE IInv'
  OBVIOUS
<1>1. ASSUME NEW r \in Requests, Arrive(r) PROVE IInv'
  BY <1>1, HitPreserves, FetchPreserves, AwaitLockPreserves DEF Arrive
<1>2. ASSUME NEW r \in Requests, Serve(r) PROVE IInv'
  BY <1>2, TakeLockPreserves, InstallPreserves, FailFetchPreserves DEF Serve
<1>3. CASE UNCHANGED vars
  BY <1>3 DEF vars, identity, history, IInv, TypeOK, FetchOnlyOnMiss, Queueing, Replies,
              Fetching, Sharing, Refused
<1> QED
  BY <1>1, <1>2, <1>3, ServeJwksPreserves, StopIdentityPreserves, StartIdentityPreserves,
     RestartClientPreserves DEF Next

\* The invariant holds of every reachable state.
LEMMA Invariance == Spec => []IInv
  BY InitEstablishes, NextPreserves, PTL DEF Spec

-----------------------------------------------------------------------------
(* What the cache promises                                                 *)

\* Every variable keeps its type; the cache holds only keys that were published.
THEOREM TypeCorrectness == Spec => []TypeOK
<1>1. IInv => TypeOK
  BY DEF IInv
<1> QED
  BY <1>1, Invariance, PTL

\* The lock excludes a second fetch, and a fetch is for a kid that is not cached.
THEOREM FetchesAreMisses == Spec => []FetchOnlyOnMiss
<1>1. IInv => FetchOnlyOnMiss
  BY DEF IInv
<1> QED
  BY <1>1, Invariance, PTL

\* Rotation is seamless: the key in use is never taken for an unknown one.
THEOREM CurrentKeyIsNeverRefused == Spec => []CurrentKeyIsKnown
<1>1. IInv => CurrentKeyIsKnown
  BY DEF IInv, TypeOK, Refused, CurrentKeyIsKnown
<1> QED
  BY <1>1, Invariance, PTL

\* A successful fetch serves the burst that queued behind it.
THEOREM BurstsShareAFetch == Spec => []BurstSharesFetch
<1>1. IInv => BurstSharesFetch
  BY DEF IInv, TypeOK, Sharing, BurstSharesFetch
<1> QED
  BY <1>1, Invariance, PTL

\* The cache follows the order in which the keys were published.
THEOREM CacheMovesForward == Spec => CacheNeverGoesBack
<1>1. IInv /\ [Next]_vars => [\A j \in cache, k \in cache' : j <= k]_vars
  <2> SUFFICES ASSUME IInv, [Next]_vars, NEW j \in cache, NEW k \in cache'
               PROVE  j <= k
    OBVIOUS
  <2>1. CASE cache' = cache
    BY <2>1 DEF IInv, TypeOK, Replies
  <2>2. CASE cache' # cache
    <3>1. cache' = {} \/ \E r \in Requests : Install(r)
      BY <2>2 DEF Next, Arrive, Serve, Hit, Fetch, AwaitLock, TakeLock, ServeJwks, FailFetch,
             StopIdentity, StartIdentity, RestartClient, vars, identity
    <3> QED
      BY <3>1 DEF Install, IInv, Replies
  <2> QED
    BY <2>1, <2>2
<1> QED
  BY <1>1, Invariance, PTL DEF Spec, CacheNeverGoesBack

-----------------------------------------------------------------------------
(* The queue implements one cache                                          *)

\* Only the holder of the lock has a reply, and it is one key.
LEMMA OneReply ==
  ASSUME IInv
  PROVE  /\ \A r \in Requests : reply[r] # {} => queue # <<>> /\ Head(queue) = r
         /\ Reply # 0 => queue # <<>> /\ reply[Head(queue)] = {Reply}
         /\ queue # <<>> => \A k : reply[Head(queue)] = {k} => Reply = k
<1>1. \A r \in Requests : reply[r] # {} => queue # <<>> /\ Head(queue) = r
  BY DEF IInv, Replies, FetchOnlyOnMiss
<1>2. ASSUME queue # <<>> PROVE Head(queue) \in Requests
  BY <1>2, QueueFacts DEF IInv
<1>3. ASSUME queue # <<>>, reply[Head(queue)] # {}
      PROVE  /\ Reply \in reply[Head(queue)]
             /\ \A j, k \in reply[Head(queue)] : j = k
  <2>1. Reply = CHOOSE k \in reply[Head(queue)] : TRUE
    BY <1>3 DEF Reply
  <2> QED
    BY <1>2, <1>3, <2>1 DEF IInv, Replies
<1>4. ASSUME Reply # 0 PROVE queue # <<>> /\ reply[Head(queue)] # {}
  BY <1>4 DEF Reply
<1> QED
  BY <1>1, <1>3, <1>4

\* The lock passes on: nothing is on its way for the next in the queue.
LEMMA NextHasNoReply ==
  ASSUME IInv, queue # <<>>, Tail(queue) # <<>>
  PROVE  reply[Head(Tail(queue))] = {}
<1>1. /\ Len(queue) >= 2 /\ Len(queue) \in Nat
      /\ Head(queue) = queue[1] /\ Head(Tail(queue)) = queue[2] /\ queue[2] \in Requests
  BY QueueFacts DEF IInv
<1>2. queue[2] # queue[1]
  BY <1>1 DEF IInv, Queueing
<1> QED
  BY <1>1, <1>2, OneReply

\* An arrival leaves cache and reply alone.
LEMMA ArriveMaps ==
  ASSUME IInv, NEW r \in Requests, Arrive(r)
  PROVE  UNCHANGED Cache!vars
<1> USE DEF identity
<1>1. PICK k \in 0..signing : Hit(r, k) \/ Fetch(r, k) \/ AwaitLock(r, k)
  BY DEF Arrive
<1>2. CASE Hit(r, k)
  BY <1>2 DEF Hit, Reply, Cache!vars
<1>3. CASE Fetch(r, k)
  <2>1. queue = <<>> /\ queue' = <<r>> /\ Head(queue') = r /\ queue' # <<>> /\ reply' = reply
    BY <1>3 DEF Fetch
  <2>2. reply[r] = {}
    BY <1>3 DEF Fetch, Present, Goto, IInv, Replies
  <2> QED
    BY <1>3, <2>1, <2>2 DEF Fetch, Reply, Cache!vars
<1>4. CASE AwaitLock(r, k)
  <2>1. queue # <<>> /\ queue' # <<>> /\ Head(queue') = Head(queue)
    BY <1>4 DEF AwaitLock, IInv, TypeOK
  <2>2. UNCHANGED <<signing, cache, reply>>
    BY <1>4 DEF AwaitLock
  <2>3. reply'[Head(queue')] = reply[Head(queue)]
    BY <2>1, <2>2
  <2>4. CASE reply[Head(queue)] = {}
    BY <2>1, <2>2, <2>3, <2>4 DEF Reply, Cache!vars
  <2>5. CASE reply[Head(queue)] # {}
    <3>1. Reply = CHOOSE g \in reply[Head(queue)] : TRUE
      BY <2>1, <2>5 DEF Reply
    <3>2. Reply' = CHOOSE g \in reply'[Head(queue')] : TRUE
      BY <2>1, <2>3, <2>5 DEF Reply
    <3>3. Reply' = Reply
      BY <2>3, <3>1, <3>2, Zenon
    <3> QED
      BY <2>2, <3>3 DEF Cache!vars
  <2> QED
    BY <2>4, <2>5
<1> QED
  BY <1>1, <1>2, <1>3, <1>4

\* The holder of the lock finds its key, installs the reply or fails.
LEMMA ServeMaps ==
  ASSUME IInv, NEW r \in Requests, Serve(r)
  PROVE  Cache!Install \/ Cache!Fail \/ UNCHANGED Cache!vars
<1> USE DEF identity
<1>1. CASE TakeLock(r)
  <2>1. queue # <<>> /\ Head(queue) = r /\ reply[r] = {} /\ UNCHANGED <<signing, cache, reply>>
    BY <1>1 DEF TakeLock, Goto, IInv, Replies
  <2>2. Reply = 0
    BY <2>1 DEF Reply
  <2>3. queue' = queue \/ queue' = Tail(queue)
    BY <1>1 DEF TakeLock
  <2>4. Reply' = 0
    BY <2>1, <2>3, NextHasNoReply DEF Reply
  <2> QED
    BY <2>1, <2>2, <2>4 DEF Cache!vars
<1>2. CASE Install(r) \/ FailFetch(r)
  <2>1. /\ pc[r] = "fetching" /\ queue' = Tail(queue)
        /\ reply' = [reply EXCEPT ![r] = {}] /\ signing' = signing
    BY <1>2 DEF Install, FailFetch, Goto, Release
  <2>2. queue # <<>> /\ Head(queue) = r
    BY <2>1 DEF IInv, FetchOnlyOnMiss
  <2>3. queue' # <<>> => reply'[Head(queue')] = {}
    <3>1. \A s \in Requests : reply[s] = {} => reply'[s] = {}
      BY <2>1 DEF IInv, TypeOK
    <3>2. queue' # <<>> => Head(queue') \in Requests
      BY <2>1, <2>2, QueueFacts DEF IInv
    <3> QED
      BY <2>1, <2>2, <3>1, <3>2, NextHasNoReply
  <2>4. Reply' = 0
    BY <2>3 DEF Reply
  <2>5. CASE Install(r)
    <3>1. reply[r] # {} /\ cache' = reply[r]
      BY <2>5 DEF Install
    <3>2. PICK k \in reply[r] : k \in 1..signing
      BY <3>1 DEF IInv, TypeOK
    <3>3. reply[r] = {k}
      BY <3>2 DEF IInv, Replies
    <3>4. Reply = k
      BY <2>2, <3>3, OneReply
    <3>5. k # 0
      BY <3>2
    <3> QED
      BY <2>1, <2>4, <3>1, <3>3, <3>4, <3>5 DEF Cache!Install
  <2>6. CASE FailFetch(r)
    BY <2>1, <2>4, <2>6 DEF FailFetch, Cache!Fail
  <2> QED
    BY <1>2, <2>5, <2>6
<1> QED
  BY <1>1, <1>2 DEF Serve

\* The answer goes to the holder of the lock.
LEMMA ServeJwksMaps ==
  ASSUME IInv, NEW r \in Requests, ServeJwks(r)
  PROVE  Cache!Serve
<1> USE DEF identity
<1>1. /\ pc[r] = "fetching" /\ reply[r] = {} /\ reply' = [reply EXCEPT ![r] = {signing}]
      /\ UNCHANGED <<signing, cache, queue>>
  BY DEF ServeJwks
<1>2. queue # <<>> /\ Head(queue) = r
  BY <1>1 DEF IInv, FetchOnlyOnMiss
<1>3. Reply = 0
  BY <1>1, <1>2 DEF Reply
<1>4. reply'[r] = {signing}
  BY <1>1 DEF IInv, TypeOK
<1>5. Reply' = CHOOSE k \in {signing} : TRUE
  BY <1>1, <1>2, <1>4 DEF Reply
<1>6. Reply' = signing
  BY <1>5
<1> QED
  BY <1>1, <1>3, <1>6 DEF Cache!Serve

\* Every step of the client and the identity service is one of the cache, or none.
LEMMA NextMaps ==
  ASSUME IInv, [Next]_vars
  PROVE  [Cache!Next]_(Cache!vars)
<1> USE DEF identity
<1>1. CASE StopIdentity
  BY <1>1 DEF StopIdentity, Reply, Cache!vars
<1>2. ASSUME NEW k \in 1..MaxKeys, StartIdentity(k)
      PROVE  [Cache!Next]_(Cache!vars)
  <2>1. Reply' = Reply
    BY <1>2 DEF StartIdentity, Reply
  <2> QED
    BY <1>2, <2>1 DEF StartIdentity, Cache!vars, Cache!Next, Cache!Rotate
<1>3. CASE RestartClient
  BY <1>3 DEF RestartClient, Reply, Cache!Next, Cache!Restart
<1>4. CASE UNCHANGED vars
  BY <1>4 DEF vars, Reply, Cache!vars
<1> QED
  BY <1>1, <1>2, <1>3, <1>4, ArriveMaps, ServeMaps, ServeJwksMaps DEF Next, Cache!Next

\* All coroutines together, with their queue, are one cache that fetches one key
\* set at a time.
THEOREM QueueImplementsKeyCache == Spec => ImplementsKeyCache
<1>1. Init => Cache!Init
  BY DEF Init, Reply, Cache!Init
<1>2. IInv /\ [Next]_vars => [Cache!Next]_(Cache!vars)
  BY NextMaps
<1> QED
  BY <1>1, <1>2, Invariance, PTL DEF ImplementsKeyCache, Cache!Spec, Spec

-----------------------------------------------------------------------------
(* The way of a request through the queue                                  *)

\* Nobody is overtaken, and a step of the request at the head brings the others
\* nearer to the lock or the head nearer to the end of its fetch.
MovesUp ==
  /\ \A i \in 1..Len(queue), j \in 1..Len(queue') : queue'[j] = queue[i] => j <= i
  /\ \A r \in Requests : Serve(r) =>
       /\ queue # <<>> /\ Head(queue) = r
       /\ queue' = Tail(queue) \/ (pc[r] = "locked_out" /\ pc'[r] = "fetching" /\ queue' = queue)

\* Whoever waits is in the queue, and its head has something to do.
SomebodyIsServed ==
  /\ \A r \in Requests : pc[r] \in Waiting => \E i \in 1..Len(queue) : queue[i] = r
  /\ queue # <<>> => Head(queue) \in Requests /\ pc[Head(queue)] \in Waiting

\* The lock reaches every request that waits for it: the queue only moves forward, its
\* head is never one that has gone, and each request holds the lock for two steps at
\* most (jwks.py:37-48).  EveryRequestAnswered asks no more than that fetches end.
THEOREM QueueNeverStalls == Spec => []SomebodyIsServed /\ [][MovesUp]_vars
<1>1. IInv => SomebodyIsServed
  <2> SUFFICES ASSUME IInv PROVE SomebodyIsServed
    OBVIOUS
  <2>1. ASSUME queue # <<>> PROVE Head(queue) \in Requests /\ pc[Head(queue)] \in Waiting
    <3>1. Len(queue) \in Nat /\ Len(queue) >= 1 /\ Head(queue) = queue[1] /\ queue[1] \in Requests
      BY <2>1, QueueFacts DEF IInv
    <3> QED
      BY <3>1 DEF IInv, Queueing
  <2> QED
    BY <2>1 DEF IInv, Queueing, SomebodyIsServed
<1>2. IInv /\ [Next]_vars => [MovesUp]_vars
  <2> SUFFICES ASSUME IInv, Next PROVE MovesUp
    OBVIOUS
  <2>1. queue \in Seq(Requests)
    BY DEF IInv, TypeOK
  <2>2. ASSUME NEW r \in Requests, Serve(r)
        PROVE  /\ queue # <<>> /\ Head(queue) = r
               /\ \/ queue' = Tail(queue)
                  \/ pc[r] = "locked_out" /\ pc'[r] = "fetching" /\ queue' = queue
    BY <2>2 DEF Serve, TakeLock, Install, FailFetch, Release, Goto, IInv, TypeOK, FetchOnlyOnMiss
  <2>3. \/ queue' = queue
        \/ queue' = <<>>
        \/ queue # <<>> /\ queue' = Tail(queue)
        \/ \E r \in Requests : (\A i \in 1..Len(queue) : queue[i] # r) /\ queue' = Append(queue, r)
    <3>1. ASSUME NEW r \in Requests, Arrive(r)
          PROVE  \/ queue' = queue
                 \/ (\A i \in 1..Len(queue) : queue[i] # r) /\ queue' = Append(queue, r)
      <4>1. pc[r] = "idle"
        BY <3>1 DEF Arrive, Hit, Fetch, AwaitLock, Present, Goto
      <4>2. \A i \in 1..Len(queue) : queue[i] # r
        BY <4>1 DEF IInv, Queueing, Waiting
      <4>3. \/ queue' = queue
            \/ queue = <<>> /\ queue' = <<r>>
            \/ queue' = Append(queue, r)
        BY <3>1 DEF Arrive, Hit, Fetch, AwaitLock
      <4>4. queue = <<>> => Append(queue, r) = <<r>>
        OBVIOUS
      <4> QED
        BY <4>2, <4>3, <4>4
    <3>2. CASE \E r \in Requests : ServeJwks(r)
      BY <3>2 DEF ServeJwks
    <3>3. CASE StopIdentity \/ (\E k \in 1..MaxKeys : StartIdentity(k)) \/ RestartClient
      BY <3>3 DEF StopIdentity, StartIdentity, RestartClient
    <3> QED
      BY <2>2, <3>1, <3>2, <3>3 DEF Next
  <2>4. ASSUME NEW i \in 1..Len(queue), NEW j \in 1..Len(queue'), queue'[j] = queue[i] PROVE j <= i
    <3>1. \A k, l \in 1..Len(queue) : queue[k] = queue[l] => k = l
      BY DEF IInv, Queueing
    <3>2. CASE queue' = queue
      BY <2>4, <3>1, <3>2
    <3>3. CASE queue' = <<>>
      BY <3>3
    <3>4. CASE queue # <<>> /\ queue' = Tail(queue)
      <4>1. /\ Len(queue) \in Nat /\ Len(queue') = Len(queue) - 1
            /\ \A k \in 1..(Len(queue) - 1) : queue'[k] = queue[k + 1]
        BY <3>4, QueueFacts DEF IInv
      <4>2. j \in 1..(Len(queue) - 1) /\ j + 1 \in 1..Len(queue)
        BY <4>1
      <4>3. queue[j + 1] = queue[i]
        BY <2>4, <4>1, <4>2
      <4>4. j + 1 = i
        BY <3>1, <4>2, <4>3
      <4> QED
        BY <4>2, <4>4
    <3>5. ASSUME NEW r \in Requests, \A k \in 1..Len(queue) : queue[k] # r,
                 queue' = Append(queue, r)
          PROVE  j <= i
      <4>1. /\ Len(queue) \in Nat /\ Len(queue') = Len(queue) + 1
            /\ queue'[Len(queue) + 1] = r
            /\ \A k \in 1..Len(queue) : queue'[k] = queue[k]
        BY <2>1, <3>5
      <4>2. j # Len(queue) + 1
        BY <2>4, <3>5, <4>1
      <4>3. j \in 1..Len(queue)
        BY <4>1, <4>2
      <4> QED
        BY <2>4, <3>1, <4>1, <4>3
    <3> QED
      BY <2>3, <3>2, <3>3, <3>4, <3>5
  <2> QED
    BY <2>2, <2>4 DEF MovesUp
<1> QED
  BY <1>1, <1>2, Invariance, PTL DEF Spec
=============================================================================
