--------------------------- MODULE ClientApp_proofs ---------------------------
(***************************************************************************)
(* Whose failure a request to the client app may suffer from, for any      *)
(* number of requests, public APIs, threads and connections.               *)
(***************************************************************************)
EXTENDS ClientApp, FiniteSetTheorems, TLAPS

\* A request has a thread or waits for one exactly while it is in a function that needs
\* it, and is in one place at a time.
Threading ==
  /\ IsFiniteSet(working)
  /\ \A r \in Requests : pc[r] \in OnThread => r \in working \/ \E i \in 1..Len(queue) : queue[i] = r
  /\ \A r \in working : pc[r] \in OnThread
  /\ \A i \in 1..Len(queue) : pc[queue[i]] \in OnThread /\ queue[i] \notin working
  /\ \A i, j \in 1..Len(queue) : queue[i] = queue[j] => i = j

Pending == {"waiting", "open"}
Wrong   == {"failed", "malformed", "unencodable"}

\* A call is on its way only while its request waits for it, and what fails otherwise
\* than for want of a connection is a service that is not healthy.
Calling ==
  /\ IsFiniteSet(Open)
  /\ \A r \in Requests, u \in Upstreams : call[r][u] \in Pending =>
       \/ pc[r] \in {"fetching", "calling"} /\ u = Identity
       \/ pc[r] = "gathering" /\ u \in Sources
  /\ \A r \in Requests, u \in Upstreams : call[r][u] \in Wrong => u \notin healthy

\* The way of a snapshot.
Routes ==
  \A r \in Requests :
    /\ endpoint[r] = "company" => pc[r] \in {"http_dependency", "ready", "gathering", "ok", "refused", "error"}
    /\ pc[r] = "gathering" => endpoint[r] = "company"

\* The requests at the lock hold it or wait for it, each in one place, and who fetches
\* the keys holds it.
Locking ==
  /\ \A i \in 1..Len(lock) : lock[i] \in Requests /\ pc[lock[i]] \in AtLock
  /\ \A i, j \in 1..Len(lock) : lock[i] = lock[j] => i = j
  /\ \A r \in Requests : pc[r] \in AtLock => \E i \in 1..Len(lock) : lock[i] = r
  /\ \A r \in Requests : pc[r] = "fetching" => HasLock(r)

\* A request waits for calls that it has made.
Dialled ==
  \A r \in Requests :
    /\ pc[r] \in {"fetching", "calling"} => call[r][Identity] # "none"
    /\ pc[r] = "gathering" => \A s \in Sources : call[r][s] # "none"

IInv ==
  /\ TypeOK /\ Threading /\ Calling /\ Routes /\ Locking /\ Dialled
  /\ SourcesIsolated /\ FailuresAreOwn

-----------------------------------------------------------------------------
(* Threads                                                                 *)

\* What TypeOK says of the threads.
ThreadsTypeOK == working \subseteq Requests /\ queue \in Seq(Requests) /\ ThreadsBounded

\* A queue one place on.
LEMMA QueueFacts ==
  ASSUME NEW q \in Seq(Requests), q # <<>>
  PROVE  /\ Len(q) \in Nat /\ Len(q) >= 1 /\ Head(q) = q[1]
         /\ \A i \in 1..Len(q) : q[i] \in Requests
         /\ Tail(q) \in Seq(Requests) /\ Len(Tail(q)) = Len(q) - 1
         /\ \A i \in 1..(Len(q) - 1) : Tail(q)[i] = q[i + 1]
  OBVIOUS

\* A request asks for a thread: it gets one, or is the last to wait.
LEMMA SubmitThreads ==
  ASSUME TypeOK, Threading, NEW r \in Requests, Submit(r),
         pc[r] \notin OnThread, NEW to \in OnThread, pc' = [pc EXCEPT ![r] = to]
  PROVE  ThreadsTypeOK' /\ Threading'
<1> USE ThreadsAssumption DEF TypeOK, ThreadsTypeOK, ThreadsBounded, Threading
<1>1. Cardinality(working) \in Nat
  BY FS_CardinalityType
<1>2. r \notin working /\ \A i \in 1..Len(queue) : queue[i] # r /\ queue[i] \in Requests
  OBVIOUS
<1>3. CASE queue = <<>> /\ Cardinality(working) < Threads
  <2>1. working' = working \cup {r} /\ queue' = queue
    BY <1>1, <1>3 DEF Submit
  <2>2. IsFiniteSet(working') /\ Cardinality(working') = Cardinality(working) + 1
    BY <1>2, <2>1, FS_AddElement
  <2>3. Cardinality(working') <= Threads
    BY <1>1, <1>3, <2>2
  <2>4. Len(queue') = 0
    BY <1>3, <2>1
  <2>5. \A s \in working' : pc'[s] \in OnThread
    BY <2>1
  <2>6. \A s \in Requests : pc'[s] \in OnThread => s \in working'
    BY <1>3, <2>1
  <2>7. Threading'
    BY <2>2, <2>4, <2>5, <2>6
  <2> QED
    BY <1>3, <2>1, <2>3, <2>7
<1>4. CASE ~(queue = <<>> /\ Cardinality(working) < Threads)
  <2>1. working' = working /\ queue' = Append(queue, r)
    BY <1>1, <1>4 DEF Submit
  <2>2. /\ Len(queue) \in Nat /\ Len(queue') = Len(queue) + 1 /\ queue'[Len(queue) + 1] = r
        /\ \A i \in 1..Len(queue) : queue'[i] = queue[i]
        /\ queue' \in Seq(Requests)
    BY <2>1
  <2>3. Cardinality(working') = Threads
    BY <1>1, <1>4, <2>1
  <2>4. \A i \in 1..Len(queue') : i \in 1..Len(queue) \/ i = Len(queue) + 1
    BY <2>2
  <2>5. \A i \in 1..Len(queue') : pc'[queue'[i]] \in OnThread /\ queue'[i] \notin working'
    BY <1>2, <2>1, <2>2, <2>4
  <2>6. \A i, j \in 1..Len(queue') : queue'[i] = queue'[j] => i = j
    <3> SUFFICES ASSUME NEW i \in 1..Len(queue'), NEW j \in 1..Len(queue'), queue'[i] = queue'[j]
                 PROVE  i = j
      OBVIOUS
    <3>1. CASE i \in 1..Len(queue) /\ j \in 1..Len(queue)
      BY <2>2, <3>1
    <3>2. CASE i = Len(queue) + 1 \/ j = Len(queue) + 1
      BY <1>2, <2>2, <2>4, <3>2
    <3> QED
      BY <2>4, <3>1, <3>2
  <2>7. \A s \in Requests :
          pc'[s] \in OnThread => s \in working' \/ \E i \in 1..Len(queue') : queue'[i] = s
    <3> SUFFICES ASSUME NEW s \in Requests, pc'[s] \in OnThread, s \notin working'
                 PROVE  \E i \in 1..Len(queue') : queue'[i] = s
      OBVIOUS
    <3>1. CASE s = r
      BY <2>2, <3>1
    <3>2. CASE s # r
      <4>1. PICK i \in 1..Len(queue) : queue[i] = s
        BY <2>1, <3>2
      <4> QED
        BY <2>2, <4>1
    <3> QED
      BY <3>1, <3>2
  <2>8. Threading'
    BY <2>1, <2>5, <2>6, <2>7
  <2> QED
    BY <1>2, <2>1, <2>2, <2>3, <2>8, ThreadsAssumption
<1> QED
  BY <1>3, <1>4

\* A thread is given back: to the first in the queue, if there is one.
LEMMA ReturnThreads ==
  ASSUME TypeOK, Threading, NEW r \in Requests, Return(r),
         NEW to, to \notin OnThread, pc' = [pc EXCEPT ![r] = to]
  PROVE  ThreadsTypeOK' /\ Threading'
<1> USE ThreadsAssumption DEF TypeOK, ThreadsTypeOK, ThreadsBounded, Threading
<1> DEFINE rest == working \ {r}
<1>1. /\ r \in working /\ \A i \in 1..Len(queue) : queue[i] # r
      /\ Cardinality(working) \in Nat
      /\ IsFiniteSet(rest) /\ Cardinality(rest) = Cardinality(working) - 1
  BY FS_CardinalityType, FS_RemoveElement DEF Return
<1>2. CASE queue = <<>>
  <2>1. working' = rest /\ queue' = <<>> /\ Len(queue') = 0
    BY <1>2 DEF Return
  <2>2. Cardinality(working') <= Threads
    BY <1>1, <2>1
  <2>3. \A s \in Requests : pc'[s] \in OnThread => s \in working'
    BY <1>2, <2>1
  <2>4. Threading'
    BY <1>1, <2>1, <2>3
  <2> QED
    BY <1>2, <2>1, <2>2, <2>4
<1>3. CASE queue # <<>>
  <2>1. working' = rest \cup {Head(queue)} /\ queue' = Tail(queue)
    BY <1>3 DEF Return
  <2>2. /\ Len(queue) \in Nat /\ Len(queue) >= 1 /\ Head(queue) = queue[1]
        /\ \A i \in 1..Len(queue) : queue[i] \in Requests
        /\ Tail(queue) \in Seq(Requests) /\ Len(Tail(queue)) = Len(queue) - 1
        /\ \A i \in 1..(Len(queue) - 1) : Tail(queue)[i] = queue[i + 1]
    BY <1>3, QueueFacts
  <2>3. Head(queue) \in Requests /\ Head(queue) # r /\ Head(queue) \notin rest
    BY <1>1, <2>2
  <2>4. IsFiniteSet(working') /\ Cardinality(working') = Cardinality(working)
    <3> HIDE DEF TypeOK, Threading, rest
    <3>1. /\ IsFiniteSet(rest \cup {Head(queue)})
          /\ Cardinality(rest \cup {Head(queue)}) = Cardinality(rest) + 1
      BY <1>1, <2>3, FS_AddElement
    <3> QED
      BY <1>1, <2>1, <3>1
  <2>5. \A i \in 1..Len(queue') : i + 1 \in 1..Len(queue) /\ queue'[i] = queue[i + 1] /\ i + 1 # 1
    <3> SUFFICES ASSUME NEW i \in 1..Len(queue')
                 PROVE  i + 1 \in 1..Len(queue) /\ queue'[i] = queue[i + 1] /\ i + 1 # 1
      OBVIOUS
    <3>1. i \in 1..(Len(queue) - 1)
      BY <2>1, <2>2
    <3> HIDE DEF TypeOK, Threading
    <3> QED
      BY <2>1, <2>2, <3>1
  <2>6. \A i \in 1..Len(queue') : pc'[queue'[i]] \in OnThread /\ queue'[i] \notin working'
    BY <1>1, <2>1, <2>2, <2>5
  <2>7. \A i, j \in 1..Len(queue') : queue'[i] = queue'[j] => i = j
    <3> SUFFICES ASSUME NEW i \in 1..Len(queue'), NEW j \in 1..Len(queue'), queue'[i] = queue'[j]
                 PROVE  i = j
      OBVIOUS
    <3>1. i + 1 = j + 1
      BY <2>5
    <3> QED
      BY <2>1, <2>2, <3>1
  <2>8. \A s \in working' : pc'[s] \in OnThread
    BY <1>1, <2>1, <2>2, <2>3
  <2>9. \A s \in Requests :
          pc'[s] \in OnThread => s \in working' \/ \E i \in 1..Len(queue') : queue'[i] = s
    <3> SUFFICES ASSUME NEW s \in Requests, pc'[s] \in OnThread, s \notin working'
                 PROVE  \E i \in 1..Len(queue') : queue'[i] = s
      OBVIOUS
    <3>1. s # r /\ pc[s] \in OnThread
      OBVIOUS
    <3>2. PICK i \in 1..Len(queue) : queue[i] = s
      BY <2>1, <3>1
    <3>3. i # 1
      BY <2>1, <2>2, <3>2
    <3>4. i - 1 \in 1..(Len(queue) - 1) /\ queue[(i - 1) + 1] = s
      BY <2>2, <3>2, <3>3
    <3> HIDE DEF TypeOK, Threading
    <3> QED
      BY <2>1, <2>2, <3>4
  <2>10. Threading'
    BY <2>4, <2>6, <2>7, <2>8, <2>9, <1>1, <2>1
  <2> QED
    BY <1>1, <1>3, <2>1, <2>2, <2>3, <2>4, <2>10
<1> QED
  BY <1>2, <1>3

\* Whoever has no thread leaves the threads alone.
LEMMA KeepThreads ==
  ASSUME TypeOK, Threading, UNCHANGED threads,
         \A s \in Requests : pc[s] \in OnThread <=> pc'[s] \in OnThread
  PROVE  ThreadsTypeOK' /\ Threading'
  BY DEF TypeOK, ThreadsTypeOK, ThreadsBounded, Threading, threads

-----------------------------------------------------------------------------
(* Calls                                                                   *)

\* A request that waits for no call starts some, or none.
LEMMA DialCalls ==
  ASSUME TypeOK, Calling, NEW r \in Requests, NEW us \in SUBSET Upstreams, Dial(r, us),
         UNCHANGED healthy, NEW to, pc' = [pc EXCEPT ![r] = to],
         \A u \in us : \/ to \in {"fetching", "calling"} /\ u = Identity
                       \/ to = "gathering" /\ u \in Sources
  PROVE  CallsTypeOK' /\ Calling'
<1> USE CallsAssumption DEF TypeOK, CallsTypeOK
<1>1. call' \in [Requests -> [Upstreams -> Progress]]
  BY DEF Dial, Progress, Outcomes, Answers
<1>2. \A s \in Requests, u \in Upstreams :
        \/ s # r /\ call'[s][u] = call[s][u] /\ pc'[s] = pc[s]
        \/ s = r /\ call'[s][u] = "none"
        \/ s = r /\ call'[s][u] = "waiting" /\ u \in us /\ pc'[s] = to
  BY DEF Dial
<1>3. Open' \in SUBSET Open
  <2> SUFFICES ASSUME NEW c \in Requests \X Upstreams, call'[c[1]][c[2]] = "open"
               PROVE  call[c[1]][c[2]] = "open"
    BY DEF Open
  <2>1. c[1] \in Requests /\ c[2] \in Upstreams
    OBVIOUS
  <2> QED
    BY <1>2, <2>1
<1>4. IsFiniteSet(Open') /\ Cardinality(Open') <= Cardinality(Open)
  BY <1>3, FS_Subset DEF Calling
<1>5. Cardinality(Open) \in Nat /\ Cardinality(Open') \in Nat
  BY <1>4, FS_CardinalityType DEF Calling
<1>6. Calling'
  <2>1. ASSUME NEW s \in Requests, NEW u \in Upstreams, call'[s][u] \in Pending
        PROVE  \/ pc'[s] \in {"fetching", "calling"} /\ u = Identity
               \/ pc'[s] = "gathering" /\ u \in Sources
    BY <1>2, <2>1 DEF Calling, Pending
  <2>2. ASSUME NEW s \in Requests, NEW u \in Upstreams, call'[s][u] \in Wrong
        PROVE  u \notin healthy'
    BY <1>2, <2>2 DEF Calling, Wrong
  <2> QED
    BY <1>4, <2>1, <2>2 DEF Calling
<1>7. Cardinality(Open') <= Connections
  BY <1>4, <1>5
<1>8. CallsTypeOK'
  BY <1>1, <1>7
<1> QED
  BY <1>6, <1>8

\* A request none of whose calls is on its way moves on.
LEMMA KeepCalls ==
  ASSUME TypeOK, Calling, UNCHANGED calls, NEW r \in Requests,
         \A u \in Upstreams : call[r][u] \notin Pending,
         \A s \in Requests : s # r => pc'[s] = pc[s]
  PROVE  CallsTypeOK' /\ Calling'
<1>1. UNCHANGED <<healthy, call>> /\ Open' = Open
  BY DEF calls, Open
<1> QED
  BY <1>1 DEF TypeOK, CallsTypeOK, Calling

\* One call gets a connection, or ends.
LEMMA NetworkCalls ==
  ASSUME TypeOK, Calling, NEW r \in Requests, Network(r), pc' = pc
  PROVE  /\ CallsTypeOK' /\ Calling' /\ healthy' = healthy
         /\ \A s \in Requests : (\A u \in Upstreams : call[s][u] \notin Pending) => call'[s] = call[s]
         /\ \A s \in Requests, u \in Upstreams : call[s][u] # "none" => call'[s][u] # "none"
<1> USE CallsAssumption DEF TypeOK, CallsTypeOK
<1>1. PICK u \in Upstreams : Connect(r, u) \/ Starve(r, u) \/ Respond(r, u)
  BY DEF Network
<1>2. PICK to \in Progress \ {"waiting", "none"} :
        /\ call[r][u] \in Pending /\ call' = [call EXCEPT ![r][u] = to] /\ healthy' = healthy
        /\ to \in Wrong => u \notin healthy
        /\ to = "open" => call[r][u] = "waiting" /\ ~Exhausted
  <2> USE DEF Progresses, Progress, Outcomes, Answers, Pending, Wrong
  <2>1. CASE Connect(r, u)
    BY <2>1 DEF Connect
  <2>2. CASE Starve(r, u)
    <3>1. call[r][u] = "waiting" /\ call' = [call EXCEPT ![r][u] = "starved"] /\ healthy' = healthy
      BY <2>2 DEF Starve
    <3>2. "starved" \in Progress \ {"waiting", "none"}
      OBVIOUS
    <3> HIDE DEF TypeOK, CallsTypeOK, Progress
    <3> QED
      BY <3>1, <3>2
  <2>3. CASE Respond(r, u)
    <3>1. PICK answer \in (IF u \in healthy THEN {"answered"} ELSE Answers) :
            Progresses(r, u, "open", answer)
      BY <2>3 DEF Respond
    <3> QED
      BY <3>1
  <2> QED
    BY <1>1, <2>1, <2>2, <2>3
<1>3. \A s \in Requests, v \in Upstreams :
        call'[s][v] = IF s = r /\ v = u THEN to ELSE call[s][v]
  BY <1>2
<1>4. call' \in [Requests -> [Upstreams -> Progress]]
  BY <1>2
<1>5. Open \in SUBSET (Requests \X Upstreams) /\ IsFiniteSet(Open) /\ Cardinality(Open) \in Nat
  BY FS_CardinalityType DEF Calling, Open
<1>6. Open' \subseteq Open \cup {<<r, u>>}
  BY <1>3 DEF Open
<1>7. IsFiniteSet(Open') /\ Cardinality(Open') <= Connections
  <2>1. CASE to = "open"
    <3>1. IsFiniteSet(Open \cup {<<r, u>>}) /\ Cardinality(Open \cup {<<r, u>>}) <= Connections
      <4>1. Cardinality(Open) < Connections
        BY <1>2, <1>5, <2>1 DEF Exhausted
      <4>2. /\ IsFiniteSet(Open \cup {<<r, u>>})
            /\ Cardinality(Open \cup {<<r, u>>}) =
                 IF <<r, u>> \in Open THEN Cardinality(Open) ELSE Cardinality(Open) + 1
        BY <1>5, FS_AddElement
      <4> QED
        BY <1>5, <4>1, <4>2
    <3>2. IsFiniteSet(Open') /\ Cardinality(Open') <= Cardinality(Open \cup {<<r, u>>})
      BY <1>6, <3>1, FS_Subset
    <3>3. Cardinality(Open') \in Nat /\ Cardinality(Open \cup {<<r, u>>}) \in Nat
      BY <3>1, <3>2, FS_CardinalityType
    <3> QED
      BY <3>1, <3>2, <3>3
  <2>2. CASE to # "open"
    <3>1. Open' \in SUBSET Open
      BY <1>3, <2>2 DEF Open
    <3>2. IsFiniteSet(Open') /\ Cardinality(Open') <= Cardinality(Open)
      BY <1>5, <3>1, FS_Subset
    <3>3. Cardinality(Open') \in Nat
      BY <3>2, FS_CardinalityType
    <3> QED
      BY <1>5, <3>2, <3>3
  <2> QED
    BY <2>1, <2>2
<1>8. Calling'
  BY <1>2, <1>3, <1>7 DEF Calling, Pending
<1>9. \A s \in Requests : (\A v \in Upstreams : call[s][v] \notin Pending) => call'[s] = call[s]
  BY <1>2
<1> QED
  BY <1>2, <1>3, <1>4, <1>7, <1>8, <1>9

-----------------------------------------------------------------------------
(* IInv is inductive                                                       *)

\* Three ways not to wait for the network.
LEMMA NoCalls ==
  ASSUME IInv, NEW r \in Requests,
         \/ pc[r] \notin {"fetching", "calling", "gathering"}
         \/ pc[r] \in {"fetching", "calling"} /\ Ended(r, {Identity})
         \/ pc[r] = "gathering" /\ Ended(r, Sources)
  PROVE  \A u \in Upstreams : call[r][u] \notin Pending
  BY ConstantsAssumption DEF IInv, Calling, Ended, Outcomes, Answers, Pending

\* Why a snapshot lacks a source, why it is lost, and why another request fails.
Missed(r, s) ==
  \/ s \notin healthy /\ call[r][s] \in {"failed", "malformed"}
  \/ call[r][s] = "starved"
Unwritten(r) == \E s \in Sources \ healthy : call[r][s] = "unencodable"
Failed(r) ==
  \/ Identity \notin healthy /\ call[r][Identity] \in Wrong
  \/ call[r][Identity] = "starved"

\* What a request that starts no call and keeps its endpoint must see to.
LEMMA MoveInv ==
  ASSUME IInv, NEW r \in Requests,
         NEW to \in (Waiting \cup Responses) \ {"fetching", "calling", "gathering"},
         pc' = [pc EXCEPT ![r] = to], UNCHANGED <<calls, endpoint>>,
         ThreadsTypeOK', Threading',
         \A u \in Upstreams : call[r][u] \notin Pending,
         lock' \in Seq(Requests), Locking', cached' \in BOOLEAN,
         reported' \in [Requests -> SUBSET Sources],
         \A s \in Requests : s # r => reported'[s] = reported[s],
         endpoint[r] = "company" =>
           /\ to \in {"ready", "ok", "refused", "error"}
           /\ to = "error" => Unwritten(r)
           /\ to = "ok" => \A s \in Sources \ reported'[r] : Missed(r, s),
         to \in {"error", "bad_gateway"} => endpoint[r] = "company" \/ Failed(r)
  PROVE  IInv'
<1>1. healthy' = healthy /\ call' = call /\ endpoint' = endpoint
  BY DEF calls
<1>2. /\ pc'[r] = to /\ \A s \in Requests : s # r => pc'[s] = pc[s]
      /\ pc' \in [Requests -> Waiting \cup Responses \cup {"idle"}]
  BY DEF IInv, TypeOK
<1>3. CallsTypeOK' /\ Calling'
  BY <1>2, KeepCalls DEF IInv
<1>4. TypeOK'
  BY <1>1, <1>2, <1>3 DEF IInv, TypeOK, ThreadsTypeOK
<1>5. Routes'
  BY <1>1, <1>2 DEF IInv, Routes
<1>6. SourcesIsolated'
  BY <1>1, <1>2 DEF IInv, SourcesIsolated, Missed, Unwritten
<1>7. FailuresAreOwn'
  BY <1>1, <1>2 DEF IInv, FailuresAreOwn, Failed, Unwritten, Wrong, Answers
<1>8. Dialled'
  BY <1>1, <1>2 DEF IInv, Dialled
<1> QED
  BY <1>3, <1>4, <1>5, <1>6, <1>7, <1>8 DEF IInv

\* The lock stays with its holder, and the others in its queue stay there.
LEMMA KeepLocking ==
  ASSUME IInv, NEW r \in Requests, NEW to, pc' = [pc EXCEPT ![r] = to], lock' = lock,
         pc[r] \in AtLock <=> to \in AtLock, to = "fetching" => HasLock(r)
  PROVE  lock' \in Seq(Requests) /\ Locking'
<1>1. pc'[r] = to /\ \A s \in Requests : s # r => pc'[s] = pc[s]
  BY DEF IInv, TypeOK
<1>2. \A s \in Requests : pc'[s] \in AtLock <=> pc[s] \in AtLock
  BY <1>1
<1>3. \A s \in Requests : pc'[s] = "fetching" => HasLock(s)'
  BY <1>1 DEF IInv, Locking, HasLock
<1> QED
  BY <1>2, <1>3 DEF IInv, TypeOK, Locking

\* A request joins the queue of the lock.
LEMMA JoinLocking ==
  ASSUME IInv, NEW r \in Requests, pc[r] \notin AtLock, pc' = [pc EXCEPT ![r] = "locked_out"],
         lock' = Append(lock, r)
  PROVE  lock' \in Seq(Requests) /\ Locking'
<1>1. pc'[r] = "locked_out" /\ \A s \in Requests : s # r => pc'[s] = pc[s]
  BY DEF IInv, TypeOK
<1>2. /\ lock \in Seq(Requests) /\ lock' \in Seq(Requests)
      /\ Len(lock) \in Nat /\ Len(lock') = Len(lock) + 1 /\ lock'[Len(lock) + 1] = r
      /\ \A i \in 1..Len(lock) : lock'[i] = lock[i]
  BY DEF IInv, TypeOK
<1>3. \A i \in 1..Len(lock') : i \in 1..Len(lock) \/ i = Len(lock) + 1
  BY <1>2
<1>4. \A i \in 1..Len(lock) : lock[i] \in Requests /\ pc[lock[i]] \in AtLock /\ lock[i] # r
  BY DEF IInv, Locking
<1>5. \A i \in 1..Len(lock') : lock'[i] \in Requests /\ pc'[lock'[i]] \in AtLock
  BY <1>1, <1>2, <1>3, <1>4 DEF AtLock
<1>6. \A i, j \in 1..Len(lock') : lock'[i] = lock'[j] => i = j
  <2> SUFFICES ASSUME NEW i \in 1..Len(lock'), NEW j \in 1..Len(lock'), lock'[i] = lock'[j]
               PROVE  i = j
    OBVIOUS
  <2>1. CASE i \in 1..Len(lock) /\ j \in 1..Len(lock)
    BY <1>2, <2>1 DEF IInv, Locking
  <2>2. CASE i = Len(lock) + 1 \/ j = Len(lock) + 1
    BY <1>2, <1>3, <1>4, <2>2
  <2> QED
    BY <1>3, <2>1, <2>2
<1>7. ASSUME NEW s \in Requests, pc'[s] \in AtLock PROVE \E i \in 1..Len(lock') : lock'[i] = s
  <2>1. CASE s = r
    BY <1>2, <2>1
  <2>2. CASE s # r
    <3>1. PICK i \in 1..Len(lock) : lock[i] = s
      BY <1>1, <1>7, <2>2 DEF IInv, Locking
    <3> QED
      BY <1>2, <3>1
  <2> QED
    BY <2>1, <2>2
<1>8. ASSUME NEW s \in Requests, pc'[s] = "fetching" PROVE HasLock(s)'
  <2>1. pc[s] = "fetching"
    BY <1>1, <1>8
  <2>2. lock # <<>> /\ Head(lock) = s
    BY <2>1 DEF IInv, Locking, HasLock
  <2>3. lock' # <<>> /\ Head(lock') = Head(lock)
    BY <1>2, <2>2
  <2> QED
    BY <2>2, <2>3 DEF HasLock
<1> QED
  BY <1>2, <1>5, <1>6, <1>7, <1>8 DEF Locking

\* The holder releases the lock, and nobody else is fetching.
LEMMA ReleaseLocking ==
  ASSUME IInv, NEW r \in Requests, HasLock(r), NEW to, to \notin AtLock,
         pc' = [pc EXCEPT ![r] = to], lock' = Tail(lock)
  PROVE  lock' \in Seq(Requests) /\ Locking'
<1>1. pc'[r] = to /\ \A s \in Requests : s # r => pc'[s] = pc[s]
  BY DEF IInv, TypeOK
<1>2. /\ Len(lock) \in Nat /\ Len(lock) >= 1 /\ r = lock[1]
      /\ lock' \in Seq(Requests) /\ Len(lock') = Len(lock) - 1
      /\ \A i \in 1..(Len(lock) - 1) : lock'[i] = lock[i + 1]
  BY QueueFacts DEF IInv, TypeOK, HasLock
<1>3. \A i \in 1..Len(lock') : i + 1 \in 1..Len(lock) /\ i + 1 # 1 /\ lock'[i] = lock[i + 1]
  BY <1>2
<1>4. /\ \A i \in 1..Len(lock) : lock[i] \in Requests /\ pc[lock[i]] \in AtLock
      /\ \A i, j \in 1..Len(lock) : lock[i] = lock[j] => i = j
      /\ \A s \in Requests : pc[s] \in AtLock => \E i \in 1..Len(lock) : lock[i] = s
      /\ \A s \in Requests : pc[s] = "fetching" => s = r
  BY DEF IInv, Locking, HasLock
<1>5. \A i \in 1..Len(lock') : lock'[i] # r
  BY <1>2, <1>3, <1>4
<1>6. \A i \in 1..Len(lock') : lock'[i] \in Requests /\ pc'[lock'[i]] \in AtLock
  BY <1>1, <1>3, <1>4, <1>5
<1>7. \A i, j \in 1..Len(lock') : lock'[i] = lock'[j] => i = j
  <2> SUFFICES ASSUME NEW i \in 1..Len(lock'), NEW j \in 1..Len(lock'), lock'[i] = lock'[j]
               PROVE  i = j
    OBVIOUS
  <2>1. i + 1 = j + 1
    BY <1>3, <1>4
  <2> QED
    BY <1>2, <2>1
<1>8. ASSUME NEW s \in Requests, pc'[s] \in AtLock PROVE \E i \in 1..Len(lock') : lock'[i] = s
  <2>1. s # r /\ pc[s] \in AtLock
    BY <1>1, <1>8
  <2>2. PICK i \in 1..Len(lock) : lock[i] = s
    BY <1>4, <2>1
  <2>3. i - 1 \in 1..Len(lock') /\ lock'[i - 1] = lock[(i - 1) + 1] /\ (i - 1) + 1 = i
    BY <1>2, <2>1, <2>2
  <2> QED
    BY <2>2, <2>3
<1>9. \A s \in Requests : pc'[s] # "fetching"
  BY <1>1, <1>4 DEF AtLock
<1> QED
  BY <1>2, <1>6, <1>7, <1>8, <1>9 DEF Locking

\* A function in a thread has returned.
LEMMA ResumeInv ==
  ASSUME IInv, NEW r \in Requests, Resume(r)
  PROVE  IInv'
<1>1. PICK to \in {"verifying", "ready", "ok"} :
        /\ pc[r] \in OnThread /\ pc' = [pc EXCEPT ![r] = to]
        /\ to = "verifying" => pc[r] = "jwks_dependency"
        /\ to = "ok" => pc[r] = "counting"
  BY DEF Resume, Goto, OnThread
<1>2. Return(r) /\ UNCHANGED <<calls, endpoint, reported, cached, lock>>
  BY DEF Resume, request
<1>3. ThreadsTypeOK' /\ Threading'
  <2>1. to \notin OnThread
    BY <1>1 DEF OnThread
  <2> QED
    BY <1>1, <1>2, <2>1, ReturnThreads DEF IInv
<1>4. lock' \in Seq(Requests) /\ Locking'
  <2>1. pc[r] \notin AtLock /\ to \notin AtLock /\ to # "fetching"
    BY <1>1 DEF OnThread, AtLock
  <2> QED
    BY <1>1, <1>2, <2>1, KeepLocking
<1>5. \A u \in Upstreams : call[r][u] \notin Pending
  BY <1>1, NoCalls DEF OnThread
<1>6. endpoint[r] = "company" => to = "ready"
  BY <1>1 DEF IInv, Routes
<1>7. to \in (Waiting \cup Responses) \ {"fetching", "calling", "gathering"}
  BY DEF Waiting, Responses
<1>8. cached' \in BOOLEAN /\ reported' \in [Requests -> SUBSET Sources] /\ reported' = reported
  BY <1>2 DEF IInv, TypeOK
<1> QED
  BY <1>1, <1>2, <1>3, <1>4, <1>5, <1>6, <1>7, <1>8, MoveInv

\* The claims are verified, with a cached key or one that was fetched for somebody else.
LEMMA VerdictInv ==
  ASSUME IInv, NEW r \in Requests, Hit(r) \/ FindKey(r) \/ Miss(r)
  PROVE  IInv'
<1>1. PICK to \in {"refused", "admitted", "ok", "locked_out"} :
        /\ pc[r] \in {"verifying", "locked_out"} /\ pc' = [pc EXCEPT ![r] = to]
        /\ \/ Hit(r) /\ pc[r] = "verifying" /\ to # "locked_out" /\ lock' = lock
           \/ Miss(r) /\ pc[r] = "verifying" /\ to = "locked_out" /\ lock' = Append(lock, r)
           \/ FindKey(r) /\ HasLock(r) /\ to # "locked_out" /\ lock' = Tail(lock)
  BY DEF Hit, FindKey, Miss, Verdict, Goto
<1>2. UNCHANGED <<threads, calls, endpoint, reported, cached>>
  BY DEF Hit, FindKey, Miss, request
<1>3. pc[r] = "verifying" => pc[r] \notin AtLock
  BY DEF AtLock
<1>4. lock' \in Seq(Requests) /\ Locking'
  <2>1. to # "locked_out" => to \notin AtLock
    BY <1>1 DEF AtLock
  <2>2. to # "locked_out" => to # "fetching"
    BY <1>1
  <2> QED
    BY <1>1, <1>3, <2>1, <2>2, KeepLocking, JoinLocking, ReleaseLocking
<1>5. ThreadsTypeOK' /\ Threading'
  <2>1. \A s \in Requests : pc[s] \in OnThread <=> pc'[s] \in OnThread
    BY <1>1 DEF IInv, TypeOK, OnThread
  <2> QED
    BY <1>2, <2>1, KeepThreads DEF IInv
<1>6. \A u \in Upstreams : call[r][u] \notin Pending
  BY <1>1, NoCalls
<1>7. endpoint[r] # "company"
  BY <1>1 DEF IInv, Routes
<1>8. to \in (Waiting \cup Responses) \ {"fetching", "calling", "gathering"}
  BY DEF Waiting, Responses, OnNetwork
<1>9. cached' \in BOOLEAN /\ reported' \in [Requests -> SUBSET Sources] /\ reported' = reported
  BY <1>2 DEF IInv, TypeOK
<1> QED
  BY <1>1, <1>2, <1>4, <1>5, <1>6, <1>7, <1>8, <1>9, MoveInv

\* The end of a fetch: its exception is for the one who fetched.
LEMMA StoreKeysInv ==
  ASSUME IInv, NEW r \in Requests, StoreKeys(r)
  PROVE  IInv'
<1>1. PICK to \in {"refused", "admitted", "ok", "error"} :
        /\ pc[r] = "fetching" /\ pc' = [pc EXCEPT ![r] = to]
        /\ to = "error" => call[r][Identity] \notin Processed
  BY DEF StoreKeys, Verdict, Goto
<1>2. /\ UNCHANGED <<threads, calls, endpoint, reported>> /\ lock' = Tail(lock)
      /\ Ended(r, {Identity}) /\ cached' \in BOOLEAN
  BY DEF StoreKeys, request, IInv, TypeOK
<1>3. HasLock(r)
  BY <1>1 DEF IInv, Locking
<1>4. lock' \in Seq(Requests) /\ Locking'
  <2>1. to \notin AtLock
    BY <1>1 DEF AtLock
  <2> QED
    BY <1>1, <1>2, <1>3, <2>1, ReleaseLocking
<1>5. ThreadsTypeOK' /\ Threading'
  <2>1. \A s \in Requests : pc[s] \in OnThread <=> pc'[s] \in OnThread
    BY <1>1 DEF IInv, TypeOK, OnThread
  <2> QED
    BY <1>2, <2>1, KeepThreads DEF IInv
<1>6. \A u \in Upstreams : call[r][u] \notin Pending
  BY <1>1, <1>2, NoCalls
<1>7. endpoint[r] # "company"
  BY <1>1 DEF IInv, Routes
<1>8. to \in (Waiting \cup Responses) \ {"fetching", "calling", "gathering"}
  BY DEF Waiting, Responses
<1>9. reported' \in [Requests -> SUBSET Sources] /\ reported' = reported
  BY <1>2 DEF IInv, TypeOK
<1>10. to = "error" => Failed(r)
  BY <1>1, <1>2, ConstantsAssumption
     DEF Ended, Outcomes, Answers, Processed, Wrong, Failed, IInv, Calling
<1> QED
  BY <1>1, <1>2, <1>4, <1>5, <1>6, <1>7, <1>8, <1>9, <1>10, MoveInv

\* GET /profile needs a thread once more.
LEMMA AdmitInv ==
  ASSUME IInv, NEW r \in Requests, Admit(r)
  PROVE  IInv'
<1>1. /\ pc[r] = "admitted" /\ pc' = [pc EXCEPT ![r] = "http_dependency"] /\ Submit(r)
      /\ UNCHANGED <<calls, endpoint, reported, cached, lock>>
  BY DEF Admit, Goto, request
<1>2. ThreadsTypeOK' /\ Threading'
  BY <1>1, SubmitThreads DEF IInv, OnThread
<1>3. lock' \in Seq(Requests) /\ Locking'
  <2>1. pc[r] \notin AtLock /\ "http_dependency" \notin AtLock
    BY <1>1 DEF AtLock
  <2> QED
    BY <1>1, <2>1, KeepLocking
<1>4. \A u \in Upstreams : call[r][u] \notin Pending
  BY <1>1, NoCalls
<1>5. endpoint[r] # "company"
  BY <1>1 DEF IInv, Routes
<1>6. cached' \in BOOLEAN /\ reported' \in [Requests -> SUBSET Sources] /\ reported' = reported
  BY <1>1 DEF IInv, TypeOK
<1>7. "http_dependency" \in (Waiting \cup Responses) \ {"fetching", "calling", "gathering"}
  BY DEF Waiting, OnThread
<1> QED
  BY <1>1, <1>2, <1>3, <1>4, <1>5, <1>6, <1>7, MoveInv

\* The answers to /profile and /aggregate/company.
LEMMA AnswerInv ==
  ASSUME IInv, NEW r \in Requests, Profile(r) \/ RefuseCompany(r) \/ Snapshot(r)
  PROVE  IInv'
<1>1. /\ UNCHANGED <<threads, calls, endpoint, cached, lock>>
      /\ \/ UNCHANGED reported
         \/ Snapshot(r) /\ reported' = [reported EXCEPT ![r] = Succeeded(r)]
  BY DEF Profile, RefuseCompany, Snapshot, request
<1>2. PICK to \in {"ok", "error", "bad_gateway", "refused"} :
        /\ pc[r] \in {"calling", "ready", "gathering"} /\ pc' = [pc EXCEPT ![r] = to]
        /\ to \in {"error", "bad_gateway"} =>
             \/ Profile(r) /\ Ended(r, {Identity}) /\ call[r][Identity] # "answered"
             \/ pc[r] = "gathering" /\ Snapshot(r) /\ to = "error" /\ ~Encodable(r)
        /\ endpoint[r] = "company" /\ to = "ok" =>
             \/ Profile(r)
             \/ Snapshot(r) /\ Encodable(r) /\ reported' = [reported EXCEPT ![r] = Succeeded(r)]
  BY DEF Profile, RefuseCompany, Snapshot, Goto
<1>3. \A u \in Upstreams : call[r][u] \notin Pending
  BY <1>2, NoCalls DEF Profile, RefuseCompany, Snapshot, Goto
<1>4. ThreadsTypeOK' /\ Threading'
  <2>1. \A s \in Requests : pc[s] \in OnThread <=> pc'[s] \in OnThread
    BY <1>2 DEF IInv, TypeOK, OnThread
  <2> QED
    BY <1>1, <2>1, KeepThreads DEF IInv
<1>5. lock' \in Seq(Requests) /\ Locking'
  <2>1. pc[r] \notin AtLock /\ to \notin AtLock /\ to # "fetching"
    BY <1>2 DEF AtLock
  <2> QED
    BY <1>1, <1>2, <2>1, KeepLocking
<1>6. Succeeded(r) \subseteq Sources
  BY DEF Succeeded
<1>7. /\ cached' \in BOOLEAN /\ reported' \in [Requests -> SUBSET Sources]
      /\ \A s \in Requests : s # r => reported'[s] = reported[s]
  BY <1>1, <1>6 DEF IInv, TypeOK
<1>8. ASSUME endpoint[r] = "company"
      PROVE  /\ to \in {"ready", "ok", "refused", "error"}
             /\ to = "error" => Unwritten(r)
             /\ to = "ok" => \A s \in Sources \ reported'[r] : Missed(r, s)
  <2>1. ~Profile(r)
    BY <1>8 DEF Profile, Goto, IInv, Routes
  <2>2. ASSUME to = "error" PROVE Unwritten(r)
    <3>1. PICK s \in Sources : call[r][s] = "unencodable"
      BY <1>2, <2>1, <2>2 DEF Encodable
    <3> QED
      BY <3>1, ConstantsAssumption DEF Unwritten, IInv, Calling, Wrong
  <2>3. ASSUME to = "ok", NEW s \in Sources \ reported'[r] PROVE Missed(r, s)
    <3>1. Snapshot(r) /\ Encodable(r) /\ reported'[r] = Succeeded(r)
      BY <1>2, <1>8, <2>1, <2>3 DEF IInv, TypeOK
    <3>2. call[r][s] \in Outcomes \ Processed
      BY <3>1 DEF Snapshot, Ended, Succeeded, Encodable
    <3> QED
      BY <3>2, ConstantsAssumption
         DEF Missed, Outcomes, Answers, Processed, Wrong, IInv, Calling
  <2>4. to # "bad_gateway"
    BY <1>2, <2>1
  <2> QED
    BY <1>2, <2>2, <2>3, <2>4
<1>9. to \in {"error", "bad_gateway"} => endpoint[r] = "company" \/ Failed(r)
  <2>1. pc[r] = "gathering" => endpoint[r] = "company"
    BY DEF IInv, Routes
  <2>2. Ended(r, {Identity}) /\ call[r][Identity] # "answered" => Failed(r)
    BY ConstantsAssumption DEF Failed, Ended, Outcomes, Answers, Wrong, IInv, Calling
  <2> QED
    BY <1>2, <2>1, <2>2
<1>10. to \in (Waiting \cup Responses) \ {"fetching", "calling", "gathering"}
  BY DEF Waiting, Responses
<1> QED
  BY <1>1, <1>2, <1>3, <1>4, <1>5, <1>7, <1>8, <1>9, <1>10, MoveInv

\* A request starts calls: for the keys, the profile or the sources.
LEMMA DialInv ==
  ASSUME IInv, NEW r \in Requests, FetchKeys(r) \/ CallIdentity(r) \/ Gather(r)
  PROVE  IInv'
<1>1. PICK to \in {"fetching", "calling", "gathering"}, us \in {{Identity}, Sources} :
        /\ pc[r] \in {"locked_out", "ready"} /\ pc' = [pc EXCEPT ![r] = to] /\ Dial(r, us)
        /\ to = "fetching" => HasLock(r) /\ pc[r] = "locked_out" /\ us = {Identity}
        /\ to # "fetching" => pc[r] = "ready"
        /\ to = "calling" => endpoint[r] = "profile" /\ us = {Identity}
        /\ to = "gathering" => endpoint[r] = "company" /\ us = Sources
  BY DEF FetchKeys, CallIdentity, Gather, Goto
<1>2. UNCHANGED <<threads, healthy, endpoint, reported, cached, lock>>
  BY DEF FetchKeys, CallIdentity, Gather, request
<1>3. /\ pc'[r] = to /\ \A s \in Requests : s # r => pc'[s] = pc[s]
      /\ pc' \in [Requests -> Waiting \cup Responses \cup {"idle"}]
  BY <1>1 DEF IInv, TypeOK, Waiting, OnNetwork
<1>4. CallsTypeOK' /\ Calling'
  <2>1. us \in SUBSET Upstreams
    BY ConstantsAssumption
  <2> QED
    BY <1>1, <1>2, <2>1, DialCalls DEF IInv
<1>5. \A s \in Requests : s # r => call'[s] = call[s]
  BY <1>1 DEF Dial, IInv, TypeOK, CallsTypeOK
<1>6. ThreadsTypeOK' /\ Threading'
  <2>1. \A s \in Requests : pc[s] \in OnThread <=> pc'[s] \in OnThread
    BY <1>1, <1>3 DEF OnThread
  <2> QED
    BY <1>2, <2>1, KeepThreads DEF IInv
<1>7. TypeOK'
  BY <1>2, <1>3, <1>4, <1>6 DEF IInv, TypeOK, ThreadsTypeOK
<1>8. Routes'
  BY <1>1, <1>2, <1>3 DEF IInv, Routes
<1>9. Locking'
  <2>1. pc[r] \in AtLock <=> to \in AtLock
    BY <1>1 DEF AtLock
  <2> QED
    BY <1>1, <1>2, <2>1, KeepLocking
<1>10. Dialled'
  <2>1. us \subseteq Upstreams /\ \A u \in us : call'[r][u] = "waiting"
    BY <1>1, ConstantsAssumption DEF Dial, IInv, TypeOK, CallsTypeOK
  <2> QED
    BY <1>1, <1>3, <1>5, <2>1 DEF IInv, Dialled
<1>11. SourcesIsolated' /\ FailuresAreOwn'
  BY <1>1, <1>2, <1>3, <1>5 DEF IInv, SourcesIsolated, FailuresAreOwn
<1> QED
  BY <1>4, <1>6, <1>7, <1>8, <1>9, <1>10, <1>11 DEF IInv

\* A request is answered, and its connection free for another.
LEMMA FinishInv ==
  ASSUME IInv, NEW r \in Requests, Finish(r)
  PROVE  IInv'
<1>1. /\ pc[r] \in Responses /\ pc' = [pc EXCEPT ![r] = "idle"] /\ Dial(r, {})
      /\ endpoint' = [endpoint EXCEPT ![r] = "primes"]
      /\ reported' = [reported EXCEPT ![r] = {}]
      /\ UNCHANGED <<threads, healthy, cached, lock>>
  BY DEF Finish
<1>2. /\ pc'[r] = "idle" /\ \A s \in Requests : s # r => pc'[s] = pc[s]
      /\ pc' \in [Requests -> Waiting \cup Responses \cup {"idle"}]
  BY <1>1 DEF IInv, TypeOK
<1>3. CallsTypeOK' /\ Calling'
  <2>1. {} \in SUBSET Upstreams /\ healthy' = healthy
    BY <1>1
  <2>2. TypeOK /\ Calling
    BY DEF IInv
  <2> QED
    BY <1>1, <2>1, <2>2, DialCalls
<1>4. \A s \in Requests : s # r =>
        call'[s] = call[s] /\ endpoint'[s] = endpoint[s] /\ reported'[s] = reported[s]
  BY <1>1 DEF Dial, IInv, TypeOK, CallsTypeOK
<1>5. endpoint'[r] = "primes" /\ endpoint' \in [Requests -> Endpoints]
      /\ reported' \in [Requests -> SUBSET Sources]
  BY <1>1 DEF IInv, TypeOK, Endpoints
<1>6. ThreadsTypeOK' /\ Threading'
  <2>1. \A s \in Requests : pc[s] \in OnThread <=> pc'[s] \in OnThread
    BY <1>1, <1>2 DEF OnThread, Responses
  <2> QED
    BY <1>1, <2>1, KeepThreads DEF IInv
<1>7. TypeOK'
  BY <1>1, <1>2, <1>3, <1>5, <1>6 DEF IInv, TypeOK, ThreadsTypeOK
<1>8. Routes' /\ Dialled'
  BY <1>1, <1>2, <1>4, <1>5 DEF IInv, Routes, Dialled
<1>9. Locking'
  <2>1. pc[r] \notin AtLock /\ "idle" \notin AtLock
    BY <1>1 DEF Responses, AtLock
  <2> QED
    BY <1>1, <2>1, KeepLocking
<1>10. SourcesIsolated' /\ FailuresAreOwn'
  BY <1>1, <1>2, <1>4, <1>5 DEF IInv, SourcesIsolated, FailuresAreOwn
<1> QED
  BY <1>3, <1>6, <1>7, <1>8, <1>9, <1>10 DEF IInv

\* A request comes, and is refused or asks for a thread.
LEMMA ArriveInv ==
  ASSUME IInv, NEW r \in Requests, NEW e \in Endpoints, Refuse(r, e) \/ Accept(r, e)
  PROVE  IInv'
<1>1. PICK to \in OnThread \cup {"refused"} :
        /\ pc[r] = "idle" /\ pc' = [pc EXCEPT ![r] = to]
        /\ endpoint' = [endpoint EXCEPT ![r] = e]
        /\ UNCHANGED <<calls, cached, lock, reported>>
        /\ IF to = "refused" THEN UNCHANGED threads ELSE Submit(r)
        /\ e = "company" => to = "http_dependency"
  <2>1. CASE Refuse(r, e)
    BY <2>1 DEF Refuse, Arrive, Goto, Protected
  <2>2. CASE Accept(r, e)
    BY <2>2 DEF Accept, Arrive, Goto, OnThread, Endpoints, Protected
  <2> QED
    BY <2>1, <2>2
<1>2. /\ pc'[r] = to /\ \A s \in Requests : s # r => pc'[s] = pc[s] /\ endpoint'[s] = endpoint[s]
      /\ pc' \in [Requests -> Waiting \cup Responses \cup {"idle"}]
      /\ endpoint'[r] = e /\ endpoint' \in [Requests -> Endpoints]
      /\ to \notin {"fetching", "calling", "gathering", "ok", "error", "bad_gateway"}
  BY <1>1 DEF IInv, TypeOK, Waiting, Responses, OnThread
<1>3. healthy' = healthy /\ call' = call /\ reported' = reported /\ cached' = cached /\ lock' = lock
  BY <1>1 DEF calls
<1>4. CallsTypeOK' /\ Calling'
  <2>1. \A u \in Upstreams : call[r][u] \notin Pending
    BY <1>1, NoCalls
  <2> QED
    BY <1>1, <1>2, <2>1, KeepCalls DEF IInv
<1>5. ThreadsTypeOK' /\ Threading'
  <2>1. CASE to = "refused"
    <3>1. \A s \in Requests : pc[s] \in OnThread <=> pc'[s] \in OnThread
      BY <1>1, <1>2, <2>1 DEF OnThread
    <3> QED
      BY <1>1, <2>1, <3>1, KeepThreads DEF IInv
  <2>2. CASE to # "refused"
    <3>1. pc[r] \notin OnThread /\ to \in OnThread
      BY <1>1, <2>2 DEF OnThread
    <3> QED
      BY <1>1, <2>2, <3>1, SubmitThreads DEF IInv
  <2> QED
    BY <2>1, <2>2
<1>6. TypeOK'
  BY <1>2, <1>3, <1>4, <1>5 DEF IInv, TypeOK, ThreadsTypeOK
<1>7. Routes' /\ Dialled'
  BY <1>1, <1>2, <1>3 DEF IInv, Routes, Dialled
<1>8. Locking'
  <2>1. pc[r] \notin AtLock /\ to \notin AtLock /\ to # "fetching"
    BY <1>1 DEF OnThread, AtLock
  <2> QED
    BY <1>1, <2>1, KeepLocking
<1>9. SourcesIsolated' /\ FailuresAreOwn'
  BY <1>1, <1>2, <1>3 DEF IInv, SourcesIsolated, FailuresAreOwn
<1> QED
  BY <1>4, <1>5, <1>6, <1>7, <1>8, <1>9 DEF IInv

\* What an answered request has been told stays what it was told.
LEMMA CallInv ==
  ASSUME IInv, NEW r \in Requests, Call(r)
  PROVE  IInv'
<1>1. Network(r) /\ UNCHANGED <<threads, pc, endpoint, reported, cached, lock>>
  BY DEF Call, request
<1>2. /\ CallsTypeOK' /\ Calling' /\ healthy' = healthy
      /\ \A s \in Requests : (\A u \in Upstreams : call[s][u] \notin Pending) => call'[s] = call[s]
      /\ \A s \in Requests, u \in Upstreams : call[s][u] # "none" => call'[s][u] # "none"
  BY <1>1, NetworkCalls DEF IInv
<1>3. ThreadsTypeOK' /\ Threading'
  BY <1>1, KeepThreads DEF IInv
<1>4. TypeOK'
  BY <1>1, <1>2, <1>3 DEF IInv, TypeOK, ThreadsTypeOK
<1>5. Routes' /\ Locking' /\ Dialled'
  BY <1>1, <1>2, ConstantsAssumption DEF IInv, Routes, Locking, HasLock, Dialled
<1>6. \A s \in Requests : pc[s] \in {"ok", "error", "bad_gateway"} => call'[s] = call[s]
  BY <1>2, NoCalls
<1>7. SourcesIsolated' /\ FailuresAreOwn'
  BY <1>1, <1>2, <1>6 DEF IInv, SourcesIsolated, FailuresAreOwn
<1> QED
  BY <1>2, <1>3, <1>4, <1>5, <1>7 DEF IInv

\* Nothing but the cache changes, or nothing at all.
LEMMA StutterInv ==
  ASSUME IInv, UNCHANGED <<threads, calls, pc, request, lock>>, cached' \in BOOLEAN
  PROVE  IInv'
<1>1. UNCHANGED <<working, queue, healthy, call, pc, endpoint, reported, lock>>
  BY DEF threads, calls, request
<1>2. Open' = Open
  BY <1>1 DEF Open
<1>3. TypeOK'
  BY <1>1, <1>2 DEF IInv, TypeOK, ThreadsBounded, CallsTypeOK
<1>4. Threading' /\ Calling'
  BY <1>1, <1>2 DEF IInv, Threading, Calling
<1>5. Routes' /\ Locking' /\ Dialled' /\ SourcesIsolated' /\ FailuresAreOwn'
  BY <1>1 DEF IInv, Routes, Locking, HasLock, Dialled, SourcesIsolated, FailuresAreOwn
<1> QED
  BY <1>3, <1>4, <1>5 DEF IInv

\* No request has come when the process starts.
LEMMA InitInv == Init => IInv
<1> SUFFICES ASSUME Init PROVE IInv
  OBVIOUS
<1> USE ThreadsAssumption, CallsAssumption, ConstantsAssumption
        DEF Init, ThreadsInit, CallsInit
<1>1. Open = {}
  BY DEF Open
<1>2. IsFiniteSet({}) /\ Cardinality({}) = 0
  BY FS_EmptySet
<1>3. TypeOK
  <2>1. working \subseteq Requests /\ queue \in Seq(Requests) /\ lock \in Seq(Requests)
    OBVIOUS
  <2>2. ThreadsBounded
    BY <1>2 DEF ThreadsBounded
  <2>3. CallsTypeOK
    BY <1>1, <1>2 DEF CallsTypeOK, Progress
  <2> QED
    BY <2>1, <2>2, <2>3 DEF TypeOK, Endpoints
<1>4. Threading /\ Calling
  BY <1>1, <1>2 DEF Threading, Calling, Pending, Wrong, OnThread
<1>5. Routes /\ Locking /\ Dialled /\ SourcesIsolated /\ FailuresAreOwn
  BY DEF Routes, Locking, AtLock, Dialled, SourcesIsolated, FailuresAreOwn
<1> QED
  BY <1>3, <1>4, <1>5 DEF IInv

\* Every step preserves the invariant.
LEMMA NextInv == IInv /\ [Next]_vars => IInv'
<1> SUFFICES ASSUME IInv, [Next]_vars PROVE IInv'
  OBVIOUS
<1>1. ASSUME NEW r \in Requests, Handle(r) PROVE IInv'
  BY <1>1, ResumeInv, VerdictInv, StoreKeysInv, AdmitInv, AnswerInv, DialInv DEF Handle
<1>2. ASSUME NEW r \in Requests, NEW e \in Calls[r], Refuse(r, e) \/ Accept(r, e) PROVE IInv'
  BY <1>2, ArriveInv, ConstantsAssumption
<1>3. CASE ReplaceKey \/ UNCHANGED vars
  BY <1>3, StutterInv DEF ReplaceKey, vars, IInv, TypeOK
<1> QED
  BY <1>1, <1>2, <1>3, FinishInv, CallInv DEF Next

\* The invariant holds of every reachable state.
LEMMA Invariance == Spec => []IInv
  BY InitInv, NextInv, PTL DEF Spec

-----------------------------------------------------------------------------
(* Who shares a failure                                                    *)

\* The types of the variables; threads and connections are never more than there are.
THEOREM TypeCorrectness == Spec => []TypeOK
<1>1. IInv => TypeOK
  BY DEF IInv
<1> QED
  BY <1>1, Invariance, PTL

\* A failed source is missing from a snapshot and does no more harm, unless it sent a
\* 200 that cannot be encoded (aggregation.py:83-119, api/aggregation.py:17-38).
THEOREM SourcesAreIsolated == Spec => []SourcesIsolated
<1>1. IInv => SourcesIsolated
  BY DEF IInv
<1> QED
  BY <1>1, Invariance, PTL

\* A 500 or a 502 comes from a call of the request itself, to the identity service or
\* to a source whose 200 cannot be encoded (jwks.py:37-48, identity.py:25-40).
THEOREM NobodySharesAFailure == Spec => []FailuresAreOwn
<1>1. IInv => FailuresAreOwn
  BY DEF IInv
<1> QED
  BY <1>1, Invariance, PTL

\* No request waits for something that nobody will give back: whoever holds what it
\* waits for can go on (deps.py:30-35, analytics.py:46, jwks.py:37-48).
THEOREM NobodyWaitsInVain == Spec => []NoCircularWait
<1>1. IInv => NoCircularWait
  <2> SUFFICES ASSUME IInv, NEW r \in Requests, pc[r] \in Waiting, ~Moving(r)
               PROVE  \E s \in Requests : WaitsFor(r, s) /\ pc[s] \in Waiting /\ Moving(s)
    BY DEF NoCircularWait
  <2>1. CASE pc[r] \in OnThread /\ r \notin working
    <3>1. queue # <<>>
      <4>1. PICK k \in 1..Len(queue) : queue[k] = r
        BY <2>1 DEF IInv, Threading
      <4>2. queue = <<>> => Len(queue) = 0
        OBVIOUS
      <4> QED
        BY <4>1, <4>2
    <3>2. working # {}
      <4>1. Cardinality(working) = Threads /\ Threads # 0
        BY <3>1, ThreadsAssumption DEF IInv, TypeOK, ThreadsBounded
      <4> QED
        BY <4>1, FS_EmptySet
    <3>3. PICK s \in working : TRUE
      BY <3>2
    <3>4. s \in Requests /\ pc[s] \in OnThread
      BY DEF IInv, TypeOK, Threading
    <3> QED
      BY <2>1, <3>1, <3>4 DEF WaitsFor, Moving, Waiting, OnThread, AtLock
  <2>2. CASE pc[r] \in AtLock /\ ~HasLock(r)
    <3>1. lock # <<>> /\ lock \in Seq(Requests)
      <4>1. PICK k \in 1..Len(lock) : lock[k] = r
        BY <2>2 DEF IInv, Locking
      <4>2. lock = <<>> => Len(lock) = 0
        OBVIOUS
      <4> QED
        BY <4>1, <4>2 DEF IInv, TypeOK
    <3>2. Head(lock) \in Requests /\ pc[Head(lock)] \in AtLock /\ HasLock(Head(lock))
      <4>1. Head(lock) = lock[1] /\ Len(lock) \in Nat /\ Len(lock) >= 1
        BY <3>1, QueueFacts
      <4> QED
        BY <3>1, <4>1 DEF IInv, Locking, HasLock
    <3>3. Moving(Head(lock))
      BY <3>2 DEF Moving, AtLock, OnThread, IInv, Dialled
    <3> QED
      BY <2>2, <3>2, <3>3 DEF WaitsFor, Waiting, OnNetwork, AtLock
  <2> QED
    BY <2>1, <2>2 DEF IInv, Dialled, Moving
<1> QED
  BY Invariance, <1>1, PTL

-----------------------------------------------------------------------------
(* The order in which those who wait are served                            *)

\* Whoever is ahead of a request was ahead of it before, and a queue is only left
\* from its head.
InOrder(before, after) ==
  /\ \A i \in 1..Len(before), j \in 1..Len(after) : after[j] = before[i] =>
       \A k \in 1..(j - 1) : \E h \in 1..(i - 1) : after[k] = before[h]
  /\ \A i \in 1..Len(before) : i > 1 => \E j \in 1..Len(after) : after[j] = before[i]

\* A step leaves both queues in order, and who leaves the one for threads has got one.
FirstComeFirstServed ==
  /\ InOrder(queue, queue') /\ InOrder(lock, lock')
  /\ \A i \in 1..Len(queue) :
       queue[i] \in working' \/ \E j \in 1..Len(queue') : queue'[j] = queue[i]

\* A queue whose members stand in one place each stays in order when nothing happens
\* to it, when somebody else joins at its end, and when its head leaves.
LEMMA QueuesStayInOrder ==
  ASSUME NEW q \in Seq(Requests), NEW a, NEW r,
         \A i, j \in 1..Len(q) : q[i] = q[j] => i = j,
         \/ a = q
         \/ a = Append(q, r) /\ \A i \in 1..Len(q) : q[i] # r
         \/ q # <<>> /\ a = Tail(q)
  PROVE  InOrder(q, a)
<1>0. Len(q) \in Nat
  OBVIOUS
<1>1. CASE a = q
  <2> SUFFICES ASSUME NEW i \in 1..Len(q), NEW j \in 1..Len(q), q[j] = q[i], NEW k \in 1..(j - 1)
               PROVE  \E h \in 1..(i - 1) : q[k] = q[h]
    BY <1>1 DEF InOrder
  <2>1. i = j
    OBVIOUS
  <2> QED
    BY <2>1
<1>2. CASE a = Append(q, r) /\ \A i \in 1..Len(q) : q[i] # r
  <2>1. /\ Len(a) = Len(q) + 1 /\ a[Len(q) + 1] = r
        /\ \A i \in 1..Len(q) : a[i] = q[i]
    BY <1>2
  <2>2. ASSUME NEW i \in 1..Len(q), NEW j \in 1..Len(a), a[j] = q[i], NEW k \in 1..(j - 1)
        PROVE  \E h \in 1..(i - 1) : a[k] = q[h]
    <3>1. j # Len(q) + 1
      BY <1>2, <2>1, <2>2
    <3>2. j \in 1..Len(q)
      BY <1>0, <2>1, <3>1
    <3>3. i = j
      BY <2>1, <2>2, <3>2
    <3>4. k \in 1..(i - 1) /\ k \in 1..Len(q)
      BY <1>0, <3>2, <3>3
    <3> QED
      BY <2>1, <3>4
  <2>3. \A i \in 1..Len(q) : i \in 1..Len(a) /\ a[i] = q[i]
    BY <1>0, <2>1
  <2> QED
    BY <2>2, <2>3 DEF InOrder
<1>3. CASE q # <<>> /\ a = Tail(q)
  <2>1. Len(a) = Len(q) - 1 /\ \A i \in 1..(Len(q) - 1) : a[i] = q[i + 1]
    BY <1>3, QueueFacts
  <2>2. ASSUME NEW i \in 1..Len(q), NEW j \in 1..Len(a), a[j] = q[i], NEW k \in 1..(j - 1)
        PROVE  \E h \in 1..(i - 1) : a[k] = q[h]
    <3>1. a[j] = q[j + 1] /\ j + 1 \in 1..Len(q)
      BY <1>0, <2>1
    <3>2. i = j + 1
      BY <2>2, <3>1
    <3>3. k \in 1..j /\ k \in 1..(Len(q) - 1) /\ k + 1 \in 1..(i - 1)
      <4>1. j \in Nat /\ k \in Nat /\ 1 <= k /\ k < j /\ j + 1 <= Len(q)
        BY <1>0, <3>1
      <4> QED
        BY <1>0, <3>2, <4>1
    <3>4. a[k] = q[k + 1]
      BY <2>1, <3>3
    <3> QED
      BY <3>3, <3>4
  <2>3. ASSUME NEW i \in 1..Len(q), i > 1 PROVE \E j \in 1..Len(a) : a[j] = q[i]
    <3>1. i - 1 \in 1..Len(a) /\ a[i - 1] = q[i]
      BY <1>0, <2>1, <2>3
    <3> QED
      BY <3>1
  <2> QED
    BY <2>2, <2>3 DEF InOrder
<1> QED
  BY <1>1, <1>2, <1>3

\* What one step can do to the two queues.
LEMMA StepsOfQueues ==
  ASSUME IInv, [Next]_vars
  PROVE  /\ \/ UNCHANGED threads
            \/ \E r \in Requests : Submit(r) /\ pc[r] \notin OnThread
            \/ \E r \in Requests : Return(r)
         /\ \/ lock' = lock
            \/ \E r \in Requests : lock' = Append(lock, r) /\ pc[r] \notin AtLock
            \/ lock # <<>> /\ lock' = Tail(lock)
<1>1. ASSUME NEW r \in Requests, Resume(r)
      PROVE  Return(r) /\ lock' = lock
  BY <1>1 DEF Resume
<1>2. ASSUME NEW r \in Requests, Admit(r)
      PROVE  Submit(r) /\ pc[r] \notin OnThread /\ lock' = lock
  BY <1>2 DEF Admit, Goto, OnThread
<1>3. ASSUME NEW r \in Requests, NEW e, Accept(r, e)
      PROVE  Submit(r) /\ pc[r] \notin OnThread /\ lock' = lock
  BY <1>3 DEF Accept, Arrive, Goto, OnThread
<1>4. ASSUME NEW r \in Requests, Miss(r)
      PROVE  lock' = Append(lock, r) /\ pc[r] \notin AtLock /\ UNCHANGED threads
  BY <1>4 DEF Miss, Goto, AtLock
<1>5. ASSUME NEW r \in Requests, FindKey(r) \/ StoreKeys(r)
      PROVE  lock # <<>> /\ lock' = Tail(lock) /\ UNCHANGED threads
  BY <1>5 DEF FindKey, StoreKeys, HasLock, IInv, Locking
<1>6. ASSUME NEW r \in Requests,
             \/ Hit(r) \/ FetchKeys(r) \/ CallIdentity(r) \/ Profile(r)
             \/ RefuseCompany(r) \/ Gather(r) \/ Snapshot(r) \/ Call(r) \/ Finish(r)
             \/ \E e \in Calls[r] : Refuse(r, e)
      PROVE  UNCHANGED threads /\ lock' = lock
  BY <1>6 DEF Hit, FetchKeys, CallIdentity, Profile, RefuseCompany, Gather, Snapshot,
              Call, Finish, Refuse, Arrive
<1>7. ASSUME ReplaceKey \/ UNCHANGED vars
      PROVE  UNCHANGED threads /\ lock' = lock
  BY <1>7 DEF ReplaceKey, vars
<1>8. ASSUME NEW r \in Requests, Handle(r)
      PROVE  \/ Resume(r) \/ Admit(r) \/ Miss(r) \/ FindKey(r) \/ StoreKeys(r)
             \/ Hit(r) \/ FetchKeys(r) \/ CallIdentity(r) \/ Profile(r)
             \/ RefuseCompany(r) \/ Gather(r) \/ Snapshot(r)
  BY <1>8 DEF Handle
<1> QED
  BY <1>1, <1>2, <1>3, <1>4, <1>5, <1>6, <1>7, <1>8 DEF Next

\* Threads and the lock go to those who wait in the order in which they came, so a
\* calculation, or a token whose key is cached, waits only for those that came before
\* (anyio's limiter, analytics.py:46, deps.py:30-35; asyncio.Lock, jwks.py:37).
THEOREM NobodyIsOvertaken == Spec => [][FirstComeFirstServed]_vars
<1>1. IInv /\ [Next]_vars => [FirstComeFirstServed]_vars
  <2> SUFFICES ASSUME IInv, [Next]_vars PROVE FirstComeFirstServed
    OBVIOUS
  <2>1. /\ queue \in Seq(Requests) /\ lock \in Seq(Requests)
        /\ \A i, j \in 1..Len(queue) : queue[i] = queue[j] => i = j
        /\ \A i, j \in 1..Len(lock) : lock[i] = lock[j] => i = j
    BY DEF IInv, TypeOK, Threading, Locking
  <2>2. InOrder(lock, lock')
    <3>1. ASSUME NEW r \in Requests, pc[r] \notin AtLock
          PROVE  \A i \in 1..Len(lock) : lock[i] # r
      BY <3>1 DEF IInv, Locking
    <3>2. CASE lock' = lock
      BY <2>1, <3>2, QueuesStayInOrder
    <3>3. CASE \E r \in Requests : lock' = Append(lock, r) /\ pc[r] \notin AtLock
      BY <2>1, <3>1, <3>3, QueuesStayInOrder
    <3>4. CASE lock # <<>> /\ lock' = Tail(lock)
      BY <2>1, <3>4, QueuesStayInOrder
    <3> QED
      BY <3>2, <3>3, <3>4, StepsOfQueues
  <2>3. CASE UNCHANGED threads
    <3>1. queue' = queue
      BY <2>3 DEF threads
    <3> QED
      BY <2>1, <2>2, <3>1, QueuesStayInOrder DEF FirstComeFirstServed
  <2>4. ASSUME NEW r \in Requests, Submit(r), pc[r] \notin OnThread
        PROVE  FirstComeFirstServed
    <3>1. \A i \in 1..Len(queue) : queue[i] # r
      BY <2>4 DEF IInv, Threading
    <3>2. CASE queue' = queue
      BY <2>1, <2>2, <3>2, QueuesStayInOrder DEF FirstComeFirstServed
    <3>3. CASE queue' = Append(queue, r)
      <4>1. InOrder(queue, queue')
        BY <2>1, <3>1, <3>3, QueuesStayInOrder
      <4>2. \A i \in 1..Len(queue) : i \in 1..Len(queue') /\ queue'[i] = queue[i]
        BY <2>1, <3>3
      <4> QED
        BY <2>2, <4>1, <4>2 DEF FirstComeFirstServed
    <3> QED
      BY <2>4, <3>2, <3>3 DEF Submit
  <2>5. ASSUME NEW r \in Requests, Return(r)
        PROVE  FirstComeFirstServed
    <3>1. CASE queue = <<>>
      <4>1. queue' = queue
        BY <2>5, <3>1 DEF Return
      <4> QED
        BY <2>1, <2>2, <4>1, QueuesStayInOrder DEF FirstComeFirstServed
    <3>2. CASE queue # <<>>
      <4>1. queue' = Tail(queue) /\ Head(queue) \in working' /\ Head(queue) = queue[1]
        BY <2>1, <2>5, <3>2, QueueFacts DEF Return
      <4>2. InOrder(queue, queue')
        BY <2>1, <3>2, <4>1, QueuesStayInOrder
      <4>3. \A i \in 1..Len(queue) : i = 1 \/ i > 1
        OBVIOUS
      <4> QED
        BY <2>2, <4>1, <4>2, <4>3 DEF FirstComeFirstServed, InOrder
    <3> QED
      BY <3>1, <3>2
  <2> QED
    BY <2>3, <2>4, <2>5, StepsOfQueues
<1> QED
  BY <1>1, Invariance, PTL DEF Spec
=============================================================================
