---------------------------- MODULE WorkerThreads ----------------------------
(***************************************************************************)
(* The threads of a process of the client app.  run_in_threadpool          *)
(* (client_app/app/api/analytics.py), and FastAPI for every dependency     *)
(* that is not a coroutine (client_app/app/api/deps.py), hand a function   *)
(* to a thread; anyio's limiter gives its tokens to the coroutines that    *)
(* ask for one in the order in which they came.                            *)
(***************************************************************************)
EXTENDS Naturals, Sequences, FiniteSets

CONSTANT Threads \* tokens of the limiter: 40 unless configured

ASSUME ThreadsAssumption == Threads \in Nat \ {0}

VARIABLES
  working, \* the requests whose function has a thread, one each
  queue    \* the requests that wait for a thread

threads == <<working, queue>>

ThreadsInit == working = {} /\ queue = <<>>

\* Mutant of Submit: no limit.
SubmitUnlimited(r) ==
  /\ working' = working \cup {r}
  /\ UNCHANGED queue

\* A request asks for a thread.
Submit(r) ==
  \/ /\ queue = <<>> /\ Cardinality(working) < Threads
     /\ working' = working \cup {r}
     /\ UNCHANGED queue
  \/ /\ queue # <<>> \/ Cardinality(working) >= Threads
     /\ queue' = Append(queue, r)
     /\ UNCHANGED working

\* Mutant of Return: the thread goes to whoever came last.
ReturnToLast(r) ==
  /\ r \in working
  /\ IF queue = <<>> THEN working' = working \ {r} /\ queue' = queue
     ELSE /\ working' = (working \ {r}) \cup {queue[Len(queue)]}
          /\ queue' = SubSeq(queue, 1, Len(queue) - 1)

\* Its function has returned, and the thread goes to the first in the queue.
Return(r) ==
  /\ r \in working
  /\ \/ /\ queue = <<>>
        /\ working' = working \ {r}
        /\ UNCHANGED queue
     \/ /\ queue # <<>>
        /\ working' = (working \ {r}) \cup {Head(queue)}
        /\ queue' = Tail(queue)

\* No more functions run than there are threads, and none waits for nothing.
ThreadsBounded ==
  /\ Cardinality(working) <= Threads
  /\ queue # <<>> => Cardinality(working) = Threads
=============================================================================
