---------------------------- MODULE OutboundCalls ----------------------------
(***************************************************************************)
(* The one httpx.AsyncClient of the client app (client_app/app/main.py)    *)
(* and the services it calls: the identity service and three public APIs.  *)
(* All calls share its connections; one that gets none within the timeout  *)
(* fails, like one whose service does not answer in time.                  *)
(*                                                                         *)
(* A healthy service answers 200 with what its caller expects.  An         *)
(* unhealthy one answers anything, late or not at all.                     *)
(***************************************************************************)
EXTENDS Naturals, FiniteSets

CONSTANTS
  Requests,    \* the requests that make calls
  Upstreams,   \* the services that are called
  Connections, \* the connections of the client: httpx allows 100
  Health       \* the sets of services that may be healthy

ASSUME CallsAssumption ==
  /\ Connections \in Nat \ {0}
  /\ Health \subseteq SUBSET Upstreams

VARIABLES
  healthy, \* the services that are healthy in this behaviour
  call     \* where the call of a request to a service is, or how it ended

calls == <<healthy, call>>

\* failed: an httpx.RequestError (no connection, a timeout), or raise_for_status;
\* malformed: 200, but processing the body raises; unencodable: json.loads takes the
\* body, but a text in it (a lone surrogate) cannot be written into a response of the
\* client app; starved: no free connection.
Answers   == {"answered", "unencodable", "failed", "malformed"}
Processed == {"answered", "unencodable"}
Outcomes  == Answers \cup {"starved"}
Progress  == {"none", "waiting", "open"} \cup Outcomes

Open == {c \in Requests \X Upstreams : call[c[1]][c[2]] = "open"}

Exhausted == Cardinality(Open) >= Connections

CallsInit ==
  /\ healthy \in Health
  /\ call = [r \in Requests |-> [u \in Upstreams |-> "none"]]

\* Request r calls the services in us at once; what earlier calls gave is used up.
Dial(r, us) ==
  call' = [call EXCEPT ![r] = [u \in Upstreams |-> IF u \in us THEN "waiting" ELSE "none"]]

\* The calls of r to the services in us have all ended.
Ended(r, us) == \A u \in us : call[r][u] \in Outcomes

Progresses(r, u, from, to) ==
  /\ call[r][u] = from
  /\ call' = [call EXCEPT ![r][u] = to]
  /\ UNCHANGED healthy

\* Mutant of Connect: the client has no limit.
ConnectUnlimited(r, u) == Progresses(r, u, "waiting", "open")

\* The call gets a connection and is sent.
Connect(r, u) == Progresses(r, u, "waiting", "open") /\ ~Exhausted

\* httpx.PoolTimeout.
Starve(r, u) == Progresses(r, u, "waiting", "starved") /\ Exhausted

\* The call has ended, and its connection is free again.
Respond(r, u) ==
  \E answer \in IF u \in healthy THEN {"answered"} ELSE Answers :
    Progresses(r, u, "open", answer)

Network(r) == \E u \in Upstreams : Connect(r, u) \/ Starve(r, u) \/ Respond(r, u)

CallsTypeOK ==
  /\ healthy \in Health
  /\ call \in [Requests -> [Upstreams -> Progress]]
  /\ Cardinality(Open) <= Connections
=============================================================================
