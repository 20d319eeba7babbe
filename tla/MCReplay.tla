------------------------------- MODULE MCReplay -------------------------------
(***************************************************************************)
(* RefreshTokens for runs with overlapping requests, from two states that  *)
(* the service comes to by itself.                                         *)
(*                                                                         *)
(* Provisioned: user u1 logged in (r1) and rotated the token once (r2), a  *)
(* second login (r3) was of u1 as well, or of u2.  So the database holds   *)
(* one revoked and two active tokens, where reuse detection has work to    *)
(* do, and something to leave alone; two requests are to come.             *)
(*                                                                         *)
(* Fresh: no tokens yet, a login of u1 (r1) was refused for a wrong        *)
(* password and user u2 was deactivated (r2); three requests are to come.  *)
(***************************************************************************)
EXTENDS RefreshTokens

CONSTANTS r1, r2, r3, u1, u2

\* What the two have in common: the past requests were answered, all at time 0.
Settled ==
  /\ now = 0
  /\ lock = [t \in Requests |-> None]
  /\ family = [r \in Requests |-> {}]
  /\ sent = [r \in Requests |-> 0]

Provisioned ==
  LET past == {r1, r2, r3} IN
  /\ Settled
  /\ is_active = [u \in Users |-> TRUE]
  /\ \E u \in Users :
       owner = [r \in Requests |-> CASE r \in {r1, r2} -> u1 [] r = r3 -> u [] OTHER -> None]
  /\ issued = past /\ revoked = {r1}
  /\ expires_at = [t \in Requests |-> IF t \in past THEN RefreshTTL ELSE 0]
  /\ pc = [r \in Requests |-> IF r \in past THEN "granted" ELSE "idle"]
  /\ op = [r \in Requests |->
             IF r = r2 THEN "refresh" ELSE IF r \in past THEN "login" ELSE "none"]
  /\ presented = [r \in Requests |-> IF r = r2 THEN r1 ELSE None]
  /\ stored = [r \in Requests |-> IF r = r2 THEN "active" ELSE "absent"]
  /\ before = [r \in Requests |->
                 CASE r = r2 -> {r1} [] r = r3 -> {r1, r2} [] OTHER -> {}]

Fresh ==
  /\ Settled
  /\ is_active = [u \in Users |-> u = u1]
  /\ owner = [r \in Requests |-> CASE r = r1 -> u1 [] r = r2 -> u2 [] OTHER -> None]
  /\ issued = {} /\ revoked = {}
  /\ expires_at = [t \in Requests |-> 0]
  /\ pc = [r \in Requests |-> CASE r = r1 -> "rejected" [] r = r2 -> "deactivated" [] OTHER -> "idle"]
  /\ op = [r \in Requests |-> CASE r = r1 -> "login" [] r = r2 -> "deactivate" [] OTHER -> "none"]
  /\ presented = [r \in Requests |-> None]
  /\ stored = [r \in Requests |-> "absent"]
  /\ before = [r \in Requests |-> IF r = r2 THEN {r1} ELSE {}]

ReplaySpec == (Provisioned \/ Fresh) /\ [][Next]_vars /\ Fairness
=============================================================================
