---------------------------- MODULE TokenContract ----------------------------
(***************************************************************************)
(* What the identity service promises about refresh tokens, without        *)
(* requests, transactions or a database: docs/identity-service.md ("hashed,*)
(* rotated, with reuse detection") as it is implemented by                 *)
(* identity_service/app/services/auth.py.  Each step is one request that   *)
(* took effect, but for Overlap.                                           *)
(*                                                                         *)
(* A request acts on what its token was when it read it, so the promise is *)
(* weaker from the moment that two requests overlap.                       *)
(***************************************************************************)
EXTENDS Naturals

CONSTANTS Tokens, Users, None

VARIABLES
  live,      \* the tokens that buy a new pair
  retired,   \* the tokens that bought one, or were cancelled
  holder,    \* the user a token was issued to
  origin,    \* the token it was bought with, None if with a password
  overlapped \* whether two requests have overlapped

tokens == <<live, retired, holder, origin>>
vars   == <<tokens, overlapped>>

LiveOf(u)    == {t \in live : holder[t] = u}
RetiredOf(u) == {t \in retired : holder[t] = u}

\* The tokens a rotation may take for live.
Spendable == IF overlapped THEN live \cup retired ELSE live

\* The service starts with the tokens of its database: what was bought with a token
\* belongs to the holder of that token, which is retired.
Init ==
  /\ live \subseteq Tokens /\ retired \subseteq Tokens \ live
  /\ holder \in [Tokens -> Users \cup {None}]
  /\ origin \in [Tokens -> Tokens \cup {None}]
  /\ \A t \in Tokens :
       /\ t \in live \cup retired <=> holder[t] # None
       /\ origin[t] # None => origin[t] \in retired /\ holder[origin[t]] = holder[t]
  /\ ~overlapped

Mint(n, u, from) ==
  /\ n \notin live \cup retired
  /\ holder' = [holder EXCEPT ![n] = u]
  /\ origin' = [origin EXCEPT ![n] = from]
  /\ UNCHANGED overlapped

\* A login opens a session: issue_token_pair.
Grant(n, u) ==
  /\ Mint(n, u, None)
  /\ live' = live \cup {n}
  /\ UNCHANGED retired

\* rotate_refresh_token: a token buys a successor for its holder and is retired
\* by it; it buys one only, until requests overlap.
Rotate(t, n) ==
  /\ t \in Spendable
  /\ Mint(n, holder[t], t)
  /\ live' = (live \ {t}) \cup {n}
  /\ retired' = retired \cup {t}

Cancel(gone) ==
  /\ live' = live \ gone
  /\ retired' = retired \cup gone
  /\ UNCHANGED <<holder, origin, overlapped>>

\* revoke_refresh_token: a logout ends one session.
Retire(t) == t \in live /\ Cancel({t})

\* _revoke_all_for_user: a retired token was replayed, the sessions of its user
\* end; those that begin or end while the report is under way are left out.
RetireFamily(u, gone) ==
  /\ RetiredOf(u) # {}
  /\ gone \subseteq LiveOf(u)
  /\ ~overlapped => gone = LiveOf(u)
  /\ Cancel(gone)

\* A request comes while another one is served.
Overlap ==
  /\ overlapped' = TRUE
  /\ UNCHANGED tokens

Next ==
  \/ \E n \in Tokens, u \in Users : Grant(n, u)
  \/ \E t, n \in Tokens : Rotate(t, n)
  \/ \E t \in Tokens : Retire(t)
  \/ \E u \in Users : \E gone \in SUBSET live : RetireFamily(u, gone)
  \/ Overlap

Spec == Init /\ [][Next]_vars
=============================================================================
