\* Requests that overlap freely while the tokens expire: two on a database that
\* holds a rotated token, enough for two replays to deadlock on the rows of the
\* family, and three on an empty one.
CONSTANTS
  r1 = r1
  r2 = r2
  r3 = r3
  u1 = u1
  u2 = u2
  Requests = {r1, r2, r3, r4, r5}
  Users = {u1, u2}
  None = None
  RefreshTTL = 1
  MaxTime = 1
SPECIFICATION ReplaySpec
INVARIANTS
  TypeOK
  RotationAtomic
  RevocationHasCause
  FamilyRevoked
  SpentTokenRefused
  DeactivationIsFinal
  ExpiryIsFinal
  SingleUseInTurn
  FamilyDeadInTurn
PROPERTIES
  ImplementsContract
  EveryRequestAnswered
