\* Two refreshes with one token overlap.
CONSTANTS
  Requests = {r1, r2, r3, r4}
  Users = {u1}
  None = None
  RefreshTTL = 1
  MaxTime = 0
SPECIFICATION Spec
SYMMETRY Symmetry
INVARIANT SingleUse
