CONSTANTS
  Users = {u1, u2}
  Accounts = {a1, a2}
  Posts = {p1, p2}
  Guards = {g1}
  MaxRestarts = 1
  None = None
SPECIFICATION Spec
SYMMETRY Symmetry
INVARIANTS LinkReqsAreInFlight AnnouncedIsStored TokensDecrypt CodesReachOwnLink
CHECK_DEADLOCK FALSE
