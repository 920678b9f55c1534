SPECIFICATION Spec
CONSTANTS
  Users = {u1, u2}
  Accounts = {a1, a2}
  Rows = {i1, i2}
  Requests = {r1, r2}
  None = None
SYMMETRY Sym
INVARIANTS
  SteamIdNamesToken
  OwnFriendsInTurn
CHECK_DEADLOCK FALSE
