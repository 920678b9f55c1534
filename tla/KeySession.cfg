SPECIFICATION Spec
CONSTANTS
  Names = {n1}
  Passwords = {pw1, pw2}
  Logins = {l1, l2}
  Calls = {c1, c2}
  Params = {p1, p2}
  Secrets = {s1, s2}
  Pepper = pepper
  Ttl = 4
  Sec = 3
  MaxNow = 6
  MaxRestarts = 1
  None = None
SYMMETRY Sym
INVARIANTS StoredOpens TokensAreEarned HashesOutliveReleases TokensFindKeys KeyOutlivesTokenBriefly
CHECK_DEADLOCK FALSE
