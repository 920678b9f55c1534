CONSTANTS
  Users = {u1}
  Accounts = {a1, a2}
  Posts = {p1, p2}
  Guards = {g1}
  MaxRestarts = 1
  None = None
SPECIFICATION FairSpec
PROPERTIES DeletedStaysDeleted OutcomesAreAnnounced ImplementsContract
CHECK_DEADLOCK FALSE
