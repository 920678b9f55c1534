CONSTANTS
  qr = qr
  cred = cred
  list = list
  code = code
  s1 = s1
  s2 = s2
  None = None
  Requests <- GuardedLink
  Kind <- GuardedLinkKind
  Streams <- OneStream
  QueueCap = 1
  MaxChallenges = 1
SPECIFICATION FairSpec
PROPERTIES ExpiredCallsReturn AnswersReachCallers
CHECK_DEADLOCK FALSE
