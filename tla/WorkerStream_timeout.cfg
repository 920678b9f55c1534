CONSTANTS
  qr = qr
  cred = cred
  list = list
  code = code
  s1 = s1
  s2 = s2
  None = None
  Requests <- FillQueue
  Kind <- FillQueueKind
  Streams <- OneStream
  QueueCap = 1
  MaxChallenges = 1
SPECIFICATION FairSpec
PROPERTY TimeoutHonoured
CHECK_DEADLOCK FALSE
