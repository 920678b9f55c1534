CONSTANTS
  qr = qr
  cred = cred
  list = list
  code = code
  s1 = s1
  s2 = s2
  None = None
  Requests <- LinkAndList
  Kind <- LinkAndListKind
  Streams <- TwoStreams
  QueueCap = 1
  MaxChallenges = 2
SPECIFICATION Spec
INVARIANTS TypeOK DeliverNeverBlocks PromptsPrecedeResult ResultsAreAnswers NothingLost CurrentIsLive
PROPERTIES StaleSessionEvictsNobody OrphansOnlyTimeOut ImplementsCalls
CHECK_DEADLOCK FALSE
