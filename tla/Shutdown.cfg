SPECIFICATION FairSpec
CONSTANTS
  Streams = {s1, s2}
  Calls = {c1, c2}
INVARIANTS
  SendersNeverBlock
  WorkersOutliveRequests
  NoPoolLeftOpen
PROPERTIES
  OnlyStreamsHoldItUp
CHECK_DEADLOCK FALSE
