SPECIFICATION FairSpec
CONSTANTS
  Users = {u1}
  Stream = Stream
  MaxLoads = 2
  MaxChallenges = 2
  None = None
INVARIANTS
  EventsAreTrue
  OutcomeNotLost
PROPERTIES
  ImplementsLinkContract
  HeardWhileConnected
  ConnectingNeverWaits
CHECK_DEADLOCK FALSE
