SPECIFICATION FairSpec
CONSTANTS
  Logins = {l1, l2}
  MaxSubmits = 2
  None = None
INVARIANTS
  CodeUsedOnce
  RoutedUnlessGivenUp
PROPERTIES
  EveryLoginAnswers
CHECK_DEADLOCK FALSE
