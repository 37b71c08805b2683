SPECIFICATION CallSpec
CONSTANT MaxReplies = 3
INVARIANTS
  OutageIsRaised
  FailureShows
CHECK_DEADLOCK FALSE
