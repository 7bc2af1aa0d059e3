SPECIFICATION LiveSpec
CONSTANTS
  Peers = {"a", "b"}
  Bundles = {"x"}
  IdleTimeout = TRUE
  MaxContacts = 2
  MaxCalls = 1
  MaxLosses = 1
INVARIANTS RoutesFollowSession AnswerOnItsWay QuietMeansAgreed
PROPERTY ContactEnds
CHECK_DEADLOCK FALSE
