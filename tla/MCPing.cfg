CONSTANTS
  Count = 2
  IntervalArg <- MCInterval
  WaitArg <- MCWait
  TimeoutArg <- MCTimeout
  NoTimeout = none
  Padding = 1
  Policy = "strict"
  Destination = "echo"
  Local = "here"
  Reporters = {"here", "node2"}
  Stray <- MCStray
  TickMs = 1000
  MaxReplies = 2
  MaxReports = 1
  MaxTime = 1000
SPECIFICATION Spec
INVARIANTS EachPingCountedOnce LastReplyWakes
PROPERTY SessionEnds
CHECK_DEADLOCK FALSE
