SPECIFICATION LiveSpec
CONSTANTS
  Sending = {1}
  Receiving = {2}
  Serials = {1}
  MaxTime = 2
INVARIANTS IndexesAgree NothingOverdue ExpiredInOrder
PROPERTIES CancelsExactly EventuallyFires
