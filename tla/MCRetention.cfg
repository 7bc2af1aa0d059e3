SPECIFICATION Spec
CONSTANTS
  Files = {"file", "old file"}
  Inbound = {"chat", "old chat"}
  Outbound = {"sent", "old sent"}
  Legacy = {"old file", "old chat", "old sent"}
  Offset = 6
  Hour = 2
  MinSleep = 1
  MaxSleep = 1
  NoneSleep = 1
  Start = 8
  MaxTime = 11
  MaxOps = 2
  None = None
  Created <- MCCreated
  Life <- MCLife
  Peer <- MCPeer
INVARIANTS AckedIsStored PinnedHasPayload ReapedInTime
CHECK_DEADLOCK FALSE
