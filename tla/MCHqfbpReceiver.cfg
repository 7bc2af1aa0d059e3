SPECIFICATION LiveSpec
CONSTANTS
  Messages = {"a1", "a2", "b1"}
  Source <- MCSource
  Id <- MCId
  Payload <- MCPayload
  Pdus <- MCPdus
  Readable <- MCReadable
  Size = 1
  Noise = {1}
  MaxSenders = 2
  MaxBytes = 3
  Ttl = 2
  MaxPackets = 8
INVARIANTS Accounted OldestFirst HeldIsAccounted NoEcho
PROPERTY EventuallyEmpty
