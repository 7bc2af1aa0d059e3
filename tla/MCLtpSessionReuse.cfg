SPECIFICATION Spec
CONSTANTS
  SdnvBits = 15
  MaxParsedClaims = 8
  MaxAccumulator = 64
  Engines = {"e1", "e2"}
  Addrs = {"a1", "a2"}
  Remote = "e2"
  RedBundles = {"r", "s"}
  GreenBundles = {}
  Incoming = {"two"}
  IncomingRed = {}
  MaxGreenLen = 2
  MaxGreen = 1
  MaxAddrs = 1
  RtxLimit = 0
  None = None
  MaxEvents = 4
  Dest <- MCDest
  Configured <- MCConfigured
  GreenLen <- MCGreenLen
INVARIANT CompletedMeansHeard
CHECK_DEADLOCK FALSE
