SPECIFICATION LiveSpec
CONSTANTS
  BlockLen = 4
  RedLens = {0, 3, 4}
  Services = {1, 2}
  AllowedServices = {1}
  MTU = 1
  RecvMaxBlock = 3
  MaxClaims = 1
  MaxReports = 3
  CpRtxLimit = 1
  RsRtxLimit = 1
  CancelRtxLimit = 1
  Inactivity = TRUE
INVARIANTS TypeOK NoSilentEnd AlwaysProbing ClosedMeansSenderDone NeverMiscolored
PROPERTIES ImplementsBlockTransfer SenderTerminates
