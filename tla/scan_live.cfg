SPECIFICATION FairSpec
CONSTANTS
  p1 = p1
  p2 = p2
  Ports = {p1, p2}
  ScanTypes = {"SYN", "XMAS"}
  FastScanModes = {TRUE}
  UseToken = TRUE
  MinRetries = 1
  MaxRetries = 1
  PreciseTx = FALSE
  SendMayFail = TRUE
  MayInterrupt = TRUE
INVARIANTS
  CountersExact
  ScheduledOnce
  GateWillOpen
  ClassifiedOnce
  EarlierAttemptsSent
PROPERTIES
  ImplementsVerdicts
  ScanEnds
  JoinReturns
