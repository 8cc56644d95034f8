SPECIFICATION FairSpec
CONSTANTS
  p1 = p1
  Ports = {p1}
  ScanTypes = {"SYN"}
  FastScanModes = {FALSE}
  UseToken = TRUE
  MinRetries = 1
  MaxRetries = 1
  PreciseTx = FALSE
  SendMayFail = FALSE
  MayInterrupt = FALSE
PROPERTIES
  TeardownEnds
