SPECIFICATION Spec
CONSTANTS
  p1 = p1
  Ports = {p1}
  ScanTypes = {"SYN", "FIN", "MAIMON", "ACK", "WINDOW"}
  FastScanModes = {TRUE, FALSE}
  UseToken = TRUE
  MinRetries = 1
  MaxRetries = 2
  PreciseTx = TRUE
  SendMayFail = FALSE
  MayInterrupt = FALSE
INVARIANTS
  TypeOK
  OneProbeWaiting
  StampIsCurrent
  VerdictHasProbe
  TeardownInOrder
