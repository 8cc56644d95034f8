SPECIFICATION FairSpec
CONSTANTS
  o1 = o1
  o2 = o2
  Ops = {o1, o2}
  TlsOps = {}
  NShards = 1
  Fds = {3}
  MaxTime = 2
  EpollMayFail = FALSE
  NoOp = NoOp
INVARIANTS
  DeadlinesExact
PROPERTIES
  SubmitCompletes
  CancelCompletes
