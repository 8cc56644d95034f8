SPECIFICATION Spec
CONSTANTS
  o1 = o1
  o2 = o2
  Ops = {o1, o2}
  TlsOps = {o1, o2}
  NShards = 2
  Fds = {3, 4}
  MaxTime = 1
  EpollMayFail = TRUE
  NoOp = NoOp
INVARIANTS
  OneOwner
  NoLostWakeup
  DescriptorsExact
PROPERTIES
  ImplementsCompletions
SYMMETRY OpSymmetry
