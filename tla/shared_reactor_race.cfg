SPECIFICATION Spec
CONSTANTS
  c1 = c1
  u1 = u1
  u2 = u2
  Default = Default
  NotBuilt = NotBuilt
  Callers = {c1}
  Users = {u1, u2}
INVARIANTS
  HonouredOrReported
CHECK_DEADLOCK FALSE
