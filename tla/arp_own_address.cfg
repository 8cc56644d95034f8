SPECIFICATION Spec
CONSTANTS
  Ips <- IpsModel  Lan = {"lan1", "self"}  Self = "self"  V6 = {"six"}
  TargetsPerQueue = 2  ArpBatchSize = 2  MaxProbes = 1  MaxOpen = 2
  PoolSize = 4  Batches <- MixedBatches  MaxCalls = 2  Window = 2  RingCap = 3
  PeekMax = 2  HasSock6 = FALSE
  TcpSlots = {1}  Tcp6Slots = {}  IcmpSlots = {2}  Icmp6Slots = {3}  HasV6 = TRUE
  t1 = t1  Targets = {t1}  SqSize = 3  MaxBatch = 2  MaxPackets = 2
  CqMayOverflow = FALSE
INVARIANT AnsweredIsUp
CHECK_DEADLOCK FALSE
