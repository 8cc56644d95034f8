SPECIFICATION Spec
CONSTANTS
  Self = "self"  Lan4 = {"a"}  Far4 = {"b"}  Lan6 = {"c"}  Far6 = {"d"}
  ArpHosts = {"h1"}  Slots = {1}  ArpBatches = 2  MaxRetries = 1
  NJobs = 3  Concurrency = 2  Families <- ServersModel  TimeoutPolls = 2  Retries = 1
  HostNames = {"h1", "h2"}  Sources = {"s1", "s2", "s3"}  WebConcurrency = 2
  Bits = 3  MaxPerCidr = 2  MaxTotal = 4  Tokens <- WordsModel  MaxTokens = 2
  Names = {"n1"}  A4 = 0
  Flows = {"f1"}  PendingTicks = 1  DedupTicks = 1  MaxPackets = 3  MaxTicks = 2
  SslTargets <- SslTargetsModel  SslPorts <- PortsModel  SslVersions <- NoVersions
  SslConcurrency = 2  Certs = {"c1", "c2"}
  MaxHops = 2  ProbesPerHop = 2  Distance = 2
  Links = {1}  SrvFds = {1, 2, 3}  Pids = {1}  RoundEvents = 2
  SplitRuns = {"r1", "r2"}  LinkIds = {1, 2, 3}
  ProbeList <- ProbesModel  RedirectHops = 2
  MaxPort = 25  PortWords <- PortWordsModel  MaxWords = 2  MaxOptions = 2  FileLines <- FileLinesModel
  RangeLines <- RangeLinesModel  MaxLines = 3
INVARIANTS CountedOnce ListsExact NothingSkipped ReportedOnEvidence EnumerationSound HeldAlone
PROPERTIES CommandEnds
CHECK_DEADLOCK FALSE
