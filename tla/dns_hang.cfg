SPECIFICATION DnsSpec
CONSTANTS
  NJobs = 3  Concurrency = 2  Families <- Servers  TimeoutPolls = 2  Retries = 1
PROPERTY BatchEnds
CHECK_DEADLOCK FALSE
