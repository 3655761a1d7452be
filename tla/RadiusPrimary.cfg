\* Two servers of different secrets, with retry_primary_interval set.
CONSTANTS
  MaxReq = 3
  Addr = {sta1}
  sta1 = sta1
  NumIds = 2
  FIRST_WAIT = 1
  MAX_WAIT = 2
  MAX_RETRIES = 3
  MAX_ENTRIES = 2
  NUM_FAILOVER = 1
  NumServers = {2}
  Differ = {TRUE}
  Primary = {TRUE}
SPECIFICATION Spec
CHECK_DEADLOCK FALSE
INVARIANT SignedThroughPrimary
