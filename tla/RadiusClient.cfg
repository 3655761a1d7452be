\* Three requests over two identifiers and a list of two entries.
CONSTANTS
  MaxReq = 3
  Addr = {sta1}
  sta1 = sta1
  NumIds = 2
  FIRST_WAIT = 1
  MAX_WAIT = 2
  MAX_RETRIES = 3
  MAX_ENTRIES = 2
  NUM_FAILOVER = 1
  NumServers = {1, 2}
  Differ = {TRUE, FALSE}
  Primary = {TRUE, FALSE}
SPECIFICATION FairSpec
CHECK_DEADLOCK FALSE
INVARIANTS TypeOK ListBounded DistinctIdentifiers SignedForServer RetransmitInTime TimersBounded QuietWhenFreed LoopInList
PROPERTIES KeepsPromise EveryRequestServed
