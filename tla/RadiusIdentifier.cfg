\* Three identifiers, a list of two entries: what is pending at once never
\* uses the identifiers up, but they come round.
CONSTANTS
  MaxReq = 3
  Addr = {sta1}
  sta1 = sta1
  NumIds = 3
  FIRST_WAIT = 1
  MAX_WAIT = 2
  MAX_RETRIES = 3
  MAX_ENTRIES = 2
  NUM_FAILOVER = 1
  NumServers = {1}
  Differ = {FALSE}
  Primary = {FALSE}
SPECIFICATION Spec
CHECK_DEADLOCK FALSE
INVARIANT RetransmitKeepsMessage
