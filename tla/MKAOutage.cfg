\* The link is down once, for up to 8 seconds.
CONSTANTS
  MaxKN = 3
  Ciphers = {c1}
  MaxSess = 1
  MaxTime = 17
  MaxFaults = 1
  MaxWorn = 0
  MaxOutage = 8
  ReauthPeriod = 0
  LastReauth = 0
SPECIFICATION Spec
INVARIANTS
  RecoversInTime
  DistributedKeyAllocated
