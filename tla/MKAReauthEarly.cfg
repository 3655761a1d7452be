\* EAP may run again at any time.
CONSTANTS
  MaxKN = 3
  Ciphers = {c1}
  MaxSess = 2
  MaxTime = 12
  MaxFaults = 0
  MaxWorn = 0
  MaxOutage = 0
  ReauthPeriod = 0
  LastReauth = 12
SPECIFICATION Spec
INVARIANTS
  EstablishedInTime
