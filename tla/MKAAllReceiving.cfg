\* Two faults while a SAK is replaced.
CONSTANTS
  MaxKN = 3
  Ciphers = {c1}
  MaxSess = 1
  MaxTime = 14
  MaxFaults = 2
  MaxWorn = 1
  MaxOutage = 0
  ReauthPeriod = 0
  LastReauth = 0
SPECIFICATION Spec
PROPERTIES
  AllReceiving
