\* One session, one fault, one SAK wears out.
CONSTANTS
  MaxKN = 3
  Ciphers = {c1}
  MaxSess = 1
  MaxTime = 16
  MaxFaults = 1
  MaxWorn = 1
  MaxOutage = 0
  ReauthPeriod = 0
  LastReauth = 0
SPECIFICATION Spec
INVARIANTS
  EstablishedInTime
  SameAssociation
  SupplicantIsReceived
  NoNullKey
PROPERTIES
  AllReceiving
