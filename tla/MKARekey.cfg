\* Two sessions without faults, EAP running again on an established channel;
\* four SAKs wear out, so that an AN is used again.
CONSTANTS
  MaxKN = 5
  Ciphers = {c1}
  MaxSess = 2
  MaxTime = 28
  MaxFaults = 0
  MaxWorn = 4
  MaxOutage = 0
  ReauthPeriod = 9
  LastReauth = 14
SPECIFICATION Spec
INVARIANTS
  TypeOK
  RekeyInTime
  
  SameAssociation
PROPERTY
  StaysSecured
