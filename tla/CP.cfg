\* Both roles, three SAKs, two cipher suites.
CONSTANTS
  MaxKN = 3
  Ciphers = {c1, c2}
SPECIFICATION Spec
INVARIANTS
  TypeOK
  NoLostWakeup
  StepRunConverges
  ProtectedPort
  KeysCounted
PROPERTY AnnouncedSasEnabled
