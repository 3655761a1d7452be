\* One station; three events where the supplicant is wpa_supplicant.
CONSTANTS
  Stations = {s1}
  s1 = s1
  Kinds = {"steady", "latest", "first"}
  Pmks = {1, 2}
  MaxAssoc = 2
  Events = {"gtk", "ptk", "grequest", "leave", "session", "driver"}
  MaxEvents = 3
  MaxEventsOther = 2
  CAP = 2
  PairwiseUpdateCount = 2
  GroupUpdateCount = 2
  RSNA_MAX_EAPOL_RETRIES = 2
SPECIFICATION FairSpec
CHECK_DEADLOCK FALSE
INVARIANTS TypeOK GroupCount SamePairwiseKey NoClearedKey WaitsWithTimer GroupKeyHeld
PROPERTIES  RekeyCompletes
