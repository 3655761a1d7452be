\* The group key is renewed while a pairwise key is.
CONSTANTS
  Stations = {s1}
  s1 = s1
  Kinds = {"steady"}
  Pmks = {1}
  MaxAssoc = 1
  Events = {"gtk", "ptk"}
  MaxEvents = 3
  MaxEventsOther = 0
  CAP = 2
  PairwiseUpdateCount = 2
  GroupUpdateCount = 2
  RSNA_MAX_EAPOL_RETRIES = 2
SPECIFICATION FairSpec
CHECK_DEADLOCK FALSE
PROPERTIES GtkRekeyed
