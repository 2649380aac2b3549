SPECIFICATION FairSpec
CONSTANTS
  MAX_PRE_TLS_FRAME = 3
  MaxClear = 2
  Entries = {"connect_tls", "connect_starttls"}
INVARIANTS TypeOK CleanUpgrade NewestCapabilities
PROPERTIES ConnectEnds
CHECK_DEADLOCK FALSE
