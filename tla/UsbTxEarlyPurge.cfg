CONSTANTS
  N = 3
  Eps = 2
  EP <- OutAndIn
  REQ <- OddFrames
  AGG = AGG
  NULL = NULL
  LIMIT = 4
  AGG_NUM = 1
  MAX_FAULTS = 1
  EARLY_PURGE = TRUE
  LATE_TX_WORK = FALSE
SPECIFICATION Spec
INVARIANTS
  NoNullFrame
