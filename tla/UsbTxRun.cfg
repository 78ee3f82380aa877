CONSTANTS
  N = 3
  Eps = 2
  EP <- OutAndIn
  REQ = {3}
  AGG = AGG
  NULL = NULL
  LIMIT = 4
  AGG_NUM = 2
  MAX_FAULTS = 1
  EARLY_PURGE = FALSE
  LATE_TX_WORK = FALSE
SPECIFICATION FairSpec
INVARIANTS
  ExactlyOnePlace
  QuiescedBeforeFree
  InOrder
  NoStrandedFrame
PROPERTIES
  ImplementsCustody
  NoReplay
  TeardownSettles
