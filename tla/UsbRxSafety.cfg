CONSTANTS
  Slots = {s1, s2}
  Skbs = {b1, b2, b3}
  NULL = NULL
  Setup = Setup
  Worker = Worker
  RX_SKB_NUM = 1
  MAX_RXQ_LEN = 2
  BATCH = 1
  MAX_FAULTS = 1
  RETRY_IN_SETUP = FALSE
  RX_TASKLET = FALSE
SPECIFICATION Spec
SYMMETRY Symmetry
INVARIANTS
  TypeOK
  OneFiller
  UrbBufferExclusive
  OneOwner
  EmptySlotRemembered
  CleanTeardown
