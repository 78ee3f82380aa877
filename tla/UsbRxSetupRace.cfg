CONSTANTS
  Slots = {s1, s2}
  Skbs = {b1, b2, b3}
  NULL = NULL
  Setup = Setup
  Worker = Worker
  RX_SKB_NUM = 1
  MAX_RXQ_LEN = 2
  BATCH = 1
  MAX_FAULTS = 2
  RETRY_IN_SETUP = TRUE
  RX_TASKLET = FALSE
SPECIFICATION Spec
SYMMETRY Symmetry
INVARIANTS
  UrbBufferExclusive
