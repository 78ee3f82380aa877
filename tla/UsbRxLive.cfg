CONSTANTS
  Slots = {s1}
  Skbs = {b1, b2, b3}
  NULL = NULL
  Setup = Setup
  Worker = Worker
  RX_SKB_NUM = 1
  MAX_RXQ_LEN = 2
  BATCH = 3
  MAX_FAULTS = 3
  RETRY_IN_SETUP = FALSE
  RX_TASKLET = FALSE
SPECIFICATION FairSpec
INVARIANTS
  NoStrandedPacket
PROPERTIES
  RxProgress
