SPECIFICATION
  HostSpec
CONSTANTS
  Threads = {"t1", "t2"}
  Regs = {"r1", "r2"}
  NULL = "none"
  OWN <- OneBitEach
  MAX_ATTEMPTS = 3
  MAX_ERRORS = 1
  N = 2
  SNS = 2
  NO_SKB = NO_SKB
  MAX_STOPS = 1
  MAX_FAILURES = 2
  MAX_PLUGS = 2
INVARIANTS
  RegisterIntegrity
  ProbeUnwinds
  ReportsSettle
PROPERTIES
  HostAnswers
  FrameSettles
CHECK_DEADLOCK
  FALSE
