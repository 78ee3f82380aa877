SPECIFICATION
  Spec
CONSTANTS
  NPAGES = 2
  BLOCKS = 2
  DOWNLOAD_TRIES = 3
  NBOXES = 4
  MAX_CMDS = 6
  MAX_STARTS = 2
  MAX_FAULTS = 2
  BtInfos <- SomeBtInfos
  DISABLE_AFTER = 2
  CNT_RANGE = 4
  MAX_COEX_EVENTS = 3
  GainStas = {"s1"}
  GainRssis = {0, 80}
  FalseAlarms = {100, 1000}
  DAMPING_TICKS = 1
  MAX_GAIN_EVENTS = 4
  CckFas = {0, 1500}
  CckRssis = {10, 30, 50, 80}
  Igis = {32, 60}
  AVG_CAP = 2000
  Txqs = {"vo", "be"}
  Voice = {"vo"}
  MAX_FRAMES = 3
  MAX_SESSIONS = 1
  RateStas = {"s1"}
  Caps <- SomeCaps
  UserMasks <- SomeMasks
  RateRssis = {10, 60}
  NSS = 2
  MAX_RATE_EVENTS = 6
  Boards <- SomeBoards
  Tunings <- SomeTunings
  MAX_TUNES = 3
  MAX_FAILS = 1
  MAX_POWER_CALLS = 4
  MAX_TIMEOUTS = 2
  Tables <- SomeTables
  TxRates <- SomeRates
  PG <- PgPower
  EFUSE <- EfusePower
  SWING <- Swings
  REGULATORY <- Countries
  Programmed = {"00", "US"}
  Chandefs <- SomeChandefs
  Requests <- SomeRequests
  Sars <- SomeSars
  Deltas <- SomeDeltas
  SwingLimits = {24}
  MAX_POWER_EVENTS = 3
  RxBases <- SomeBases
  Offsets <- SomeOffsets
  MAX_CALS = 1
INVARIANT
  SarHeld
CHECK_DEADLOCK
  FALSE
