CONSTANTS
  v1 = v1
  v2 = v2
  Vifs = {v1}
  Stas = {s1}
  NULL = NULL
  MAC_ID_NUM = 2
  PORT_NUM = 1
  CAM_NUM = 3
  DEFAULT_KEYS = 1
  GROUP <- OneKey
SPECIFICATION FairSpec
PROPERTIES
  RemovalEnds
CHECK_DEADLOCK FALSE
