CONSTANTS
  v1 = v1
  v2 = v2
  Vifs = {v1, v2}
  Stas = {s1, s2}
  NULL = NULL
  MAC_ID_NUM = 3
  PORT_NUM = 2
  CAM_NUM = 4
  DEFAULT_KEYS = 2
  GROUP <- SharedKey
SPECIFICATION Spec
SYMMETRY Symmetry
INVARIANTS
  MacIdsExact
  PortsFollowSwitch
  CamExact
PROPERTIES
  DefaultPortFollows
CHECK_DEADLOCK FALSE
