CONSTANTS
  Vifs = {v1, v2}
  NULL = NULL
SPECIFICATION FairSpec
INVARIANTS
  RunningMeansPowered
  WatchDogExact
  NoIoWhenOff
  LpsAgrees
PROPERTIES
  NothingStuck
