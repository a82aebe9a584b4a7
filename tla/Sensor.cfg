SPECIFICATION FairSpec
CONSTANTS
  Samples = 4
  Period = 2
  Depth = 2
  Temps = {3, 5}
  MaxTick = 9
CHECK_DEADLOCK FALSE
INVARIANTS LogIsFaithful OffWhenDone
PROPERTIES PowersOff
