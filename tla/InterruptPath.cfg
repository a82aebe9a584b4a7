SPECIFICATION FairSpec
CONSTANTS
  Sources = {1, 2}
  MaxEvents = 3
INVARIANTS MipIsCurrent NoLostWork
PROPERTY WorkIsTaken
CHECK_DEADLOCK FALSE
