\* A player and the owner look at a court that closes late in the evening.
CONSTANTS
  Changes = {}
  OwnerChanges = {}
  Viewers = {vw1}
  OwnerViewers = {vw2}
  Threshold = 2
  Hours <- LateHours
  DayLength = 10
SPECIFICATION GridFairSpec
PROPERTY GridEnds
CHECK_DEADLOCK FALSE
