\* Two holds that start off the grid: 1-3 and 2-4.
CONSTANTS
  Holds = {h1, h2}
  Offlines = {}
  Blocks = {}
  StartTimes <- MixedStarts
  DayLength = 10
  Layouts <- OneLayout
  Free = Free
SPECIFICATION Spec
INVARIANT NoDoubleBooking
CHECK_DEADLOCK FALSE
