\* Two holds and a walk-in booking on the two slots of one grid; two holds and
\* a block off the grid, with a change of slot duration.
CONSTANTS
  Holds = {h1, h2}
  Offlines = {o1}
  Blocks = {k1}
  StartTimes <- AllStarts
  DayLength = 10
  Layouts <- TwoLayouts
  Free = Free
SYMMETRY HoldSymmetry
SPECIFICATION ScenesSpec
INVARIANTS NoDoubleBookingOnGrid ClashOnlyWhenConcurrent HoldsExcludeHolds
PROPERTY ImplementsLedger
CHECK_DEADLOCK FALSE
