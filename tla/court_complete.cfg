\* A cancellation between the read and the write of a completion.
CONSTANTS
  Holds = {h1}
  Offlines = {}
  Blocks = {}
  StartTimes <- GridStarts
  DayLength = 10
  Layouts <- OneLayout
  Free = Free
SPECIFICATION Spec
PROPERTY CompletesOnlyConfirmed
CHECK_DEADLOCK FALSE
