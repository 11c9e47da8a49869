\* Two joins through the booking service for the last place.
CONSTANTS
  Players = {o, f, p, q}
  Organiser = o
  MaxPlayers = 3
  Joins = {}
  SlotJoins = {s1, s2}
  Requests = {}
  Answers = {}
  Additions = {}
  Nobody = Nobody
SPECIFICATION Spec
INVARIANT CapacityRespected
CHECK_DEADLOCK FALSE
