\* One payout of 4, and two recordings that pay it in two parts.
CONSTANTS
  Bookings = {pb1}
  Recordings = {rc1, rc2}
  Resolutions = {}
  Backfills = {}
  Updates = {}
  Price = 4
  Deposits = {4}
  Percents = {0}
  Sums = {2}
  None = None
SPECIFICATION PayoutsSpec
INVARIANT PartPaymentsCount
CHECK_DEADLOCK FALSE
