\* Scenes of one booking's payment and refund, and of the payouts of a venue.
CONSTANTS
  Initiations = {i1, i2}
  Verifications = {v1, v2}
  Expiries = {e1}
  Recons = {r1}
  Total = 2
  OtherAmount = 1
  MaxAttempts = 2
  NoPayment = NoPayment
  Bookings = {pb1, pb2}
  Recordings = {rc1, rc2}
  Resolutions = {rs1}
  Backfills = {bf1}
  Updates = {up1}
  Price = 4
  Deposits = {1, 4}
  Percents = {0, 50}
  Sums = {1, 5}
  None = None
  HoldCasts = {{i1, i2, v1, e1}, {i1, v1, v2, e1}, {i1, v1, e1, r1}}
  PayoutCasts = {{pb1, pb2, bf1, up1}, {pb1, pb2, rc1, rc2},
                 {pb1, bf1, rc1, rs1}}
SPECIFICATION MoneySpec
INVARIANTS
  ConfirmedIsCaptured PayoutIffBooked RefundIsReal FailedOnlyIfRaced
  SettledOnceUnlessOverlapped BooksFollowSettlements
PROPERTIES HoldIsResolved RefundIsSettled
CHECK_DEADLOCK FALSE
