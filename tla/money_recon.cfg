\* Reconciliation alone, and a payment whose callback was missed.
CONSTANTS
  Initiations = {i1}
  Verifications = {}
  Expiries = {}
  Recons = {r1}
  Total = 2
  OtherAmount = 1
  MaxAttempts = 2
  NoPayment = NoPayment
SPECIFICATION FairSpec
PROPERTY PaidIsNotExpired
CHECK_DEADLOCK FALSE
