----------------------------- MODULE HoldPayment ----------------------------
(***************************************************************************)
(* The money of one booking: paying the deposit of a hold at a gateway,    *)
(* verifying the payment, letting the hold expire, reconciling it, and     *)
(* cancelling and refunding what was booked.                               *)
(*                                                                         *)
(* A booking starts as a HELD row that waits for a gateway payment, or as  *)
(* the CONFIRMED row with a cash payment that holdSlot writes in the       *)
(* present bypass mode.  The gateway keeps its own account of the money    *)
(* of each order (charge), which the program learns of only by asking.     *)
(*                                                                         *)
(* verifyKhalti asks about the order its caller names (pidx), and nothing  *)
(* ties that order to the booking; confirmPayment compares the amount.  So *)
(* there are two orders here: the booking's own, and the order of another  *)
(* booking, which has an amount and a fate of its own.  In the same way    *)
(* the other booking may have been confirmed with this one's order, and    *)
(* its refund then returns this booking's money.                           *)
(*                                                                         *)
(* Every call reads in one statement and writes in a later one; only the   *)
(* writes that are conditional on what they overwrite notice what happened *)
(* in between.                                                             *)
(***************************************************************************)
EXTENDS Naturals

CONSTANTS
  Initiations,    \* calls of BookingLifecycleService.initiatePayment
  Verifications,  \* calls of PaymentService.verifyKhalti and verifyEsewa
  Expiries,       \* the recurring job of SlotExpiryProcessor
  Recons,         \* the recurring job of PaymentReconProcessor
  Total,          \* total_amount of the booking
  OtherAmount,    \* amount of the other booking's order at Khalti
  MaxAttempts,    \* attempts of a refund job
  NoPayment       \* there is no payments row

Sweeps == Expiries \union Recons
Checkers == Verifications \union Recons
Calls == Initiations \union Verifications \union Sweeps

ASSUME CallsAssumption ==
  /\ Initiations \intersect (Verifications \union Sweeps) = {}
  /\ Verifications \intersect Sweeps = {}
  /\ Expiries \intersect Recons = {}

ASSUME AmountsAssumption ==
  /\ Total \in Nat \ {0}
  /\ OtherAmount \in Nat \ {0}
  /\ MaxAttempts \in Nat \ {0}

VARIABLES
  booking,   \* the bookings row: status, deposit_amount, refund_status
  payment,   \* the payments row
  payout,    \* whether there is an owner_payouts row
  lapsed,    \* whether hold_expires_at has passed
  charge,    \* what the gateway did with the money of each order
  pc,        \* how far each call has come
  order,     \* the order a call that verifies asks about
  refund,    \* the refund job: its stage and the attempts it has left
  raced      \* history: two verifications ran at once

vars ==
  <<booking, payment, payout, lapsed, charge, pc, order, refund, raced>>

-----------------------------------------------------------------------------
BookingStatus == {"HELD", "PENDING_PAYMENT", "CONFIRMED", "CANCELLED",
                  "EXPIRED"}
RefundStatus == {"unset", "none", "pending", "done", "manual_required"}
PaymentStatus == {"INITIATED", "SUCCESS", "FAILED", "REFUNDED"}
Online == {"KHALTI", "ESEWA"}
Gateways == Online \union {"none"}
Orders == {"own", "other"}
TxIds == Orders \union {"unset", "manual"}

\* An order's money may be returned by the refund of this booking, or
\* elsewhere: by the refund of another booking that was confirmed with it.
Charges == {"none", "captured", "returned", "elsewhere"}
Returned == {"returned", "elsewhere"}

Payments ==
  [status: PaymentStatus, gateway: Gateways, amount: 0..Total,
   tx: TxIds, refunded: BOOLEAN]

ASSUME NoPaymentAssumption == NoPayment \notin Payments

Stages == {"idle", "cleared", "asking", "unpaid", "verified", "confirming",
           "selected", "done", "refused"}
Verifying == {"asking", "unpaid", "verified", "confirming"}
JobStages == {"none", "owed", "lost", "waiting", "calling", "answered",
              "done", "failed"}

Awaiting == {"HELD", "PENDING_PAYMENT"}
Booked == {"CONFIRMED", "CANCELLED"}

Unpaid(b) == b.status \in Awaiting

\* The amount the gateway has for an order.
Amount(o) == IF o = "own" THEN payment.amount ELSE OtherAmount

Reach(c, stage) == pc' = [pc EXCEPT ![c] = stage] /\ UNCHANGED order

\* A call that begins to verify asks about an order; one that ends forgets it.
Ask(c, o) ==
  pc' = [pc EXCEPT ![c] = "asking"] /\ order' = [order EXCEPT ![c] = o]

End(c, stage) ==
  pc' = [pc EXCEPT ![c] = stage] /\ order' = [order EXCEPT ![c] = "own"]

\* A verification that ends badly is an error to its caller; reconciliation
\* catches it and lets the booking expire.
Throw(c) == End(c, IF c \in Recons THEN "selected" ELSE "refused")

-----------------------------------------------------------------------------
(***************************************************************************)
(* The two kinds of booking                                                *)
(***************************************************************************)
Held(deposit) ==
  /\ booking = [status |-> "HELD", deposit |-> deposit, refund |-> "unset"]
  /\ payment = NoPayment
  /\ payout = FALSE

\* holdSlot in bypass mode: a cash payment without a gateway, and the payout.
Bypassed(deposit) ==
  /\ booking = [status |-> "CONFIRMED", deposit |-> deposit,
                refund |-> "unset"]
  /\ payment = [status |-> "SUCCESS", gateway |-> "none", amount |-> deposit,
                tx |-> "manual", refunded |-> FALSE]
  /\ payout = TRUE

Init ==
  /\ \E deposit \in 0..Total : Held(deposit) \/ Bypassed(deposit)
  /\ lapsed = FALSE
  /\ charge = [o \in Orders |-> "none"]
  /\ pc = [c \in Calls |-> "idle"]
  /\ order = [c \in Calls |-> "own"]
  /\ refund = [stage |-> "none", left |-> 0]
  /\ raced = FALSE

-----------------------------------------------------------------------------
(***************************************************************************)
(* Paying                                                                  *)
(***************************************************************************)

\* initiatePayment, the reads before its transaction.
ReadHold(c) ==
  /\ c \in Initiations
  /\ pc[c] = "idle"
  /\ booking.status = "HELD"
  /\ ~lapsed
  /\ payment = NoPayment
  /\ Reach(c, "cleared")
  /\ UNCHANGED <<booking, payment, payout, lapsed, charge, refund, raced>>

\* Its transaction: booking_id is unique among the payments; the booking is
\* written whatever its status has become.
WritePayment(c) ==
  /\ c \in Initiations
  /\ pc[c] = "cleared"
  /\ payment = NoPayment
  /\ \E g \in Online :
       payment' = [status |-> "INITIATED", gateway |-> g,
                   amount |-> IF booking.deposit > 0 THEN booking.deposit
                                                     ELSE Total,
                   tx |-> "unset", refunded |-> FALSE]
  /\ booking' = [booking EXCEPT !.status = "PENDING_PAYMENT"]
  /\ lapsed' = FALSE
  /\ Reach(c, "done")
  /\ UNCHANGED <<payout, charge, refund, raced>>

RefusePayment(c) ==
  /\ c \in Initiations
  /\ pc[c] = "cleared"
  /\ payment # NoPayment
  /\ Reach(c, "refused")
  /\ UNCHANGED <<booking, payment, payout, lapsed, charge, refund, raced>>

\* An order is paid at the gateway, which knows nothing of the hold.
Capture(o) ==
  /\ o = "own" => payment # NoPayment /\ payment.gateway \in Online
  /\ charge[o] = "none"
  /\ charge' = [charge EXCEPT ![o] = "captured"]
  /\ UNCHANGED <<booking, payment, payout, lapsed, pc, order, refund, raced>>

\* An order's money goes back with the refund of another booking.  Only
\* Khalti's orders are returned by a refund job.
ReturnElsewhere(o) ==
  /\ charge[o] = "captured"
  /\ o = "own" => payment.gateway = "KHALTI"
  /\ charge' = [charge EXCEPT ![o] = "elsewhere"]
  /\ UNCHANGED <<booking, payment, payout, lapsed, pc, order, refund, raced>>

-----------------------------------------------------------------------------
(***************************************************************************)
(* Verifying                                                               *)
(***************************************************************************)

\* Mutant of Verifiable: no check of the payment's status.
VerifiableAlways(p, o) ==
  /\ p # NoPayment
  /\ p.gateway \in Online
  /\ o = "own" \/ p.gateway = "KHALTI"

\* verifyKhalti goes on only with an INITIATED payment, and asks about the
\* order its caller names, also of a payment begun at eSewa; verifyEsewa goes
\* on with any payment that is not SUCCESS, and the answer it is given names
\* the booking.
Verifiable(p, o) ==
  /\ p # NoPayment
  /\ \/ p.status = "INITIATED" /\ (o = "own" => p.gateway = "KHALTI")
     \/ p.status # "SUCCESS" /\ o = "own" /\ p.gateway = "ESEWA"

AnotherVerifies(c) == \E d \in Checkers \ {c} : pc[d] \in Verifying

BeginVerify(c) ==
  /\ c \in Verifications
  /\ pc[c] = "idle"
  /\ \E o \in Orders : Verifiable(payment, o) /\ Ask(c, o)
  /\ raced' = (raced \/ AnotherVerifies(c))
  /\ UNCHANGED <<booking, payment, payout, lapsed, charge, refund>>

\* What the gateway says of an order: Completed, or COMPLETE.
PaidOnline(o) == charge[o] = "captured"

\* The gateway's answer about the order it was asked about.
Answer(c) ==
  /\ c \in Checkers
  /\ pc[c] = "asking"
  /\ Reach(c, IF PaidOnline(order[c]) THEN "verified" ELSE "unpaid")
  /\ UNCHANGED <<booking, payment, payout, lapsed, charge, refund, raced>>

\* The gateway does not answer: the lookup times out or is refused.
NoAnswer(c) ==
  /\ c \in Checkers
  /\ pc[c] = "asking"
  /\ Throw(c)
  /\ UNCHANGED <<booking, payment, payout, lapsed, charge, refund, raced>>

\* The gateway says otherwise than completed.
MarkFailed(c) ==
  /\ c \in Checkers
  /\ pc[c] = "unpaid"
  /\ payment' = [payment EXCEPT !.status = "FAILED"]
  /\ Throw(c)
  /\ UNCHANGED <<booking, payout, lapsed, charge, refund, raced>>

\* confirmPayment, the read of the booking and the comparison of the amount
\* the gateway gave with the deposit.
ReadBooking(c) ==
  /\ c \in Checkers
  /\ pc[c] = "verified"
  /\ IF /\ booking.status = "PENDING_PAYMENT"
        /\ Amount(order[c]) = booking.deposit
     THEN Reach(c, "confirming")
     ELSE Throw(c)
  /\ UNCHANGED <<booking, payment, payout, lapsed, charge, refund, raced>>

\* Mutant of Confirmable: the update of the booking has no condition.
ConfirmableAlways(b) == TRUE

\* The condition of the update of the booking in confirmPayment.
Confirmable(b) == b.status = "PENDING_PAYMENT"

\* confirmPayment, the transaction: the payment, the booking, the payout.
Confirm(c) ==
  /\ c \in Checkers
  /\ pc[c] = "confirming"
  /\ Confirmable(booking)
  /\ payment' = [payment EXCEPT !.status = "SUCCESS",
                                   !.tx = order[c]]
  /\ booking' = [booking EXCEPT !.status = "CONFIRMED"]
  /\ payout' = TRUE
  /\ End(c, IF c \in Recons THEN "idle" ELSE "done")
  /\ UNCHANGED <<lapsed, charge, refund, raced>>

\* The update of the booking finds no row: everything is rolled back.
RollBack(c) ==
  /\ c \in Checkers
  /\ pc[c] = "confirming"
  /\ ~Confirmable(booking)
  /\ Throw(c)
  /\ UNCHANGED <<booking, payment, payout, lapsed, charge, refund, raced>>

-----------------------------------------------------------------------------
(***************************************************************************)
(* Expiring and reconciling                                                *)
(***************************************************************************)
Lapse ==
  /\ Unpaid(booking)
  /\ ~lapsed
  /\ lapsed' = TRUE
  /\ UNCHANGED <<booking, payment, payout, charge, pc, order, refund, raced>>

SelectExpired(c) ==
  /\ c \in Expiries
  /\ pc[c] = "idle"
  /\ Unpaid(booking)
  /\ lapsed
  /\ Reach(c, "selected")
  /\ UNCHANGED <<booking, payment, payout, lapsed, charge, refund, raced>>

\* The reconciliation of one stale payment: without a transaction id it lets
\* the booking expire, with one it asks Khalti, unless the payment succeeded,
\* and leaves eSewa alone.
SelectStale(c) ==
  /\ c \in Recons
  /\ pc[c] = "idle"
  /\ booking.status = "PENDING_PAYMENT"
  /\ lapsed
  /\ payment.tx # "unset" =>
       payment.gateway = "KHALTI" /\ payment.status # "SUCCESS"
  /\ LET asks == payment.tx \in Orders /\ Verifiable(payment, payment.tx)
     IN  /\ IF asks THEN Ask(c, payment.tx) ELSE Reach(c, "selected")
         /\ raced' = (raced \/ (asks /\ AnotherVerifies(c)))
  /\ UNCHANGED <<booking, payment, payout, lapsed, charge, refund>>

\* Mutant of Expire: the update is of the booking, whatever its status.
ExpireAlways(c) ==
  /\ c \in Sweeps
  /\ pc[c] = "selected"
  /\ booking' = [booking EXCEPT !.status = "EXPIRED"]
  /\ Reach(c, "idle")
  /\ UNCHANGED <<payment, payout, lapsed, charge, refund, raced>>

\* Mutant of Expire: only a booking that nobody has begun to pay for.
ExpireHeld(c) ==
  /\ c \in Sweeps
  /\ pc[c] = "selected"
  /\ booking' = IF booking.status = "HELD"
                THEN [booking EXCEPT !.status = "EXPIRED"] ELSE booking
  /\ Reach(c, "idle")
  /\ UNCHANGED <<payment, payout, lapsed, charge, refund, raced>>

\* expireBooking.
Expire(c) ==
  /\ c \in Sweeps
  /\ pc[c] = "selected"
  /\ booking' = IF Unpaid(booking)
                THEN [booking EXCEPT !.status = "EXPIRED"] ELSE booking
  /\ Reach(c, "idle")
  /\ UNCHANGED <<payment, payout, lapsed, charge, refund, raced>>

-----------------------------------------------------------------------------
(***************************************************************************)
(* Cancelling and refunding                                                *)
(***************************************************************************)

\* cancelBooking holds the row FOR UPDATE NOWAIT: one step.  Whether a refund
\* is due depends on the notice given and the venue's policy.
CancelBooking ==
  /\ booking.status = "CONFIRMED"
  /\ \E due \in BOOLEAN :
       /\ booking' = [booking EXCEPT !.status = "CANCELLED",
                        !.refund = IF due THEN "pending" ELSE "none"]
       /\ refund' = IF due THEN [refund EXCEPT !.stage = "owed"] ELSE refund
  /\ UNCHANGED <<payment, payout, lapsed, charge, pc, order, raced>>

\* After the commit: the job is added to the queue, or the process dies or
\* the queue refuses it.
EnqueueRefund ==
  /\ refund.stage = "owed"
  /\ refund' \in {[stage |-> "waiting", left |-> MaxAttempts],
                  [stage |-> "lost", left |-> 0]}
  /\ UNCHANGED <<booking, payment, payout, lapsed, charge, pc, order, raced>>

\* Mutant of FailAttempt: a failed attempt is not counted.
FailAttemptUncounted == refund' = [refund EXCEPT !.stage = "waiting"]

\* An attempt ends without a result: the queue has another one made while
\* there are attempts left.
FailAttempt ==
  refund' = [stage |-> IF refund.left > 1 THEN "waiting" ELSE "failed",
             left |-> refund.left - 1]

\* A payment that can be refunded through Khalti and has not been.
CanCall(p) == ~p.refunded /\ p.tx \in Orders /\ p.gateway = "KHALTI"

\* RefundProcessor.process, what it does before it asks a gateway.
StartRefund ==
  /\ refund.stage = "waiting"
  /\ CASE payment.refunded ->
            /\ refund' = [refund EXCEPT !.stage = "done"]
            /\ UNCHANGED booking
       [] CanCall(payment) ->
            /\ refund' = [refund EXCEPT !.stage = "calling"]
            /\ UNCHANGED booking
       [] /\ ~payment.refunded
          /\ payment.tx # "unset"
          /\ payment.gateway = "ESEWA" ->
            /\ refund' = [refund EXCEPT !.stage = "done"]
            /\ booking' = [booking EXCEPT !.refund = "manual_required"]
       [] OTHER -> FailAttempt /\ UNCHANGED booking
  /\ UNCHANGED <<payment, payout, lapsed, charge, pc, order, raced>>

\* Khalti returns the money of the order whose id the payment has, unless
\* that was done before, and its answer arrives or is lost.
Return ==
  /\ refund.stage = "calling"
  /\ charge' = IF charge[payment.tx] = "captured"
               THEN [charge EXCEPT ![payment.tx] = "returned"] ELSE charge
  /\ \/ refund' = [refund EXCEPT !.stage = "answered"]
     \/ FailAttempt
  /\ UNCHANGED <<booking, payment, payout, lapsed, pc, order, raced>>

\* Mutant of Decline: the status of the answer is not checked.
DeclineUnchecked ==
  /\ refund.stage = "calling"
  /\ refund' = [refund EXCEPT !.stage = "answered"]
  /\ UNCHANGED <<booking, payment, payout, lapsed, charge, pc, order, raced>>

\* Khalti is not reached, or refuses.
Decline ==
  /\ refund.stage = "calling"
  /\ FailAttempt
  /\ UNCHANGED <<booking, payment, payout, lapsed, charge, pc, order, raced>>

\* The transaction that records the refund.
RecordRefund ==
  /\ refund.stage = "answered"
  /\ payment' = [payment EXCEPT !.status = "REFUNDED", !.refunded = TRUE]
  /\ booking' = [booking EXCEPT !.refund = "done"]
  /\ refund' = [refund EXCEPT !.stage = "done"]
  /\ UNCHANGED <<payout, lapsed, charge, pc, order, raced>>

\* A statement of the attempt fails, or its worker dies.
LoseAttempt ==
  /\ refund.stage \in {"waiting", "answered"}
  /\ FailAttempt
  /\ UNCHANGED <<booking, payment, payout, lapsed, charge, pc, order, raced>>

-----------------------------------------------------------------------------
Initiate(c) == ReadHold(c) \/ WritePayment(c) \/ RefusePayment(c)

Verify(c) ==
  \/ Answer(c) \/ NoAnswer(c) \/ MarkFailed(c)
  \/ ReadBooking(c) \/ Confirm(c) \/ RollBack(c)

Sweep(c) == SelectExpired(c) \/ SelectStale(c) \/ Expire(c)

RefundStep ==
  StartRefund \/ Return \/ Decline \/ RecordRefund \/ LoseAttempt

Next ==
  \/ \E c \in Calls : Initiate(c) \/ BeginVerify(c) \/ Verify(c) \/ Sweep(c)
  \/ \E o \in Orders : Capture(o) \/ ReturnElsewhere(o)
  \/ Lapse \/ CancelBooking \/ EnqueueRefund \/ RefundStep

Spec == Init /\ [][Next]_vars

\* Time passes, the scheduler runs the recurring jobs, statements of a call
\* follow one another, the queue hands out the job that waits.
FairSpec ==
  /\ Spec
  /\ WF_vars(Lapse)
  /\ \A c \in Sweeps : WF_vars(Verify(c) \/ Sweep(c))
  /\ \A c \in Initiations : WF_vars(WritePayment(c) \/ RefusePayment(c))
  /\ WF_vars(EnqueueRefund \/ RefundStep)

-----------------------------------------------------------------------------
TypeOK ==
  /\ booking \in [status: BookingStatus, deposit: 0..Total,
                  refund: RefundStatus]
  /\ payment \in Payments \union {NoPayment}
  /\ payout \in BOOLEAN
  /\ lapsed \in BOOLEAN
  /\ charge \in [Orders -> Charges]
  /\ pc \in [Calls -> Stages]
  /\ order \in [Calls -> Orders]
  /\ refund \in [stage: JobStages, left: 0..MaxAttempts]
  /\ raced \in BOOLEAN

\* A booking is confirmed only on money: what confirmPayment confirms has the
\* id of an order that the gateway captured, in the amount of the deposit, and
\* this booking's refund has not returned it.  However verifications, sweeps
\* and a cancellation interleave, confirmPayment confirms on an answer about
\* the very order it records, and never brings back a booking whose money its
\* refund returned.  It is NOT said that the order is this booking's own, nor
\* that no other booking was confirmed with it: the code checks neither.
ConfirmedIsCaptured ==
  booking.status = "CONFIRMED" /\ payment.gateway \in Online =>
    /\ payment.tx \in Orders
    /\ charge[payment.tx] \in {"captured", "elsewhere"}
    /\ Amount(payment.tx) = booking.deposit

\* The owner is owed a payout exactly for the bookings that were confirmed:
\* neither a sweep that selected the booking before it was paid nor an
\* initiatePayment that writes its status unconditionally takes a confirmed
\* booking back, and no expired one has a payout.
PayoutIffBooked == payout <=> booking.status \in Booked

\* What the books say of a refund the gateway has done: refund_status done and
\* refund_completed_at go together, and are written only after the money went
\* back, whatever attempts failed, were repeated or lost their answer.  Only
\* the order the cancelled booking was confirmed with is returned.
RefundIsReal ==
  /\ booking.refund = "done" <=> payment # NoPayment /\ payment.refunded
  /\ booking.refund = "done" => charge[payment.tx] \in Returned
  /\ \A o \in Orders :
       charge[o] = "returned" =>
         /\ booking.status = "CANCELLED"
         /\ payment.gateway = "KHALTI"
         /\ payment.tx = o

\* verifyKhalti and verifyEsewa write FAILED without looking at the payment
\* again.  The payment of a confirmed booking is FAILED only when one
\* verification overtook another.
FailedOnlyIfRaced ==
  booking.status \in Booked /\ payment.status = "FAILED" => raced

\* Reconciliation: "if paid, confirm; if not, expire".  A booking whose own
\* order the gateway has captured does not expire.
PaidIsNotExpired ==
  [][booking.status # "EXPIRED" /\ booking'.status = "EXPIRED"
       => charge["own"] # "captured"]_vars

\* A hold does not block its slot for ever: the sweeps see to it, also when
\* initiatePayment brings an expired booking back.
HoldIsResolved == Unpaid(booking) ~> ~Unpaid(booking)

\* A refund that reached the queue ends: it is done, is left to be made by
\* hand, or has used up its attempts.
RefundIsSettled ==
  booking.refund = "pending" ~>
    \/ booking.refund \in {"done", "manual_required"}
    \/ refund.stage \in {"lost", "failed"}
=============================================================================
