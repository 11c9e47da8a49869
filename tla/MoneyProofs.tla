---------------------------- MODULE MoneyProofs -----------------------------
(***************************************************************************)
(* Proofs about the money: that of one booking, in HoldPayment, and what   *)
(* is owed to the owner of a venue, in Payouts.                            *)
(***************************************************************************)
EXTENDS HoldPayment, Payouts, SumsProofs, FiniteSetTheorems, TLAPS

-----------------------------------------------------------------------------
(***************************************************************************)
(* What the books say of the money of a booking, for any number of calls,  *)
(* sweeps and refund attempts.  One inductive invariant carries it: what a *)
(* call has learned from the gateway stays true until the booking has been *)
(* cancelled, and the conditional updates refuse what comes after that.    *)
(***************************************************************************)

\* A booking without a payment row has not been paid or confirmed.
NoPaymentYet ==
  /\ payment = NoPayment =>
       booking.status \in {"HELD", "EXPIRED"} /\ charge["own"] = "none"
  /\ booking.status = "HELD" => payment = NoPayment

\* What a verification knows, and only verifications are ever verifying: an
\* order it has seen captured was not returned since by this booking's refund,
\* unless the booking was cancelled, and has the amount it compared.
AnswersHold ==
  \A c \in Calls :
    /\ pc[c] \in Verifying =>
         c \in Checkers /\ payment # NoPayment /\ payment.gateway \in Online
    /\ pc[c] \in {"verified", "confirming"} =>
         \/ charge[order[c]] \in {"captured", "elsewhere"}
         \/ booking.status = "CANCELLED"
    /\ pc[c] = "confirming" => Amount(order[c]) = booking.deposit

\* Two verifications at once, or one that outlives the confirmation, have
\* raced; a confirmed payment is never INITIATED again.
RacesAreNoted ==
  /\ \A c, d \in Calls :
       c # d /\ pc[c] \in Verifying /\ pc[d] \in Verifying => raced
  /\ \A c \in Calls :
       booking.status \in Booked /\ pc[c] \in Verifying => raced
  /\ booking.status \in Booked => payment.status # "INITIATED"
  /\ payment # NoPayment /\ payment.status = "REFUNDED" => payment.refunded

\* The refund job exists only for a cancelled booking, and asks only Khalti.
JobIsFounded ==
  /\ refund.stage # "none" \/ booking.refund = "done" =>
       booking.status = "CANCELLED"
  /\ refund.stage \in {"calling", "answered"} =>
       /\ payment # NoPayment
       /\ payment.gateway = "KHALTI"
       /\ payment.tx \in Orders
  /\ refund.stage = "answered" => charge[payment.tx] \in Returned
  /\ refund.stage = "waiting" => refund.left > 0
  /\ refund.stage \in {"calling", "answered"} => refund.left > 0

\* No gateway has an account of a cash payment, which nobody verifies; a
\* transaction id that is an order's was written by confirmPayment.
CashIsNotCharged ==
  /\ payment # NoPayment /\ payment.gateway = "none" =>
       charge["own"] = "none" /\ payment.status = "SUCCESS"
  /\ payment # NoPayment /\ payment.tx \in Orders =>
       booking.status \in Booked /\ charge[payment.tx] # "none"
  /\ payment # NoPayment /\ payment.refunded =>
       payment.tx \in Orders /\ payment.gateway = "KHALTI"

MoneyInv ==
  /\ TypeOK
  /\ NoPaymentYet
  /\ AnswersHold
  /\ RacesAreNoted
  /\ JobIsFounded
  /\ CashIsNotCharged
  /\ ConfirmedIsCaptured
  /\ PayoutIffBooked
  /\ RefundIsReal
  /\ FailedOnlyIfRaced
-----------------------------------------------------------------------------
\* Rows that are written keep their shape.
LEMMA PaymentRows ==
  /\ \A g \in Online, a \in 0..Total :
       [status |-> "INITIATED", gateway |-> g, amount |-> a, tx |-> "unset",
        refunded |-> FALSE] \in Payments
  /\ \A d \in 0..Total :
       [status |-> "SUCCESS", gateway |-> "none", amount |-> d,
        tx |-> "manual", refunded |-> FALSE] \in Payments
  /\ \A p \in Payments, s \in PaymentStatus :
       /\ [p EXCEPT !.status = s] \in Payments
       /\ \A o \in Orders : [p EXCEPT !.status = s, !.tx = o] \in Payments
       /\ [p EXCEPT !.status = s, !.refunded = TRUE] \in Payments
  /\ \A p \in Payments : p # NoPayment
<1>1. \A g \in Online, a \in 0..Total :
        [status |-> "INITIATED", gateway |-> g, amount |-> a, tx |-> "unset",
         refunded |-> FALSE] \in Payments
  BY DEF Payments, PaymentStatus, Gateways, TxIds
<1>2. \A d \in 0..Total :
        [status |-> "SUCCESS", gateway |-> "none", amount |-> d,
         tx |-> "manual", refunded |-> FALSE] \in Payments
  BY DEF Payments, PaymentStatus, Gateways, TxIds
<1>3. ASSUME NEW p \in Payments, NEW s \in PaymentStatus
      PROVE  /\ [p EXCEPT !.status = s] \in Payments
             /\ [p EXCEPT !.status = s, !.refunded = TRUE] \in Payments
  BY <1>3 DEF Payments
<1>4. ASSUME NEW p \in Payments, NEW s \in PaymentStatus, NEW o \in Orders
      PROVE  [p EXCEPT !.status = s, !.tx = o] \in Payments
  <2>1. o \in TxIds
    BY DEF TxIds
  <2> QED
    BY <2>1 DEF Payments
<1>5. \A p \in Payments : p # NoPayment
  BY NoPaymentAssumption
<1> QED
  BY <1>1, <1>2, <1>3, <1>4, <1>5

\* What changes with the status, and what does not.
LEMMA StatusWrite ==
  ASSUME NEW p \in Payments, NEW s \in PaymentStatus
  PROVE  LET q == [p EXCEPT !.status = s] IN
         /\ q.status = s
         /\ q.gateway = p.gateway /\ q.amount = p.amount
         /\ q.refunded = p.refunded /\ q.tx = p.tx
BY DEF Payments

BookedRows == [status: BookingStatus, deposit: 0..Total, refund: RefundStatus]

LEMMA BookingRows ==
  \A b \in BookedRows :
    /\ \A s \in BookingStatus : [b EXCEPT !.status = s] \in BookedRows
    /\ \A r \in RefundStatus : [b EXCEPT !.refund = r] \in BookedRows
    /\ \A s \in BookingStatus, r \in RefundStatus :
         [b EXCEPT !.status = s, !.refund = r] \in BookedRows
BY DEF BookedRows, BookingStatus, RefundStatus

LEMMA InitTypes == Init => TypeOK
<1> SUFFICES ASSUME Init PROVE TypeOK
  OBVIOUS
<1>1. /\ booking \in BookedRows
      /\ payment \in Payments \union {NoPayment}
      /\ payout \in BOOLEAN
  <2> PICK d \in 0..Total : Held(d) \/ Bypassed(d)
    BY DEF Init
  <2>1. CASE Held(d)
    BY <2>1 DEF Held, BookedRows, BookingStatus, RefundStatus
  <2>2. CASE Bypassed(d)
    BY <2>2, PaymentRows DEF Bypassed, BookedRows, BookingStatus, RefundStatus
  <2> QED
    BY <2>1, <2>2
<1>2. /\ pc \in [Calls -> Stages] /\ order \in [Calls -> Orders]
      /\ charge \in [Orders -> Charges]
      /\ refund \in [stage: JobStages, left: 0..MaxAttempts]
  BY AmountsAssumption DEF Init, Stages, JobStages, Orders, Charges
<1> QED
  BY <1>1, <1>2 DEF Init, TypeOK, BookedRows

\* What the types of a step rest on besides the types before it.
LEMMA TypeStep ==
  ASSUME TypeOK, AnswersHold, JobIsFounded, [Next]_vars
  PROVE  TypeOK'
<1> USE DEF TypeOK, BookedRows
<1>1. ASSUME NEW c \in Calls, Initiate(c) PROVE TypeOK'
  <2>1. CASE ReadHold(c)
    BY <2>1 DEF ReadHold, Reach, Stages
  <2>2. CASE WritePayment(c)
    <3> PICK g \in Online :
          payment' = [status |-> "INITIATED", gateway |-> g,
                      amount |-> IF booking.deposit > 0 THEN booking.deposit
                                                        ELSE Total,
                      tx |-> "unset", refunded |-> FALSE]
      BY <2>2 DEF WritePayment
    <3>a. (IF booking.deposit > 0 THEN booking.deposit ELSE Total) \in 0..Total
      BY AmountsAssumption
    <3>1. payment' \in Payments
      BY <3>a, PaymentRows
    <3>2. booking' \in BookedRows
      BY <2>2, BookingRows DEF WritePayment, BookingStatus
    <3> QED
      BY <2>2, <3>1, <3>2 DEF WritePayment, Reach, Stages
  <2>3. CASE RefusePayment(c)
    BY <2>3 DEF RefusePayment, Reach, Stages
  <2> QED
    BY <1>1, <2>1, <2>2, <2>3 DEF Initiate
<1>2. ASSUME NEW c \in Calls, BeginVerify(c) PROVE TypeOK'
  BY <1>2 DEF BeginVerify, Ask, Stages
<1>3. ASSUME NEW c \in Calls, Verify(c) PROVE TypeOK'
  <2>1. pc[c] \in Verifying => payment \in Payments
    BY DEF AnswersHold
  <2>2. Throw(c) => pc' \in [Calls -> Stages] /\ order' \in [Calls -> Orders]
    BY DEF Throw, End, Stages, Orders
  <2>3. CASE Answer(c)
    BY <2>3 DEF Answer, Reach, Stages
  <2>4. CASE NoAnswer(c) \/ RollBack(c)
    BY <2>2, <2>4 DEF NoAnswer, RollBack
  <2>5. CASE MarkFailed(c)
    <3>1. payment' \in Payments
      BY <2>1, <2>5, PaymentRows DEF MarkFailed, Verifying, PaymentStatus
    <3> QED
      BY <2>2, <2>5, <3>1 DEF MarkFailed
  <2>6. CASE ReadBooking(c)
    BY <2>2, <2>6 DEF ReadBooking, Reach, Stages
  <2>7. CASE Confirm(c)
    <3>1. payment' \in Payments
      BY <2>1, <2>7, PaymentRows DEF Confirm, Verifying, PaymentStatus
    <3>2. booking' \in BookedRows
      BY <2>7, BookingRows DEF Confirm, BookingStatus
    <3> QED
      BY <2>7, <3>1, <3>2 DEF Confirm, End, Stages, Orders
  <2> QED
    BY <1>3, <2>3, <2>4, <2>5, <2>6, <2>7 DEF Verify
<1>4. ASSUME NEW c \in Calls, Sweep(c) PROVE TypeOK'
  <2>1. CASE SelectExpired(c)
    BY <2>1 DEF SelectExpired, Reach, Stages
  <2>2. CASE SelectStale(c)
    BY <2>2 DEF SelectStale, Ask, Reach, Stages
  <2>3. CASE Expire(c)
    <3>1. booking' \in BookedRows
      BY <2>3, BookingRows DEF Expire, BookingStatus
    <3> QED
      BY <2>3, <3>1 DEF Expire, Reach, Stages
  <2> QED
    BY <1>4, <2>1, <2>2, <2>3 DEF Sweep
<1>5. ASSUME NEW o \in Orders, Capture(o) \/ ReturnElsewhere(o) PROVE TypeOK'
  BY <1>5 DEF Capture, ReturnElsewhere, Charges
<1>10. CASE Lapse
  BY <1>10 DEF Lapse
<1>6. CASE CancelBooking
  <2>1. booking' \in BookedRows
    <3> PICK due \in BOOLEAN :
          booking' = [booking EXCEPT !.status = "CANCELLED",
                        !.refund = IF due THEN "pending" ELSE "none"]
      BY <1>6 DEF CancelBooking
    <3>1. /\ "CANCELLED" \in BookingStatus
          /\ (IF due THEN "pending" ELSE "none") \in RefundStatus
      BY DEF BookingStatus, RefundStatus
    <3> QED
      BY <3>1, BookingRows
  <2>2. refund' \in [stage: JobStages, left: 0..MaxAttempts]
    BY <1>6 DEF CancelBooking, JobStages
  <2> QED
    BY <1>6, <2>1, <2>2 DEF CancelBooking
<1>7. CASE EnqueueRefund
  BY <1>7, AmountsAssumption DEF EnqueueRefund, JobStages
<1>8. CASE RefundStep
  <2>1. FailAttempt /\ refund.left > 0 =>
          refund' \in [stage: JobStages, left: 0..MaxAttempts]
    BY AmountsAssumption DEF FailAttempt, JobStages
  <2>2. CASE StartRefund
    <3>1. booking' \in BookedRows
      <4>1. \/ booking' = booking
            \/ booking' = [booking EXCEPT !.refund = "manual_required"]
        BY <2>2 DEF StartRefund
      <4>2. "manual_required" \in RefundStatus
        BY DEF RefundStatus
      <4> QED
        BY <4>1, <4>2, BookingRows
    <3>2. refund' \in [stage: JobStages, left: 0..MaxAttempts]
      BY <2>1, <2>2 DEF StartRefund, JobIsFounded, JobStages
    <3> QED
      BY <2>2, <3>1, <3>2 DEF StartRefund
  <2>3. CASE Return \/ Decline
    BY <2>1, <2>3
    DEF Return, Decline, JobIsFounded, JobStages, Orders, Charges
  <2>4. CASE RecordRefund
    <3>1. payment' \in Payments
      BY <2>4, PaymentRows DEF RecordRefund, JobIsFounded, PaymentStatus
    <3>2. booking' \in BookedRows
      BY <2>4, BookingRows DEF RecordRefund, RefundStatus
    <3> QED
      BY <2>4, <3>1, <3>2 DEF RecordRefund, JobStages
  <2>5. CASE LoseAttempt
    BY <2>1, <2>5 DEF LoseAttempt, JobIsFounded
  <2> QED
    BY <1>8, <2>2, <2>3, <2>4, <2>5 DEF RefundStep
<1>9. CASE UNCHANGED vars
  BY <1>9 DEF vars
<1> QED
  BY <1>1, <1>2, <1>3, <1>4, <1>5, <1>6, <1>7, <1>8, <1>9, <1>10 DEF Next

-----------------------------------------------------------------------------
\* What a step does to the invariant, given the types on both sides of it.
LEMMA StepHolds == MoneyInv /\ [Next]_vars => MoneyInv'
<1> SUFFICES ASSUME MoneyInv, [Next]_vars PROVE MoneyInv'
  OBVIOUS
<1>0. TypeOK /\ TypeOK'
  BY TypeStep DEF MoneyInv
<1> USE DEF MoneyInv, NoPaymentYet, AnswersHold, RacesAreNoted, JobIsFounded,
  CashIsNotCharged, ConfirmedIsCaptured, PayoutIffBooked, RefundIsReal,
  FailedOnlyIfRaced, Verifying, Online, Booked, Amount, Returned
<1>1. ASSUME NEW c \in Calls, ReadHold(c) PROVE MoneyInv'
  BY <1>0, <1>1 DEF TypeOK, ReadHold, Reach
<1>2. ASSUME NEW c \in Calls, WritePayment(c) PROVE MoneyInv'
  <2>1. /\ payment' # NoPayment
        /\ payment'.gateway \in Online
        /\ payment'.status = "INITIATED"
        /\ ~payment'.refunded /\ payment'.tx = "unset"
        /\ booking'.status = "PENDING_PAYMENT"
        /\ booking'.refund = booking.refund
    <3> PICK g \in Online :
          payment' = [status |-> "INITIATED", gateway |-> g,
                      amount |-> IF booking.deposit > 0 THEN booking.deposit
                                                        ELSE Total,
                      tx |-> "unset", refunded |-> FALSE]
      BY <1>2 DEF WritePayment
    <3>1. (IF booking.deposit > 0 THEN booking.deposit ELSE Total) \in 0..Total
      BY <1>0, AmountsAssumption DEF TypeOK
    <3>2. payment' \in Payments
      BY <3>1, PaymentRows
    <3> QED
      BY <1>0, <1>2, <3>2, PaymentRows DEF TypeOK, WritePayment
  <2>2. NoPaymentYet'
    BY <1>0, <1>2, <2>1 DEF TypeOK, WritePayment, Reach
  <2>3. AnswersHold'
    BY <1>0, <1>2, <2>1 DEF TypeOK, WritePayment, Reach
  <2>4. RacesAreNoted'
    BY <1>0, <1>2, <2>1 DEF TypeOK, WritePayment, Reach
  <2>5. JobIsFounded'
    BY <1>0, <1>2, <2>1 DEF TypeOK, WritePayment, Reach
  <2>6. CashIsNotCharged'
    BY <1>0, <1>2, <2>1 DEF TypeOK, WritePayment, Reach, Orders
  <2>7. ConfirmedIsCaptured'
    BY <1>0, <1>2, <2>1 DEF TypeOK, WritePayment, Reach
  <2>8. PayoutIffBooked'
    BY <1>0, <1>2, <2>1 DEF TypeOK, WritePayment, Reach
  <2>9. RefundIsReal'
    BY <1>0, <1>2, <2>1 DEF TypeOK, WritePayment, Reach
  <2>10. FailedOnlyIfRaced'
    BY <1>0, <1>2, <2>1 DEF TypeOK, WritePayment, Reach
  <2> QED
    BY <1>0, <2>2, <2>3, <2>4, <2>5, <2>6, <2>7, <2>8, <2>9, <2>10
<1>3. ASSUME NEW c \in Calls, RefusePayment(c) PROVE MoneyInv'
  BY <1>0, <1>3 DEF TypeOK, RefusePayment, Reach
<1>4. ASSUME NEW c \in Calls, BeginVerify(c) PROVE MoneyInv'
  <2>1. NoPaymentYet'
    BY <1>0, <1>4 DEF TypeOK, BeginVerify, Ask, Verifiable, AnotherVerifies
  <2>2. AnswersHold'
    <3>1. PICK o \in Orders : Verifiable(payment, o) /\ Ask(c, o)
      BY <1>4 DEF BeginVerify
    <3>2. payment # NoPayment /\ payment.gateway \in Online
      BY <1>0, <3>1, PaymentRows DEF TypeOK, Verifiable, Payments, Gateways
    <3>3. /\ \A d \in Calls \ {c} : pc'[d] = pc[d] /\ order'[d] = order[d]
          /\ pc'[c] = "asking" /\ c \in Checkers
      BY <1>0, <1>4, <3>1 DEF TypeOK, BeginVerify, Ask, Checkers
    <3> QED
      BY <1>4, <3>2, <3>3 DEF BeginVerify
  <2>3. RacesAreNoted'
    <3>1. /\ \A d \in Calls \ {c} : pc'[d] = pc[d]
          /\ UNCHANGED <<booking, payment>>
          /\ raced => raced'
      BY <1>0, <1>4 DEF TypeOK, BeginVerify, Ask
    <3>2. \A d \in Calls : pc[d] \in Verifying => d \in Checkers
      OBVIOUS
    <3>3. ASSUME NEW d \in Calls \ {c}, pc[d] \in Verifying,
                 pc'[c] \in Verifying
          PROVE  raced'
      BY <1>0, <1>4, <3>2, <3>3 DEF TypeOK, BeginVerify, Ask, AnotherVerifies
    <3>4. booking.status \in Booked /\ pc'[c] \in Verifying => raced'
      BY <1>0, <1>4, PaymentRows DEF TypeOK, BeginVerify, Verifiable,
         Payments, PaymentStatus
    <3> QED
      BY <3>1, <3>3, <3>4
  <2>4. JobIsFounded'
    BY <1>0, <1>4 DEF TypeOK, BeginVerify, Ask, Verifiable, AnotherVerifies
  <2>5. CashIsNotCharged'
    BY <1>0, <1>4 DEF TypeOK, BeginVerify, Ask, Verifiable, AnotherVerifies
  <2>6. ConfirmedIsCaptured'
    BY <1>0, <1>4 DEF TypeOK, BeginVerify, Ask, Verifiable, AnotherVerifies
  <2>7. PayoutIffBooked'
    BY <1>0, <1>4 DEF TypeOK, BeginVerify, Ask, Verifiable, AnotherVerifies
  <2>8. RefundIsReal'
    BY <1>0, <1>4 DEF TypeOK, BeginVerify, Ask, Verifiable, AnotherVerifies
  <2>9. FailedOnlyIfRaced'
    BY <1>0, <1>4 DEF TypeOK, BeginVerify, Ask, Verifiable, AnotherVerifies
  <2> QED
    BY <1>0, <2>1, <2>2, <2>3, <2>4, <2>5, <2>6, <2>7, <2>8, <2>9
<1>5. ASSUME NEW c \in Calls, Answer(c) PROVE MoneyInv'
  BY <1>0, <1>5 DEF TypeOK, Answer, PaidOnline, Reach
<1>6. ASSUME NEW c \in Calls, NoAnswer(c) PROVE MoneyInv'
  BY <1>0, <1>6 DEF TypeOK, NoAnswer, Throw, End
<1>7. ASSUME NEW c \in Calls, MarkFailed(c) PROVE MoneyInv'
  <2>1. payment \in Payments /\ "FAILED" \in PaymentStatus
    BY <1>0, <1>7 DEF TypeOK, MarkFailed, PaymentStatus
  <2>2. /\ payment' # NoPayment
        /\ payment'.gateway = payment.gateway
        /\ payment'.amount = payment.amount
        /\ payment'.status = "FAILED"
        /\ payment'.refunded = payment.refunded
        /\ payment'.tx = payment.tx
    <3>1. payment' = [payment EXCEPT !.status = "FAILED"]
      BY <1>7 DEF MarkFailed
    <3>2. payment' # NoPayment
      <4>1. payment' \in Payments
        BY <2>1, <3>1, PaymentRows
      <4> QED
        BY <4>1, NoPaymentAssumption
    <3>3. /\ payment'.gateway = payment.gateway
          /\ payment'.amount = payment.amount
          /\ payment'.status = "FAILED"
          /\ payment'.refunded = payment.refunded
          /\ payment'.tx = payment.tx
      BY <2>1, <3>1, StatusWrite
    <3> QED
      BY <3>2, <3>3
  <2>3. /\ pc[c] = "unpaid" /\ Throw(c)
        /\ UNCHANGED <<booking, payout, lapsed, charge, refund, raced>>
        /\ payment' \in Payments
    BY <1>7, <2>1, PaymentRows DEF MarkFailed
  <2>4. /\ pc' \in [Calls -> Stages]
        /\ \A d \in Calls \ {c} : pc'[d] = pc[d] /\ order'[d] = order[d]
        /\ pc'[c] \in {"selected", "refused"}
    BY <1>0, <2>3 DEF TypeOK, Throw, End, Stages
  <2>6. NoPaymentYet' /\ JobIsFounded' /\ CashIsNotCharged'
    BY <1>0, <2>2, <2>3
  <2>7. AnswersHold'
    BY <1>0, <2>1, <2>2, <2>3, <2>4
  <2>8. RacesAreNoted'
    BY <1>0, <1>7, <2>2, <2>3, <2>4 DEF MarkFailed
  <2>9. ConfirmedIsCaptured' /\ PayoutIffBooked' /\ RefundIsReal'
    BY <1>0, <2>1, <2>2, <2>3, PaymentRows
  <2>10. FailedOnlyIfRaced'
    BY <1>0, <1>7, <2>3 DEF MarkFailed
  <2> QED
    BY <1>0, <2>6, <2>7, <2>8, <2>9, <2>10
<1>8. ASSUME NEW c \in Calls, ReadBooking(c) PROVE MoneyInv'
  <2>1. /\ pc[c] = "verified"
        /\ UNCHANGED <<booking, payment, payout, lapsed, charge, refund,
             raced>>
        /\ \/ /\ pc' = [pc EXCEPT ![c] = "confirming"] /\ order' = order
              /\ Amount(order[c]) = booking.deposit
           \/ Throw(c)
    BY <1>8 DEF ReadBooking, Reach
  <2>2. /\ pc' \in [Calls -> Stages]
        /\ \A d \in Calls \ {c} : pc'[d] = pc[d] /\ order'[d] = order[d]
        /\ \/ /\ pc'[c] = "confirming" /\ order'[c] = order[c]
              /\ Amount(order[c]) = booking.deposit
           \/ pc'[c] \in {"selected", "refused"}
    BY <1>0, <2>1 DEF TypeOK, Throw, End, Stages
  <2>4. AnswersHold'
    BY <1>0, <2>1, <2>2
  <2>5. RacesAreNoted'
    BY <1>0, <2>1, <2>2
  <2>6. /\ NoPaymentYet' /\ JobIsFounded' /\ CashIsNotCharged'
        /\ ConfirmedIsCaptured' /\ PayoutIffBooked' /\ RefundIsReal'
        /\ FailedOnlyIfRaced'
    BY <1>0, <2>1
  <2> QED
    BY <1>0, <2>4, <2>5, <2>6
<1>9. ASSUME NEW c \in Calls, Confirm(c) PROVE MoneyInv'
  <2>1. /\ payment # NoPayment /\ payment' # NoPayment
        /\ payment'.gateway = payment.gateway
        /\ payment'.amount = payment.amount
        /\ payment'.status = "SUCCESS"
        /\ payment'.refunded = payment.refunded
        /\ payment'.tx = order[c] /\ order[c] \in Orders
        /\ booking'.status = "CONFIRMED"
        /\ booking'.refund = booking.refund
        /\ booking'.deposit = booking.deposit
    <3>1. payment \in Payments /\ payment # NoPayment
      BY <1>0, <1>9, PaymentRows DEF TypeOK, Confirm
    <3>a. order[c] \in Orders /\ "SUCCESS" \in PaymentStatus
      BY <1>0 DEF TypeOK, PaymentStatus
    <3>2. payment' # NoPayment /\ order[c] \in Orders
      BY <1>9, <3>1, <3>a, PaymentRows DEF Confirm
    <3> QED
      BY <1>0, <1>9, <3>1, <3>2 DEF TypeOK, Confirm, Payments
  <2>2. NoPaymentYet'
    BY <1>0, <1>9, <2>1 DEF TypeOK, Confirm, End, Confirmable
  <2>3. AnswersHold'
    BY <1>0, <1>9, <2>1 DEF TypeOK, Confirm, End, Confirmable
  <2>4. RacesAreNoted'
    BY <1>0, <1>9, <2>1 DEF TypeOK, Confirm, End, Confirmable
  <2>5. JobIsFounded'
    BY <1>0, <1>9, <2>1 DEF TypeOK, Confirm, End, Confirmable
  <2>6. CashIsNotCharged'
    BY <1>0, <1>9, <2>1 DEF TypeOK, Confirm, End, Confirmable
  <2>7. ConfirmedIsCaptured'
    BY <1>0, <1>9, <2>1 DEF TypeOK, Confirm, End, Confirmable
  <2>8. PayoutIffBooked'
    BY <1>0, <1>9, <2>1 DEF TypeOK, Confirm, End, Confirmable
  <2>9. RefundIsReal'
    BY <1>0, <1>9, <2>1 DEF TypeOK, Confirm, End, Confirmable
  <2>10. FailedOnlyIfRaced'
    BY <1>0, <1>9, <2>1 DEF TypeOK, Confirm, End, Confirmable
  <2> QED
    BY <1>0, <2>2, <2>3, <2>4, <2>5, <2>6, <2>7, <2>8, <2>9, <2>10
<1>10. ASSUME NEW c \in Calls, RollBack(c) PROVE MoneyInv'
  BY <1>0, <1>10 DEF TypeOK, RollBack, Throw, End
<1>11. ASSUME NEW c \in Calls, SelectExpired(c) PROVE MoneyInv'
  BY <1>0, <1>11 DEF TypeOK, SelectExpired, Reach
<1>12. ASSUME NEW c \in Calls, SelectStale(c) PROVE MoneyInv'
  <2>1. NoPaymentYet'
    BY <1>0, <1>12 DEF TypeOK, SelectStale, Ask, Reach, Verifiable,
       AnotherVerifies
  <2>2. AnswersHold'
    BY <1>0, <1>12 DEF TypeOK, SelectStale, Ask, Reach, Verifiable, Checkers
  <2>3. RacesAreNoted'
    <3>1. /\ \A d \in Calls \ {c} : pc'[d] = pc[d]
          /\ UNCHANGED <<booking, payment>>
          /\ raced => raced'
      BY <1>0, <1>12 DEF TypeOK, SelectStale, Ask, Reach
    <3>2. \A d \in Calls : pc[d] \in Verifying => d \in Checkers
      OBVIOUS
    <3>3. ASSUME NEW d \in Calls \ {c}, pc[d] \in Verifying,
                 pc'[c] \in Verifying
          PROVE  raced'
      BY <1>0, <1>12, <3>2, <3>3
      DEF TypeOK, SelectStale, Ask, Reach, AnotherVerifies
    <3>4. booking.status \in Booked /\ pc'[c] \in Verifying => raced'
      BY <1>0, <1>12, PaymentRows DEF TypeOK, SelectStale, Verifiable,
         Payments, PaymentStatus
    <3> QED
      BY <3>1, <3>3, <3>4
  <2>4. JobIsFounded'
    BY <1>0, <1>12 DEF TypeOK, SelectStale, Ask, Reach, Verifiable,
       AnotherVerifies
  <2>5. CashIsNotCharged'
    BY <1>0, <1>12 DEF TypeOK, SelectStale, Ask, Reach, Verifiable,
       AnotherVerifies
  <2>6. ConfirmedIsCaptured'
    BY <1>0, <1>12 DEF TypeOK, SelectStale, Ask, Reach, Verifiable,
       AnotherVerifies
  <2>7. PayoutIffBooked'
    BY <1>0, <1>12 DEF TypeOK, SelectStale, Ask, Reach, Verifiable,
       AnotherVerifies
  <2>8. RefundIsReal'
    BY <1>0, <1>12 DEF TypeOK, SelectStale, Ask, Reach, Verifiable,
       AnotherVerifies
  <2>9. FailedOnlyIfRaced'
    BY <1>0, <1>12 DEF TypeOK, SelectStale, Ask, Reach, Verifiable,
       AnotherVerifies
  <2> QED
    BY <1>0, <2>1, <2>2, <2>3, <2>4, <2>5, <2>6, <2>7, <2>8, <2>9
<1>13. ASSUME NEW c \in Calls, Expire(c) PROVE MoneyInv'
  BY <1>0, <1>13 DEF TypeOK, Expire, Reach, Unpaid, Awaiting
<1>14. ASSUME NEW o \in Orders, Capture(o) PROVE MoneyInv'
  BY <1>0, <1>14 DEF TypeOK, Capture, Orders
<1>24. ASSUME NEW o \in Orders, ReturnElsewhere(o) PROVE MoneyInv'
  BY <1>0, <1>24 DEF TypeOK, ReturnElsewhere, Orders
<1>15. CASE Lapse
  BY <1>0, <1>15 DEF TypeOK, Lapse
<1>16. CASE CancelBooking
  <2>1. /\ booking'.status = "CANCELLED"
           /\ booking'.refund # "done"
           /\ booking'.deposit = booking.deposit
    BY <1>0, <1>16 DEF TypeOK, CancelBooking, Payments, BookedRows
  <2>2. NoPaymentYet'
    BY <1>0, <1>16, <2>1 DEF TypeOK, CancelBooking
  <2>3. AnswersHold'
    BY <1>0, <1>16, <2>1 DEF TypeOK, CancelBooking
  <2>4. RacesAreNoted'
    BY <1>0, <1>16, <2>1 DEF TypeOK, CancelBooking
  <2>5. JobIsFounded'
    BY <1>0, <1>16, <2>1 DEF TypeOK, CancelBooking
  <2>6. CashIsNotCharged'
    BY <1>0, <1>16, <2>1 DEF TypeOK, CancelBooking
  <2>7. ConfirmedIsCaptured'
    BY <1>0, <1>16, <2>1 DEF TypeOK, CancelBooking
  <2>8. PayoutIffBooked'
    BY <1>0, <1>16, <2>1 DEF TypeOK, CancelBooking
  <2>9. RefundIsReal'
    BY <1>0, <1>16, <2>1 DEF TypeOK, CancelBooking
  <2>10. FailedOnlyIfRaced'
    BY <1>0, <1>16, <2>1 DEF TypeOK, CancelBooking
  <2> QED
    BY <1>0, <2>2, <2>3, <2>4, <2>5, <2>6, <2>7, <2>8, <2>9, <2>10
<1>17. CASE EnqueueRefund
  BY <1>0, <1>17, AmountsAssumption DEF TypeOK, EnqueueRefund
<1>18. CASE StartRefund
  <2>1. /\ UNCHANGED <<payment, payout, lapsed, charge, pc, order, raced>>
        /\ booking'.status = booking.status
        /\ booking'.deposit = booking.deposit
        /\ refund.stage = "waiting"
        /\ \/ booking'.refund = booking.refund
           \/ /\ booking'.refund = "manual_required"
              /\ ~payment.refunded
    BY <1>0, <1>18 DEF TypeOK, StartRefund, BookedRows
  <2>2. /\ refund'.stage \in {"waiting", "failed", "done", "calling"}
        /\ refund'.stage = "calling" =>
             refund'.left = refund.left /\ CanCall(payment)
        /\ refund'.stage = "waiting" => refund'.left > 0
    BY <1>0, <1>18 DEF TypeOK, StartRefund, FailAttempt
  <2>3. JobIsFounded'
    BY <1>0, <2>1, <2>2 DEF CanCall
  <2>4. RefundIsReal'
    BY <1>0, <2>1
  <2> QED
    BY <1>0, <2>1, <2>3, <2>4
<1>19. CASE Return
  <2>1. /\ UNCHANGED <<booking, payment, payout, lapsed, pc, order, raced>>
        /\ payment # NoPayment /\ payment.gateway = "KHALTI"
        /\ payment.tx \in Orders /\ booking.status = "CANCELLED"
        /\ refund.stage = "calling" /\ charge[payment.tx] # "none"
    BY <1>0, <1>19 DEF Return
  <2>2. /\ \A o \in Orders \ {payment.tx} : charge'[o] = charge[o]
        /\ charge'[payment.tx] \in Returned
        /\ charge'[payment.tx] = "returned" \/ charge' = charge
    BY <1>0, <1>19, <2>1 DEF TypeOK, Return, Charges
  <2>3. /\ refund'.stage \in {"waiting", "failed", "answered"}
        /\ refund'.stage # "failed" => refund'.left > 0
    BY <1>0, <1>19 DEF TypeOK, Return, FailAttempt
  <2>4. NoPaymentYet' /\ AnswersHold' /\ RacesAreNoted'
    BY <1>0, <2>1, <2>2
  <2>5. JobIsFounded' /\ CashIsNotCharged'
    BY <1>0, <2>1, <2>2, <2>3
  <2>6. /\ ConfirmedIsCaptured' /\ PayoutIffBooked' /\ RefundIsReal'
        /\ FailedOnlyIfRaced'
    BY <1>0, <2>1, <2>2
  <2> QED
    BY <1>0, <2>4, <2>5, <2>6
<1>20. CASE Decline
  BY <1>0, <1>20 DEF TypeOK, Decline, FailAttempt
<1>21. CASE RecordRefund
  <2>1. /\ payment # NoPayment /\ payment' # NoPayment
        /\ payment'.gateway = payment.gateway
        /\ payment'.amount = payment.amount
        /\ payment'.status = "REFUNDED"
        /\ payment'.refunded
        /\ payment'.tx = payment.tx
        /\ booking'.refund = "done"
        /\ booking'.status = booking.status
        /\ booking'.deposit = booking.deposit
    <3>1. payment \in Payments /\ payment # NoPayment
      BY <1>0, <1>21, PaymentRows DEF TypeOK, RecordRefund
    <3>2. payment' # NoPayment
      BY <1>21, <3>1, PaymentRows DEF RecordRefund, PaymentStatus
    <3> QED
      BY <1>0, <1>21, <3>1, <3>2 DEF TypeOK, RecordRefund, Payments
  <2>2. NoPaymentYet'
    BY <1>0, <1>21, <2>1 DEF TypeOK, RecordRefund
  <2>3. AnswersHold'
    BY <1>0, <1>21, <2>1 DEF TypeOK, RecordRefund
  <2>4. RacesAreNoted'
    BY <1>0, <1>21, <2>1 DEF TypeOK, RecordRefund
  <2>5. JobIsFounded'
    BY <1>0, <1>21, <2>1 DEF TypeOK, RecordRefund
  <2>6. CashIsNotCharged'
    BY <1>0, <1>21, <2>1 DEF TypeOK, RecordRefund
  <2>7. ConfirmedIsCaptured'
    BY <1>0, <1>21, <2>1 DEF TypeOK, RecordRefund
  <2>8. PayoutIffBooked'
    BY <1>0, <1>21, <2>1 DEF TypeOK, RecordRefund
  <2>9. RefundIsReal'
    BY <1>0, <1>21, <2>1 DEF TypeOK, RecordRefund
  <2>10. FailedOnlyIfRaced'
    BY <1>0, <1>21, <2>1 DEF TypeOK, RecordRefund
  <2> QED
    BY <1>0, <2>2, <2>3, <2>4, <2>5, <2>6, <2>7, <2>8, <2>9, <2>10
<1>22. CASE LoseAttempt
  BY <1>0, <1>22 DEF TypeOK, LoseAttempt, FailAttempt
<1>23. CASE UNCHANGED vars
  BY <1>0, <1>23 DEF vars
<1> QED
  BY <1>1, <1>2, <1>3, <1>4, <1>5, <1>6, <1>7, <1>8, <1>9, <1>10, <1>11,
     <1>12, <1>13, <1>14, <1>15, <1>16, <1>17, <1>18, <1>19, <1>20, <1>21,
     <1>22, <1>23, <1>24
     DEF Next, Initiate, Verify, Sweep, RefundStep

LEMMA MoneyInvariant == Spec => []MoneyInv
<1>1. Init => MoneyInv
  <2> SUFFICES ASSUME Init PROVE MoneyInv
    OBVIOUS
  <2>1. TypeOK
    BY InitTypes
  <2>2. PICK d \in 0..Total : Held(d) \/ Bypassed(d)
    BY DEF Init
  <2>3. CASE Held(d)
    BY <2>1, <2>3 DEF Init, Held, MoneyInv, NoPaymentYet, AnswersHold,
      RacesAreNoted, JobIsFounded, CashIsNotCharged, ConfirmedIsCaptured,
      PayoutIffBooked, RefundIsReal, FailedOnlyIfRaced, Verifying, Booked,
      Orders, Returned, Amount
  <2>4. CASE Bypassed(d)
    <3>1. payment # NoPayment
      BY <2>4, PaymentRows DEF Bypassed
    <3> QED
      BY <2>1, <2>4, <3>1 DEF Init, Bypassed, MoneyInv, NoPaymentYet,
        AnswersHold, RacesAreNoted, JobIsFounded, CashIsNotCharged,
        ConfirmedIsCaptured, PayoutIffBooked, RefundIsReal,
        FailedOnlyIfRaced, Verifying, Booked, Online, Orders, Returned,
        Amount
  <2> QED
    BY <2>2, <2>3, <2>4
<1> QED
  BY <1>1, StepHolds, PTL DEF Spec

-----------------------------------------------------------------------------
\* The rows keep their shape, for any numbers of calls and attempts.
THEOREM MoneyTypes == Spec => []TypeOK
BY MoneyInvariant, PTL DEF MoneyInv

\* No booking is confirmed by confirmPayment without captured money of the
\* right amount, and none whose money went back is confirmed again.
THEOREM ConfirmedOnMoney == Spec => []ConfirmedIsCaptured
BY MoneyInvariant, PTL DEF MoneyInv

\* The owner is owed a payout for the confirmed bookings and for no others.
THEOREM PayoutForBooked == Spec => []PayoutIffBooked
BY MoneyInvariant, PTL DEF MoneyInv

\* A recorded refund has been made, and only cancelled bookings are refunded.
THEOREM RefundsAreReal == Spec => []RefundIsReal
BY MoneyInvariant, PTL DEF MoneyInv

\* A confirmed payment is written off as FAILED only by verifications that
\* ran at once.
THEOREM OnlyRacesFailPayments == Spec => []FailedOnlyIfRaced
BY MoneyInvariant, PTL DEF MoneyInv

-----------------------------------------------------------------------------
(***************************************************************************)
(* Payouts, for any number of bookings and of calls, and any prices,       *)
(* deposits and fees.                                                      *)
(*                                                                         *)
(* A settlement writes what it checked earlier.  While no two settlements  *)
(* overlap, what one of them holds in its hand (its batch, its target) is  *)
(* still open when it comes to it, for only settlements resolve: that is   *)
(* SettlingInv, and what is resolved has then been resolved by one call.   *)
(***************************************************************************)

\* What a call has read is there when it goes on.
CallsHold ==
  /\ \A q \in Quotes :
       payStep[q] \in {"loaded", "priced"} => rate[q] \in Percents
  /\ \A c \in Backfills :
       payStep[c] \in {"checked", "loaded", "priced"} =>
         target[c] \in Bookings /\ stay[target[c]] = "COMPLETED"
  /\ \A c \in Resolutions :
       Underway(c) => target[c] \in Bookings /\ HasPayout(target[c])
  /\ \A r \in Recordings : \A b \in batch[r] : HasPayout(b)

\* A booking has a payout once it is confirmed, never before.
PayoutNeedsStay == \A b \in Bookings : HasPayout(b) => stay[b] # "none"

PayoutsInv == PayoutsTypeOK /\ CallsHold /\ PayoutNeedsStay

\* While settlements have not overlapped, one is under way at most, and it
\* holds open payouts only; and who resolved a payout is one call.
SettlingInv ==
  /\ \A c \in Settlements : \A b \in covered[c] : IsResolved(b)
  /\ ~overlapped =>
       /\ \A c, d \in Settlements : Underway(c) /\ Underway(d) => c = d
       /\ \A r \in Recordings :
            Underway(r) => \A b \in batch[r] : ~IsResolved(b)
       /\ \A c \in Resolutions : Underway(c) => ~IsResolved(target[c])
       /\ \A c, d \in Settlements :
            covered[c] \intersect covered[d] # {} => c = d

-----------------------------------------------------------------------------
\* The fee is a share of the price, so that an owner is owed, or owes, no
\* more than the price.
LEMMA FeeIsAShare ==
  ASSUME NEW pct \in Percents
  PROVE  AdminFee(pct) \in 0..Price
<1>1. Price \in Nat /\ pct \in Nat /\ pct <= 100
  BY PayoutsAssumption
<1>2. 0 <= Price * pct /\ Price * pct <= Price * 100
  BY <1>1
<1> QED
  BY <1>1, <1>2 DEF AdminFee

LEMMA AmountsFit ==
  ASSUME NEW b \in Bookings, deposit[b] \in Deposits, NEW pct \in Percents
  PROVE  /\ [status |-> "PENDING", amount |-> PlatformPayout(b, pct),
             fee |-> AdminFee(pct)] \in PayoutRows
         /\ [status |-> "PENDING", amount |-> Split(pct),
             fee |-> AdminFee(pct)] \in PayoutRows
<1>1. AdminFee(pct) \in 0..Price /\ deposit[b] \in 0..Price /\ Price \in Nat
  BY FeeIsAShare, PayoutsAssumption
<1> QED
  BY <1>1 DEF PayoutRows, PayoutStatus, PlatformPayout, Split

\* A row keeps its shape when a status is written to it.
LEMMA RowsKeepShape ==
  ASSUME NEW p \in PayoutRows, NEW s \in PayoutStatus
  PROVE  /\ [p EXCEPT !.status = s] \in PayoutRows
         /\ [p EXCEPT !.status = s].status = s
         /\ p # None
BY NoRowAssumption DEF PayoutRows


-----------------------------------------------------------------------------
LEMMA PayoutsInvInit == PayoutsInit => PayoutsInv /\ SettlingInv
<1> SUFFICES ASSUME PayoutsInit PROVE PayoutsInv /\ SettlingInv
  OBVIOUS
<1>1. PayoutsTypeOK
  BY DEF PayoutsInit, PayoutsTypeOK, PaySteps
<1>2. \A c \in PayCalls : payStep[c] = "idle"
  BY DEF PayoutsInit
<1>3. CallsHold
  BY <1>2 DEF PayoutsInit, CallsHold, Underway, PayCalls, Quotes, Settlements
<1>4. SettlingInv
  BY <1>2 DEF PayoutsInit, SettlingInv, Underway, PayCalls, Settlements
<1>5. PayoutNeedsStay
  BY DEF PayoutsInit, PayoutNeedsStay, HasPayout
<1> QED
  BY <1>1, <1>3, <1>4, <1>5 DEF PayoutsInv

\* The types, and what calls hold, survive every step.
LEMMA PayoutsInvStep ==
  ASSUME PayoutsInv, [PayoutsNext]_payoutVars
  PROVE  PayoutsInv'
<1> USE DEF PayoutsInv, PayoutsTypeOK, CallsHold, PayoutNeedsStay, HasPayout,
            Underway, NextStep, PaySteps, PayCalls, Quotes, Settlements
<1>1. ASSUME NEW q \in Quotes, Pricing(q) PROVE PayoutsInv'
  <2>1. CASE UseCachedFee(q)
    BY <2>1, PayoutsAssumption, PayCallsAssumption
    DEF UseCachedFee, Quotable, Process, Processes, books, settling
  <2>2. CASE ReadFee(q)
    BY <2>2, PayCallsAssumption DEF ReadFee, Quotable, books, settling
  <2>3. CASE StoreFee(q)
    BY <2>3, PayCallsAssumption
    DEF StoreFee, Process, Processes, books, settling
  <2> QED
    BY <1>1, <2>1, <2>2, <2>3 DEF Pricing
<1>2. ASSUME NEW p \in Processes, ExpireFee(p) PROVE PayoutsInv'
  BY <1>2 DEF ExpireFee, books, settling
<1>3. ASSUME NEW u \in Updates, WriteFee(u) \/ ClearFee(u) PROVE PayoutsInv'
  <2>1. CASE WriteFee(u)
    BY <2>1, PayCallsAssumption DEF WriteFee, books, settling
  <2>2. CASE ClearFee(u)
    BY <2>2, PayCallsAssumption DEF ClearFee, Processes, books, settling
  <2> QED
    BY <1>3, <2>1, <2>2
<1>4. ASSUME NEW b \in Bookings, ConfirmBooking(b) PROVE PayoutsInv'
  <2>0. b \in Quotes /\ deposit[b] \in Deposits /\ rate[b] \in Percents
    BY <1>4 DEF ConfirmBooking
  <2>1. payoutOf' \in [Bookings -> PayoutRows \union {None}]
        /\ payoutOf'[b] # None
    BY <1>4, <2>0, AmountsFit, NoRowAssumption DEF ConfirmBooking, CreatePayout
  <2> QED
    BY <1>4, <2>1, PayCallsAssumption
    DEF ConfirmBooking, CreatePayout, fees, settling
<1>5. ASSUME NEW c \in Backfills, CheckBackfill(c) \/ Backfill(c)
      PROVE  PayoutsInv'
  <2>1. CASE CheckBackfill(c)
    BY <2>1, PayCallsAssumption DEF CheckBackfill, MayBackfill, books, fees
  <2>2. CASE Backfill(c)
    <3>1. target[c] \in Bookings /\ rate[c] \in Percents
          /\ deposit[target[c]] \in Deposits
      BY <2>2 DEF Backfill
    <3>a. [status |-> "PENDING", amount |-> Split(rate[c]),
           fee |-> AdminFee(rate[c])] \in PayoutRows
      BY <3>1, AmountsFit
    <3>2. payoutOf' \in [Bookings -> PayoutRows \union {None}]
          /\ \A b \in Bookings : HasPayout(b) => HasPayout(b)'
      <4>1. CASE HasPayout(target[c])
        BY <2>2, <4>1 DEF Backfill
      <4>2. CASE ~HasPayout(target[c])
        BY <2>2, <3>1, <3>a, <4>2, NoRowAssumption DEF Backfill, CreatePayout
      <4> QED
        BY <4>1, <4>2
    <3>3. \A b \in Bookings \ {target[c]} : payoutOf'[b] = payoutOf[b]
      BY <2>2 DEF Backfill, CreatePayout
    <3>4. PayoutNeedsStay'
      BY <2>2, <3>3 DEF Backfill
    <3> QED
      BY <2>2, <3>1, <3>2, <3>4, PayCallsAssumption DEF Backfill, fees
  <2> QED
    BY <1>5, <2>1, <2>2
<1>6. ASSUME NEW r \in Recordings, Recording(r) PROVE PayoutsInv'
  <2>1. CASE ReadOpenPayouts(r)
    BY <2>1, PayoutsAssumption, PayCallsAssumption
    DEF ReadOpenPayouts, BeginSettlement, OpenPayouts, books, fees
  <2>2. ASSUME NEW b \in Bookings, CoverInFull(r, b) PROVE PayoutsInv'
    <3>1. payoutOf[b] \in PayoutRows
      BY <2>2 DEF CoverInFull, Take
    <3>2. payoutOf' \in [Bookings -> PayoutRows \union {None}]
          /\ \A d \in Bookings : HasPayout(d)' = HasPayout(d)
      BY <2>2, <3>1, RowsKeepShape
      DEF CoverInFull, Cover, SetStatus, PayoutStatus
    <3>3. toPay' \in [Recordings -> Nat]
      BY <2>2, <3>1 DEF CoverInFull, PayoutRows
    <3> QED
      BY <2>2, <3>2, <3>3, PayCallsAssumption
      DEF CoverInFull, Take, Cover, fees
  <2>3. ASSUME NEW b \in Bookings, NotePartial(r, b) PROVE PayoutsInv'
    BY <2>3 DEF NotePartial, Take, books, fees
  <2>4. CASE EndRecording(r)
    BY <2>4, PayCallsAssumption DEF EndRecording, books, fees, settling
  <2> QED
    BY <1>6, <2>1, <2>2, <2>3, <2>4 DEF Recording
<1>7. ASSUME NEW c \in Resolutions, CheckPayout(c) \/ ResolvePayout(c)
      PROVE  PayoutsInv'
  <2>1. CASE CheckPayout(c)
    BY <2>1, PayCallsAssumption
    DEF CheckPayout, BeginSettlement, books, fees
  <2>2. CASE ResolvePayout(c)
    <3>1. target[c] \in Bookings /\ payoutOf[target[c]] \in PayoutRows
      BY <2>2 DEF ResolvePayout
    <3>2. payoutOf' \in [Bookings -> PayoutRows \union {None}]
          /\ \A d \in Bookings : HasPayout(d)' = HasPayout(d)
      BY <2>2, <3>1, RowsKeepShape
      DEF ResolvePayout, Cover, SetStatus, PayoutStatus
    <3> QED
      BY <2>2, <3>1, <3>2, PayCallsAssumption DEF ResolvePayout, Cover, fees
  <2> QED
    BY <1>7, <2>1, <2>2
<1>8. CASE UNCHANGED payoutVars
  BY <1>8 DEF payoutVars
<1> QED
  BY <1>1, <1>2, <1>3, <1>4, <1>5, <1>6, <1>7, <1>8 DEF PayoutsNext

\* The type of the state, whatever the calls do.
THEOREM PayoutsTypes == PayoutsSpec => []PayoutsTypeOK
<1>1. PayoutsInit => PayoutsInv
  BY PayoutsInvInit
<1>2. PayoutsInv /\ [PayoutsNext]_payoutVars => PayoutsInv'
  BY PayoutsInvStep
<1>3. PayoutsInv => PayoutsTypeOK
  BY DEF PayoutsInv
<1> QED
  BY <1>1, <1>2, <1>3, PTL DEF PayoutsSpec

-----------------------------------------------------------------------------
(***************************************************************************)
(* Settlements                                                             *)
(***************************************************************************)

\* What a step does to the rows of payouts: nothing, one new row where there
\* was none, or one row resolved by the call that comes to it.
KeepsPayouts ==
  /\ \A b \in Bookings : HasPayout(b) => HasPayout(b)'
  /\ \A b \in Bookings : HasPayout(b) => (IsResolved(b)' = IsResolved(b))
  /\ \A b \in Bookings : ~HasPayout(b) => ~IsResolved(b)'
  /\ covered' = covered

Resolves(c, b) ==
  /\ c \in Settlements /\ b \in Bookings
  /\ Underway(c) /\ HasPayout(b)
  /\ IsResolved(b)'
  /\ \A d \in Bookings \ {b} : IsResolved(d)' = IsResolved(d)
  /\ covered' = [covered EXCEPT ![c] = @ \union {b}]

LEMMA PricingKeeps ==
  ASSUME PayoutsInv, NEW q \in Quotes, Pricing(q)
  PROVE  UNCHANGED payoutOf /\ UNCHANGED covered
BY DEF Pricing, UseCachedFee, ReadFee, StoreFee, books, settling

LEMMA CreateKeeps ==
  ASSUME PayoutsInv, NEW b \in Bookings, ~HasPayout(b),
         NEW amount, NEW pct, CreatePayout(b, amount, pct), covered' = covered
  PROVE  KeepsPayouts
<1>1. \A d \in Bookings \ {b} : payoutOf'[d] = payoutOf[d]
  BY DEF CreatePayout, PayoutsInv, PayoutsTypeOK
<1>2. payoutOf'[b].status = "PENDING"
  BY DEF CreatePayout, PayoutsInv, PayoutsTypeOK
<1> QED
  BY <1>1, <1>2 DEF KeepsPayouts, HasPayout, IsResolved, Completed

LEMMA CoverResolves ==
  ASSUME PayoutsInv, NEW c \in Settlements, NEW b \in Bookings,
         Underway(c), HasPayout(b), Cover(c, b)
  PROVE  Resolves(c, b)
<1>1. payoutOf[b] \in PayoutRows
  BY DEF PayoutsInv, PayoutsTypeOK, HasPayout
<1>2. /\ payoutOf'[b] # None /\ payoutOf'[b].status = "MANUALLY_RESOLVED"
      /\ \A d \in Bookings \ {b} : payoutOf'[d] = payoutOf[d]
  BY <1>1, RowsKeepShape
  DEF Cover, SetStatus, PayoutStatus, PayoutsInv, PayoutsTypeOK
<1> QED
  BY <1>2 DEF Resolves, IsResolved, HasPayout, Completed, Cover

\* A step of a call that settles nothing.
LEMMA OthersSettleNothing ==
  ASSUME PayoutsInv, SettlingInv, KeepsPayouts,
         \A c \in Settlements : payStep'[c] = payStep[c],
         \A c \in Resolutions : target'[c] = target[c],
         batch' = batch, overlapped' = overlapped
  PROVE  SettlingInv'
<1>1. \A c \in Settlements : Underway(c)' = Underway(c)
  BY DEF Underway
<1>2. \A c \in Settlements : \A b \in covered'[c] : IsResolved(b)'
  BY DEF SettlingInv, KeepsPayouts, IsResolved, PayoutsInv, PayoutsTypeOK
<1>3. \A r \in Recordings :
        Underway(r) /\ ~overlapped => \A b \in batch'[r] : ~IsResolved(b)'
  BY DEF SettlingInv, KeepsPayouts, PayoutsInv, PayoutsTypeOK, CallsHold
<1>4. \A c \in Resolutions :
        Underway(c) /\ ~overlapped => ~IsResolved(target[c])'
  <2> SUFFICES ASSUME NEW c \in Resolutions, Underway(c), ~overlapped
               PROVE  ~IsResolved(target[c])'
    OBVIOUS
  <2>1. target[c] \in Bookings /\ HasPayout(target[c])
        /\ ~IsResolved(target[c])
    BY DEF SettlingInv, PayoutsInv, CallsHold
  <2>2. target'[c] = target[c]
    OBVIOUS
  <2> QED
    BY <2>1, <2>2 DEF KeepsPayouts, IsResolved, HasPayout
<1> QED
  BY <1>1, <1>2, <1>3, <1>4 DEF SettlingInv, KeepsPayouts, Settlements

\* A settlement that begins reads what is open.
LEMMA SettlementBegins ==
  ASSUME PayoutsInv, SettlingInv, NEW c \in Settlements, BeginSettlement(c),
         UNCHANGED payoutOf, UNCHANGED covered,
         c \in Recordings => \A b \in batch'[c] : ~IsResolved(b),
         c \in Resolutions => ~IsResolved(target'[c]),
         \A r \in Recordings \ {c} : batch'[r] = batch[r],
         \A d \in Resolutions \ {c} : target'[d] = target[d]
  PROVE  SettlingInv'
<1>1. \A d \in Settlements \ {c} : Underway(d)' => Underway(d)
  BY DEF BeginSettlement, NextStep, Underway, PayoutsInv, PayoutsTypeOK,
         PayCalls
<1>2. \A b : IsResolved(b)' = IsResolved(b)
  BY DEF IsResolved, HasPayout
<1>3. ~overlapped' => ~overlapped /\ \A d \in Settlements : ~Underway(d)
  BY DEF BeginSettlement
<1>4. ASSUME ~overlapped'
      PROVE  /\ \A d, e \in Settlements : Underway(d)' /\ Underway(e)' => d = e
             /\ \A r \in Recordings :
                  Underway(r)' => \A b \in batch'[r] : ~IsResolved(b)
             /\ \A d \in Resolutions :
                  Underway(d)' => ~IsResolved(target'[d])
  BY <1>1, <1>3, <1>4 DEF Settlements
<1> QED
  BY <1>1, <1>2, <1>3, <1>4 DEF SettlingInv

\* A settlement that resolves what is still open resolves it first.
LEMMA SettlementResolves ==
  ASSUME PayoutsInv, SettlingInv, NEW c \in Settlements, NEW b \in Bookings,
         Resolves(c, b),
         ~overlapped => ~IsResolved(b),
         \A d \in Settlements : Underway(d)' => Underway(d),
         c \in Recordings => batch'[c] = batch[c] \ {b},
         c \in Resolutions => ~Underway(c)',
         \A r \in Recordings \ {c} : batch'[r] = batch[r],
         target' = target, overlapped' = overlapped
  PROVE  SettlingInv'
<1>1. \A d \in Settlements : \A e \in covered'[d] : IsResolved(e)'
  BY DEF SettlingInv, Resolves, PayoutsInv, PayoutsTypeOK
<1>2. ASSUME ~overlapped
      PROVE  \A d, e \in Settlements :
               covered'[d] \intersect covered'[e] # {} => d = e
  <2>1. \A d \in Settlements : b \notin covered[d]
    BY <1>2 DEF SettlingInv
  <2> QED
    BY <1>2, <2>1 DEF SettlingInv, Resolves, PayoutsInv, PayoutsTypeOK
<1>3. ASSUME ~overlapped
      PROVE  \A d, e \in Settlements : Underway(d)' /\ Underway(e)' => d = e
  BY <1>3 DEF SettlingInv
<1>4. ASSUME ~overlapped, NEW r \in Recordings, Underway(r)',
             NEW e \in batch'[r]
      PROVE  ~IsResolved(e)'
  <2>1. r = c /\ e \in batch[r] \ {b} /\ e \in Bookings
    BY <1>4 DEF SettlingInv, Resolves, PayoutsInv, PayoutsTypeOK, Settlements
  <2> QED
    BY <1>4, <2>1 DEF SettlingInv, Resolves, Settlements
<1>5. ASSUME ~overlapped, NEW d \in Resolutions, Underway(d)'
      PROVE  FALSE
  BY <1>5 DEF SettlingInv, Resolves, Settlements
<1> QED
  BY <1>1, <1>2, <1>3, <1>4, <1>5 DEF SettlingInv

LEMMA SettlingInvStep ==
  ASSUME PayoutsInv, SettlingInv, [PayoutsNext]_payoutVars
  PROVE  SettlingInv'
<1> USE PayCallsAssumption
<1>0. /\ payStep \in [PayCalls -> PaySteps]
      /\ Settlements \subseteq PayCalls /\ Quotes \subseteq PayCalls
      /\ Updates \subseteq PayCalls
      /\ Settlements \intersect (Quotes \union Updates) = {}
  BY DEF PayoutsInv, PayoutsTypeOK, PayCalls, Quotes, Settlements
<1>1. ASSUME NEW q \in Quotes, Pricing(q) PROVE SettlingInv'
  <2>1. UNCHANGED <<payoutOf, covered, target, batch, overlapped>>
    BY <1>1 DEF Pricing, UseCachedFee, ReadFee, StoreFee, books, settling
  <2>2. \A c \in Settlements : payStep'[c] = payStep[c]
    BY <1>0, <1>1
    DEF Pricing, UseCachedFee, ReadFee, StoreFee, NextStep
  <2>3. KeepsPayouts
    BY <2>1 DEF KeepsPayouts, IsResolved, HasPayout
  <2> QED
    BY <2>1, <2>2, <2>3, OthersSettleNothing
<1>2. ASSUME NEW p \in Processes, ExpireFee(p) PROVE SettlingInv'
  BY <1>2, OthersSettleNothing
  DEF ExpireFee, books, settling, KeepsPayouts, IsResolved, HasPayout
<1>3. ASSUME NEW u \in Updates, WriteFee(u) \/ ClearFee(u)
      PROVE  SettlingInv'
  <2>1. UNCHANGED <<payoutOf, covered, target, batch, overlapped>>
    BY <1>3 DEF WriteFee, ClearFee, books, settling
  <2>2. \A c \in Settlements : payStep'[c] = payStep[c]
    BY <1>0, <1>3 DEF WriteFee, ClearFee, NextStep
  <2>3. KeepsPayouts
    BY <2>1 DEF KeepsPayouts, IsResolved, HasPayout
  <2> QED
    BY <2>1, <2>2, <2>3, OthersSettleNothing
<1>4. ASSUME NEW b \in Bookings, ConfirmBooking(b) PROVE SettlingInv'
  <2>1. UNCHANGED <<covered, target, batch, overlapped>>
    BY <1>4 DEF ConfirmBooking, settling
  <2>2. \A c \in Settlements : payStep'[c] = payStep[c]
    BY <1>0, <1>4 DEF ConfirmBooking, NextStep, Quotes
  <2>3. KeepsPayouts
    BY <1>4, <2>1, CreateKeeps DEF ConfirmBooking, PayoutsInv, PayoutNeedsStay
  <2> QED
    BY <2>1, <2>2, <2>3, OthersSettleNothing
<1>5. ASSUME NEW c \in Backfills, CheckBackfill(c) \/ Backfill(c)
      PROVE  SettlingInv'
  <2>1. /\ UNCHANGED <<covered, batch, overlapped>>
        /\ \A d \in Resolutions : target'[d] = target[d]
    BY <1>5 DEF CheckBackfill, Backfill, books, fees, PayoutsInv,
                PayoutsTypeOK, Settlements
  <2>2. \A d \in Settlements : payStep'[d] = payStep[d]
    BY <1>0, <1>5 DEF CheckBackfill, Backfill, NextStep, Quotes
  <2>3. KeepsPayouts
    <3>1. CASE CheckBackfill(c) \/ HasPayout(target[c])
      BY <1>5, <2>1, <3>1
      DEF CheckBackfill, Backfill, books, KeepsPayouts, IsResolved, HasPayout
    <3>2. CASE Backfill(c) /\ ~HasPayout(target[c])
      <4>1. target[c] \in Bookings
        BY <3>2 DEF Backfill, PayoutsInv, CallsHold
      <4> QED
        BY <2>1, <3>2, <4>1, CreateKeeps DEF Backfill
    <3> QED
      BY <1>5, <3>1, <3>2
  <2> QED
    BY <2>1, <2>2, <2>3, OthersSettleNothing
<1>6. ASSUME NEW r \in Recordings, Recording(r) PROVE SettlingInv'
  <2>0. r \in Settlements /\ r \notin Resolutions
    BY DEF Settlements
  <2>1. CASE ReadOpenPayouts(r)
    <3>1. batch' = [batch EXCEPT ![r] = OpenPayouts]
          /\ UNCHANGED <<payoutOf, covered, target>> /\ BeginSettlement(r)
      BY <2>1 DEF ReadOpenPayouts, books
    <3>2. \A b \in OpenPayouts : ~IsResolved(b)
      BY DEF OpenPayouts, IsResolved, Payable, Completed
    <3>3. /\ batch'[r] = OpenPayouts
          /\ \A s \in Recordings \ {r} : batch'[s] = batch[s]
      BY <3>1 DEF PayoutsInv, PayoutsTypeOK
    <3> QED
      BY <2>0, <3>1, <3>2, <3>3, SettlementBegins
  <2>2. ASSUME NEW b \in Bookings, CoverInFull(r, b) PROVE SettlingInv'
    <3>1. /\ Underway(r) /\ HasPayout(b) /\ (~overlapped => ~IsResolved(b))
          /\ UNCHANGED <<payStep, target, overlapped>>
          /\ batch' = [batch EXCEPT ![r] = @ \ {b}]
      BY <2>0, <2>2
      DEF CoverInFull, Take, SettlingInv, PayoutsInv, CallsHold
    <3>2. Resolves(r, b)
      BY <2>0, <2>2, <3>1, CoverResolves DEF CoverInFull
    <3> QED
      BY <2>0, <3>1, <3>2, SettlementResolves
      DEF Underway, PayoutsInv, PayoutsTypeOK
  <2>3. ASSUME NEW b \in Bookings, NotePartial(r, b) PROVE SettlingInv'
    <3>1. /\ UNCHANGED <<payoutOf, payStep, target, covered, overlapped>>
          /\ \A s \in Recordings : batch'[s] \subseteq batch[s]
      BY <2>3 DEF NotePartial, Take, books, PayoutsInv, PayoutsTypeOK
    <3> QED
      BY <3>1 DEF SettlingInv, IsResolved, HasPayout, Underway
  <2>4. CASE EndRecording(r)
    <3>1. /\ UNCHANGED <<payoutOf, batch, target, covered, overlapped>>
          /\ \A d \in Settlements : Underway(d)' => Underway(d)
      BY <1>0, <2>4
      DEF EndRecording, NextStep, Underway, books, settling
    <3> QED
      BY <3>1 DEF SettlingInv, IsResolved, HasPayout, Settlements
  <2> QED
    BY <1>6, <2>1, <2>2, <2>3, <2>4 DEF Recording
<1>7. ASSUME NEW c \in Resolutions, CheckPayout(c) \/ ResolvePayout(c)
      PROVE  SettlingInv'
  <2>0. c \in Settlements /\ c \notin Recordings
    BY DEF Settlements
  <2>1. CASE CheckPayout(c)
    <3>1. /\ UNCHANGED <<payoutOf, covered, batch>> /\ BeginSettlement(c)
          /\ ~IsResolved(target'[c])
          /\ \A d \in Resolutions \ {c} : target'[d] = target[d]
      BY <2>1 DEF CheckPayout, books, PayoutsInv, PayoutsTypeOK
    <3> QED
      BY <2>0, <3>1, SettlementBegins
  <2>2. CASE ResolvePayout(c)
    <3>1. /\ Underway(c) /\ target[c] \in Bookings /\ HasPayout(target[c])
          /\ ~overlapped => ~IsResolved(target[c])
          /\ UNCHANGED <<target, batch, overlapped>>
      BY <2>2 DEF ResolvePayout, SettlingInv, PayoutsInv, CallsHold
    <3>2. /\ ~Underway(c)'
          /\ \A d \in Settlements : Underway(d)' => Underway(d)
      BY <1>0, <2>0, <2>2 DEF ResolvePayout, NextStep, Underway
    <3>3. Resolves(c, target[c])
      BY <2>0, <2>2, <3>1, CoverResolves DEF ResolvePayout
    <3> QED
      BY <2>0, <3>1, <3>2, <3>3, SettlementResolves
  <2> QED
    BY <1>7, <2>1, <2>2
<1>8. CASE UNCHANGED payoutVars
  BY <1>8, OthersSettleNothing
  DEF payoutVars, KeepsPayouts, IsResolved, HasPayout
<1> QED
  BY <1>1, <1>2, <1>3, <1>4, <1>5, <1>6, <1>7, <1>8 DEF PayoutsNext

\* recordManualPayout and resolveManually settle a payout once, unless two of
\* them were under way at the same time.
THEOREM SettledOnce == PayoutsSpec => []SettledOnceUnlessOverlapped
<1>1. PayoutsInit => PayoutsInv /\ SettlingInv
  BY PayoutsInvInit
<1>2. PayoutsInv /\ SettlingInv /\ [PayoutsNext]_payoutVars
      => PayoutsInv' /\ SettlingInv'
  BY PayoutsInvStep, SettlingInvStep
<1>3. PayoutsInv /\ SettlingInv => SettledOnceUnlessOverlapped
  <2> SUFFICES ASSUME PayoutsInv, SettlingInv, ~overlapped, NEW b \in Bookings
               PROVE  ~(Cardinality({c \in Settlements :
                        b \in covered[c]}) > 1)
    BY DEF SettledOnceUnlessOverlapped
  <2> DEFINE S == {c \in Settlements : b \in covered[c]}
  <2>1. \A c, d \in S : c = d
    BY DEF SettlingInv
  <2>2. S = {} => Cardinality(S) = 0
    BY FS_EmptySet
  <2>3. ASSUME NEW c \in S PROVE Cardinality(S) = 1
    <3>1. S = {c}
      BY <2>1, <2>3
    <3> QED
      BY <3>1, FS_Singleton
  <2> QED
    BY <2>2, <2>3
<1> QED
  BY <1>1, <1>2, <1>3, PTL DEF PayoutsSpec

\* What a step does to the rows of payouts.
LEMMA StepSettles ==
  ASSUME PayoutsInv, [PayoutsNext]_payoutVars
  PROVE  \/ KeepsPayouts
         \/ \E c \in Settlements, b \in Bookings : Resolves(c, b)
<1> USE PayCallsAssumption
<1>1. CASE UNCHANGED <<payoutOf, covered>>
  BY <1>1 DEF KeepsPayouts, IsResolved, HasPayout
<1>2. ASSUME NEW c \in Settlements, NEW b \in Bookings, Underway(c),
             HasPayout(b), Cover(c, b)
      PROVE  Resolves(c, b)
  BY <1>2, CoverResolves
<1>3. ASSUME NEW b \in Bookings, ConfirmBooking(b) PROVE KeepsPayouts
  BY <1>3, CreateKeeps DEF ConfirmBooking, settling, PayoutsInv,
     PayoutNeedsStay
<1>4. ASSUME NEW c \in Backfills, Backfill(c), ~HasPayout(target[c])
      PROVE  KeepsPayouts
  <2>1. target[c] \in Bookings
    BY <1>4 DEF Backfill, PayoutsInv, CallsHold
  <2> QED
    BY <1>4, <2>1, CreateKeeps DEF Backfill
<1>5. ASSUME NEW r \in Recordings, NEW b \in Bookings, CoverInFull(r, b)
      PROVE  r \in Settlements /\ Resolves(r, b)
  <2>1. HasPayout(b)
    BY <1>5 DEF CoverInFull, Take, PayoutsInv, CallsHold
  <2> QED
    BY <1>2, <1>5, <2>1 DEF CoverInFull, Take, Settlements
<1>6. ASSUME NEW c \in Resolutions, ResolvePayout(c)
      PROVE  /\ c \in Settlements /\ target[c] \in Bookings
             /\ Resolves(c, target[c])
  <2>1. Underway(c) /\ target[c] \in Bookings /\ HasPayout(target[c])
    BY <1>6 DEF ResolvePayout, PayoutsInv, CallsHold
  <2> QED
    BY <1>2, <1>6, <2>1 DEF ResolvePayout, Settlements
<1> QED
  BY <1>1, <1>3, <1>4, <1>5, <1>6
  DEF PayoutsNext, payoutVars, Pricing, UseCachedFee, ReadFee, StoreFee,
      ExpireFee, WriteFee, ClearFee, CheckBackfill, Backfill, Recording,
      ReadOpenPayouts, NotePartial, EndRecording, CheckPayout, books, settling

\* A resolved payout stays resolved over a step.
LEMMA ResolvedStays ==
  ASSUME PayoutsInv, [PayoutsNext]_payoutVars, NEW b \in Bookings,
         IsResolved(b)
  PROVE  IsResolved(b)'
BY StepSettles DEF KeepsPayouts, Resolves, IsResolved

\* Neither the partial payment of a recording that read the payout while it
\* was open, nor a backfill, takes back a payout that has been resolved.
THEOREM ResolvedOnceAndForAll == PayoutsSpec => ResolvedStaysResolved
<1>1. PayoutsInit => PayoutsInv
  BY PayoutsInvInit
<1>2. PayoutsInv /\ [PayoutsNext]_payoutVars => PayoutsInv'
  BY PayoutsInvStep
<1>3. PayoutsInv /\ [PayoutsNext]_payoutVars
      => [\A b \in Bookings : IsResolved(b) => IsResolved(b)']_payoutVars
  BY ResolvedStays
<1> QED
  BY <1>1, <1>2, <1>3, PTL DEF PayoutsSpec, ResolvedStaysResolved

-----------------------------------------------------------------------------
(***************************************************************************)
(* The copy of the fee                                                     *)
(***************************************************************************)

\* A backfill that has read the fee and not yet stored its copy has read the
\* fee that is set, unless it raced a change.
FeeInv ==
  \/ feeRaced
  \/ /\ \A q \in Backfills : payStep[q] = "loaded" => rate[q] = feePct
     /\ FeeIsFreshUnlessRaced

LEMMA FeeInvStep ==
  ASSUME PayoutsInv, FeeInv, [PayoutsNext]_payoutVars
  PROVE  FeeInv'
<1> USE PayCallsAssumption
<1>0. /\ payStep \in [PayCalls -> PaySteps]
      /\ rate \in [Quotes -> Percents \union {None}]
      /\ Backfills \subseteq Quotes /\ Backfills \subseteq PayCalls
      /\ Updates \subseteq PayCalls /\ Updates \intersect Quotes = {}
      /\ feeCache \in [Processes -> Percents \union {None}]
      /\ "admin" \in Processes
  BY DEF PayoutsInv, PayoutsTypeOK, PayCalls, Quotes, Settlements, Processes
<1>1. ASSUME NEW q \in Quotes, Pricing(q) PROVE FeeInv'
  <2>1. /\ UNCHANGED <<feePct, feeRaced>>
        /\ \A u \in Updates : payStep'[u] = payStep[u]
    BY <1>0, <1>1 DEF Pricing, UseCachedFee, ReadFee, StoreFee, NextStep
  <2>2. CASE UseCachedFee(q)
    BY <1>0, <2>1, <2>2
    DEF UseCachedFee, NextStep, FeeInv, FeeIsFreshUnlessRaced
  <2>3. CASE ReadFee(q)
    BY <1>0, <2>1, <2>3
    DEF ReadFee, NextStep, FeeInv, FeeIsFreshUnlessRaced
  <2>4. CASE StoreFee(q)
    <3>1. \A d \in Backfills :
            payStep'[d] = "loaded" => payStep[d] = "loaded"
      BY <1>0, <2>4 DEF StoreFee, NextStep
    <3>2. feeCache'["admin"] =
            IF q \in Backfills THEN rate[q] ELSE feeCache["admin"]
      BY <1>0, <2>4 DEF StoreFee, Process, Quotes
    <3> QED
      BY <2>1, <2>4, <3>1, <3>2 DEF StoreFee, FeeInv, FeeIsFreshUnlessRaced
  <2> QED
    BY <1>1, <2>2, <2>3, <2>4 DEF Pricing
<1>2. ASSUME NEW p \in Processes, ExpireFee(p) PROVE FeeInv'
  BY <1>0, <1>2 DEF ExpireFee, FeeInv, FeeIsFreshUnlessRaced
<1>3. ASSUME NEW u \in Updates, WriteFee(u) PROVE FeeInv'
  <2>1. /\ payStep'[u] = "written"
        /\ \A q \in Backfills : payStep'[q] = payStep[q]
    BY <1>0, <1>3 DEF WriteFee, NextStep
  <2> QED
    BY <1>3, <2>1 DEF WriteFee, FeeInv, FeeIsFreshUnlessRaced
<1>4. ASSUME NEW u \in Updates, ClearFee(u) PROVE FeeInv'
  <2>1. /\ feeCache'["admin"] = None
        /\ \A q \in Backfills : payStep'[q] = payStep[q]
    BY <1>0, <1>4 DEF ClearFee, NextStep
  <2> QED
    BY <1>4, <2>1 DEF ClearFee, FeeInv, FeeIsFreshUnlessRaced
<1>5. ASSUME UNCHANGED fees,
             \A c \in Backfills \union Updates :
               payStep'[c] # payStep[c] =>
                 c \in Backfills /\ payStep'[c] # "loaded"
      PROVE  FeeInv'
  BY <1>5 DEF fees, FeeInv, FeeIsFreshUnlessRaced
<1>6. ASSUME NEW c \in PayCalls \ Updates, NEW s, s # "loaded",
             NextStep(c, s), UNCHANGED fees
      PROVE  FeeInv'
  BY <1>0, <1>5, <1>6 DEF NextStep
<1>7. ASSUME NEW b \in Bookings, ConfirmBooking(b) PROVE FeeInv'
  BY <1>6, <1>7 DEF ConfirmBooking, PayCalls, Quotes
<1>8. ASSUME NEW c \in Backfills, CheckBackfill(c) \/ Backfill(c)
      PROVE  FeeInv'
  BY <1>6, <1>8 DEF CheckBackfill, Backfill, PayCalls, Quotes
<1>9. ASSUME NEW r \in Recordings, Recording(r) PROVE FeeInv'
  <2>1. /\ UNCHANGED fees
        /\ UNCHANGED payStep \/ \E s : s # "loaded" /\ NextStep(r, s)
    BY <1>9 DEF Recording, ReadOpenPayouts, BeginSettlement, CoverInFull,
                NotePartial, EndRecording
  <2>2. r \in PayCalls \ Updates
    BY DEF PayCalls, Settlements
  <2> QED
    BY <1>5, <1>6, <2>1, <2>2
<1>10. ASSUME NEW c \in Resolutions, CheckPayout(c) \/ ResolvePayout(c)
       PROVE  FeeInv'
  <2>1. c \in PayCalls \ Updates
    BY DEF PayCalls, Settlements
  <2> QED
    BY <1>6, <1>10, <2>1 DEF CheckPayout, BeginSettlement, ResolvePayout
<1>11. CASE UNCHANGED payoutVars
  BY <1>5, <1>11 DEF payoutVars, fees
<1> QED
  BY <1>1, <1>2, <1>3, <1>4, <1>7, <1>8, <1>9, <1>10, <1>11 DEF PayoutsNext

\* The admin process charges the fee that is set as soon as updateConfig has
\* ended, unless the fee was changed while a copy of it was being made.
THEOREM FeeIsFresh == PayoutsSpec => []FeeIsFreshUnlessRaced
<1>1. PayoutsInit => PayoutsInv /\ FeeInv
  BY PayoutsInvInit
  DEF PayoutsInit, FeeInv, FeeIsFreshUnlessRaced, PayCalls, Quotes, Processes
<1>2. PayoutsInv /\ FeeInv /\ [PayoutsNext]_payoutVars
      => PayoutsInv' /\ FeeInv'
  BY PayoutsInvStep, FeeInvStep
<1>3. FeeInv => FeeIsFreshUnlessRaced
  BY DEF FeeInv, FeeIsFreshUnlessRaced
<1> QED
  BY <1>1, <1>2, <1>3, PTL DEF PayoutsSpec
-----------------------------------------------------------------------------
(***************************************************************************)
(* The sums of the payouts, and the consoles                               *)
(***************************************************************************)

\* What a recording has covered was in its batch and is not any more; what it
\* noted was all it had left; and before it begins there is neither.
SumsInStep ==
  /\ handed \in [Recordings -> Nat] /\ noted \in [Recordings -> Nat]
  /\ \A r \in Recordings :
       /\ noted[r] = 0 \/ toPay[r] = 0
       /\ payStep[r] = "idle" => covered[r] = {} /\ noted[r] = 0
       /\ covered[r] \intersect batch[r] = {}
       /\ \A b \in covered[r] : HasPayout(b)

\* The payouts are issued one by one, each once.
IssuedOnce ==
  /\ issued \in Seq(Bookings)
  /\ \A b \in Bookings : HasPayout(b) <=>
       \E i \in DOMAIN issued : issued[i] = b
  /\ \A i, j \in DOMAIN issued : issued[i] = issued[j] => i = j

\* Only settlements resolve.
ResolvedByCalls ==
  \A b \in Bookings :
    IsResolved(b) <=> \E c \in Settlements : b \in covered[c]

BooksInv ==
  /\ SumsInStep
  /\ SumIsAccounted
  /\ IssuedOnce
  /\ OldestFirst
  /\ ResolvedByCalls

Amounts == [b \in Bookings |-> Owed(b)]

LEMMA OwedInt ==
  ASSUME PayoutsTypeOK
  PROVE  \A b \in Bookings : Owed(b) \in Int /\ Amounts[b] = Owed(b)
BY PayoutsAssumption DEF PayoutsTypeOK, Owed, HasPayout, PayoutRows, Amounts

\* While the payouts of a set keep their amounts, it is owed the same.
LEMMA OwedStays ==
  ASSUME PayoutsTypeOK, PayoutsTypeOK', NEW S \in SUBSET Bookings,
         \A b \in S : Owed(b)' = Owed(b)
  PROVE  OwedFor(S)' = OwedFor(S)
<1>1. IsFiniteSet(S)
  BY PayoutsAssumption, FS_Subset
<1>2. \A b \in S : Amounts[b] \in Int /\ Amounts[b] = Amounts'[b]
  BY OwedInt DEF Amounts
<1> DEFINE A == Amounts
           B == Amounts'
<1>3. SumFunctionOnSet(A, S) = SumFunctionOnSet(B, S)
  <2> HIDE DEF A, B
  <2>1. \A b \in S : A[b] \in Int /\ A[b] = B[b]
    BY <1>2 DEF A, B
  <2> QED
    BY <1>1, <2>1, SumOfSame
<1> QED
  BY <1>3 DEF OwedFor, Amounts

\* One more payout adds what is owed for it.
LEMMA OwedForSets ==
  ASSUME PayoutsTypeOK
  PROVE  /\ OwedFor({}) = 0
         /\ \A S \in SUBSET Bookings : OwedFor(S) \in Int
<1> SUFFICES ASSUME NEW S \in SUBSET Bookings
             PROVE  OwedFor(S) \in Int /\ OwedFor({}) = 0
  OBVIOUS
<1>1. IsFiniteSet(S) /\ \A b \in S : Amounts[b] \in Int
  BY OwedInt, PayoutsAssumption, FS_Subset
<1>2. SumFunctionOnSet(Amounts, S) \in Int /\ SumFunctionOnSet(Amounts, {}) = 0
  BY <1>1, SumInt
<1> QED
  BY <1>2 DEF OwedFor, Amounts

LEMMA OwedUnchanged ==
  ASSUME payoutOf' = payoutOf, covered' = covered
  PROVE  \A r \in Recordings : OwedFor(covered[r])' = OwedFor(covered[r])
BY DEF OwedFor, Owed, HasPayout

LEMMA OwedForMore ==
  ASSUME PayoutsTypeOK, NEW S \in SUBSET Bookings, NEW b \in Bookings \ S
  PROVE  /\ OwedFor(S \union {b}) = OwedFor(S) + Owed(b)
         /\ OwedFor(S) \in Int /\ OwedFor({}) = 0
<1>1. IsFiniteSet(S) /\ IsFiniteSet(S \union {b})
  BY PayoutsAssumption, FS_Subset
<1>2. \A d \in S \union {b} : Amounts[d] \in Int
  BY OwedInt
<1>3. (S \union {b}) \ {b} = S
  OBVIOUS
<1>4. SumFunctionOnSet(Amounts, S) \in Int /\ SumFunctionOnSet(Amounts, {}) = 0
  BY <1>1, <1>2, SumInt
<1>5. SumFunctionOnSet(Amounts, S \union {b})
        = Amounts[b] + SumFunctionOnSet(Amounts, S)
  <2> DEFINE R == S \union {b}
  <2>1. b \in R /\ IsFiniteSet(R) /\ \A d \in R : Amounts[d] \in Int
    BY <1>1, <1>2
  <2> HIDE DEF R
  <2>2. SumFunctionOnSet(Amounts, R)
          = Amounts[b] + SumFunctionOnSet(Amounts, R \ {b})
    BY <2>1, SumFromMember
  <2> QED
    BY <2>2, <1>3 DEF R
<1> QED
  BY <1>4, <1>5, OwedInt DEF OwedFor, Amounts

-----------------------------------------------------------------------------
\* A step that covers nothing and leaves the sums alone.
LEMMA SumsUntouched ==
  ASSUME PayoutsInv, PayoutsInv', SumsInStep, SumIsAccounted,
         UNCHANGED <<handed, noted, toPay, covered>>,
         \A b \in Bookings : HasPayout(b) =>
           HasPayout(b)' /\ Owed(b)' = Owed(b),
         \A r \in Recordings :
           /\ batch'[r] \subseteq batch[r]
           /\ payStep'[r] = "idle" => payStep[r] = "idle"
  PROVE  SumsInStep' /\ SumIsAccounted'
<1>1. \A r \in Recordings : covered[r] \in SUBSET Bookings
  BY DEF PayoutsInv, PayoutsTypeOK, Settlements
<1>2. \A r \in Recordings : OwedFor(covered[r])' = OwedFor(covered[r])
  <2> SUFFICES ASSUME NEW r \in Recordings
               PROVE  OwedFor(covered[r])' = OwedFor(covered[r])
    OBVIOUS
  <2> DEFINE S == covered[r]
  <2>1. S \in SUBSET Bookings /\ \A b \in S : Owed(b)' = Owed(b)
    BY <1>1 DEF SumsInStep
  <2>2. OwedFor(covered[r])' = OwedFor(S)'
    OBVIOUS
  <2> QED
    BY <2>1, OwedStays DEF PayoutsInv
<1> QED
  BY <1>1, <1>2 DEF SumsInStep, SumIsAccounted

\* The step of a recording, or of a resolution, that covers a payout.
LEMMA CoverKeepsAmounts ==
  ASSUME PayoutsInv, NEW c \in Settlements, NEW b \in Bookings,
         HasPayout(b), Cover(c, b)
  PROVE  /\ \A d \in Bookings :
              (HasPayout(d)' <=> HasPayout(d)) /\ Owed(d)' = Owed(d)
         /\ covered' = [covered EXCEPT ![c] = @ \union {b}]
<1>1. payoutOf[b] \in PayoutRows
  BY DEF PayoutsInv, PayoutsTypeOK, HasPayout
<1>2. /\ payoutOf'[b] = [payoutOf[b] EXCEPT !.status = "MANUALLY_RESOLVED"]
      /\ \A d \in Bookings \ {b} : payoutOf'[d] = payoutOf[d]
  BY DEF Cover, SetStatus, PayoutsInv, PayoutsTypeOK
<1>3. payoutOf'[b].amount = payoutOf[b].amount
  BY <1>1, <1>2 DEF PayoutRows
<1>4. payoutOf[b] # None /\ payoutOf'[b] # None
  <2>1. "MANUALLY_RESOLVED" \in PayoutStatus
    BY DEF PayoutStatus
  <2> QED
    BY <1>1, <1>2, <2>1, RowsKeepShape DEF HasPayout
<1>5. \A d \in Bookings :
        (HasPayout(d)' <=> HasPayout(d)) /\ Owed(d)' = Owed(d)
  <2> SUFFICES ASSUME NEW d \in Bookings
               PROVE  (HasPayout(d)' <=> HasPayout(d)) /\ Owed(d)' = Owed(d)
    OBVIOUS
  <2>1. CASE d = b
    BY <1>3, <1>4, <2>1 DEF Owed, HasPayout
  <2>2. CASE d # b
    BY <1>2, <2>2 DEF Owed, HasPayout
  <2> QED
    BY <2>1, <2>2
<1> QED
  BY <1>5 DEF Cover

LEMMA CreateKeepsAmounts ==
  ASSUME PayoutsInv, NEW b \in Bookings, ~HasPayout(b),
         NEW amount, NEW pct, CreatePayout(b, amount, pct)
  PROVE  /\ \A d \in Bookings :
              HasPayout(d) => HasPayout(d)' /\ Owed(d)' = Owed(d)
BY DEF CreatePayout, PayoutsInv, PayoutsTypeOK, HasPayout, Owed

LEMMA SumsByCover ==
  ASSUME PayoutsInv, PayoutsInv', SumsInStep, SumIsAccounted,
         NEW r \in Recordings, NEW b \in Bookings, CoverInFull(r, b)
  PROVE  SumsInStep' /\ SumIsAccounted'
<1>0. /\ b \in batch[r] /\ HasPayout(b) /\ r \in Settlements
      /\ b \notin covered[r] /\ Owed(b) = payoutOf[b].amount
      /\ toPay[r] > 0 /\ toPay[r] >= Owed(b) /\ noted[r] = 0
      /\ payStep[r] # "idle"
  BY DEF CoverInFull, Take, PayoutsInv, CallsHold, SumsInStep, Settlements,
         Owed, Underway
<1>1. /\ \A d \in Bookings :
           (HasPayout(d)' <=> HasPayout(d)) /\ Owed(d)' = Owed(d)
      /\ covered' = [covered EXCEPT ![r] = @ \union {b}]
  BY <1>0, CoverKeepsAmounts DEF CoverInFull
<1>2. /\ batch' = [batch EXCEPT ![r] = @ \ {b}]
      /\ toPay' = [toPay EXCEPT ![r] = @ - Owed(b)]
      /\ UNCHANGED <<payStep, handed, noted>>
  BY <1>0 DEF CoverInFull, Take
<1>3. \A q \in Recordings : covered[q] \in SUBSET Bookings /\ q \in Settlements
  BY DEF PayoutsInv, PayoutsTypeOK, Settlements
<1>4. \A S \in SUBSET Bookings : OwedFor(S)' = OwedFor(S)
  <2> SUFFICES ASSUME NEW S \in SUBSET Bookings
               PROVE  OwedFor(S)' = OwedFor(S)
    OBVIOUS
  <2> QED
    BY <1>1, OwedStays DEF PayoutsInv
<1>5. \A q \in Recordings \ {r} :
        covered'[q] = covered[q] /\ toPay'[q] = toPay[q]
        /\ batch'[q] = batch[q]
  BY <1>1, <1>2, <1>3 DEF PayoutsInv, PayoutsTypeOK
<1>6. /\ covered'[r] = covered[r] \union {b} /\ toPay'[r] = toPay[r] - Owed(b)
      /\ batch'[r] = batch[r] \ {b}
  BY <1>0, <1>1, <1>2 DEF PayoutsInv, PayoutsTypeOK
<1>7. /\ OwedFor(covered[r] \union {b}) = OwedFor(covered[r]) + Owed(b)
      /\ OwedFor(covered[r]) \in Int
  BY <1>0, <1>3, OwedForMore DEF PayoutsInv
<1>8. Owed(b) \in Int /\ toPay[r] \in Nat /\ toPay'[r] \in Nat
  BY OwedInt DEF PayoutsInv, PayoutsTypeOK
<1>9. SumIsAccounted'
  <2> SUFFICES ASSUME NEW q \in Recordings
               PROVE  (handed[q] = OwedFor(covered[q]) + noted[q] + toPay[q]
                       /\ toPay[q] >= 0)'
    BY DEF SumIsAccounted
  <2>1. CASE q = r
    <3>1. OwedFor(covered[r])' = OwedFor(covered[r]) + Owed(b)
      <4>1. covered[r] \union {b} \in SUBSET Bookings
        BY <1>3
      <4> QED
        BY <4>1, <1>4, <1>6, <1>7
    <3>2. handed[r] = OwedFor(covered[r]) + noted[r] + toPay[r]
      BY DEF SumIsAccounted
    <3>3. handed'[r] = handed[r] /\ noted'[r] = 0
      BY <1>0, <1>2
    <3> HIDE DEF PayoutsInv
    <3> QED
      BY <2>1, <3>1, <3>2, <3>3, <1>0, <1>6, <1>7, <1>8
  <2>2. CASE q # r
    <3>1. OwedFor(covered[q])' = OwedFor(covered[q])
      BY <2>2, <1>3, <1>4, <1>5
    <3> QED
      BY <2>2, <3>1, <1>2, <1>5 DEF SumIsAccounted
  <2> QED
    BY <2>1, <2>2
<1>10. SumsInStep'
  <2> SUFFICES ASSUME NEW q \in Recordings
               PROVE  (/\ noted[q] = 0 \/ toPay[q] = 0
                       /\ payStep[q] = "idle" =>
                            covered[q] = {} /\ noted[q] = 0
                       /\ covered[q] \intersect batch[q] = {}
                       /\ \A d \in covered[q] : HasPayout(d))'
    BY <1>2 DEF SumsInStep
  <2>1. CASE q = r
    BY <2>1, <1>0, <1>1, <1>2, <1>3, <1>6 DEF SumsInStep
  <2>2. CASE q # r
    BY <2>2, <1>1, <1>2, <1>3, <1>5 DEF SumsInStep
  <2> QED
    BY <2>1, <2>2
<1> QED
  BY <1>9, <1>10

LEMMA SumsByOthers ==
  ASSUME PayoutsInv, PayoutsInv', SumsInStep, SumIsAccounted,
         NEW c \in Settlements, c \notin Recordings, NEW b \in Bookings,
         HasPayout(b), Cover(c, b), UNCHANGED <<handed, noted, toPay, batch>>,
         \A r \in Recordings : payStep'[r] = payStep[r]
  PROVE  SumsInStep' /\ SumIsAccounted'
<1>1. /\ \A d \in Bookings :
           (HasPayout(d)' <=> HasPayout(d)) /\ Owed(d)' = Owed(d)
      /\ \A r \in Recordings : covered'[r] = covered[r]
    <2>1. covered' = [covered EXCEPT ![c] = @ \union {b}]
    BY CoverKeepsAmounts
  <2> QED
    BY <2>1, CoverKeepsAmounts DEF PayoutsInv, PayoutsTypeOK, Settlements
<1>2. \A r \in Recordings : covered[r] \in SUBSET Bookings
  BY DEF PayoutsInv, PayoutsTypeOK, Settlements
<1>3. \A S \in SUBSET Bookings : OwedFor(S)' = OwedFor(S)
  <2> SUFFICES ASSUME NEW S \in SUBSET Bookings
               PROVE  OwedFor(S)' = OwedFor(S)
    OBVIOUS
  <2> QED
    BY <1>1, OwedStays DEF PayoutsInv
<1>4. \A r \in Recordings : OwedFor(covered[r])' = OwedFor(covered[r])
  BY <1>1, <1>2, <1>3
<1>5. SumIsAccounted'
  BY <1>4 DEF SumIsAccounted
<1>6. SumsInStep'
  BY <1>1, <1>2 DEF SumsInStep
<1> QED
  BY <1>5, <1>6

LEMMA SumsByRecording ==
  ASSUME PayoutsInv, PayoutsInv', SumsInStep, SumIsAccounted,
         NEW r \in Recordings, Recording(r)
  PROVE  SumsInStep' /\ SumIsAccounted'
<1>0. /\ \A q \in Recordings :
           covered[q] \in SUBSET Bookings /\ q \in Settlements
           /\ q \in PayCalls
      /\ payStep \in [PayCalls -> PaySteps]
  BY DEF PayoutsInv, PayoutsTypeOK, Settlements, PayCalls
<1>1. CASE ReadOpenPayouts(r)
  <2>1. /\ UNCHANGED <<payoutOf, noted, covered>>
        /\ payStep[r] = "idle" /\ payStep'[r] = "settling"
        /\ \A q \in Recordings \ {r} :
             /\ payStep'[q] = payStep[q] /\ batch'[q] = batch[q]
             /\ toPay'[q] = toPay[q] /\ handed'[q] = handed[q]
    BY <1>0, <1>1 DEF ReadOpenPayouts, BeginSettlement, NextStep, books,
                PayoutsInv, PayoutsTypeOK
  <2>2. PICK sum \in Sums : /\ toPay' = [toPay EXCEPT ![r] = sum]
                            /\ handed' = [handed EXCEPT ![r] = sum]
    BY <1>1 DEF ReadOpenPayouts
  <2>3. /\ sum \in Nat /\ toPay'[r] = sum
        /\ handed'[r] = sum
        /\ covered[r] = {} /\ noted[r] = 0 /\ OwedFor({}) = 0
    BY <2>1, <2>2, OwedForSets, PayoutsAssumption
    DEF PayoutsInv, PayoutsTypeOK, SumsInStep
  <2>4. OwedFor(covered[r])' = OwedFor(covered[r]) /\ OwedFor(covered[r]) = 0
    BY <2>1, <2>3, OwedUnchanged
  <2>5. SumIsAccounted'
    <3> SUFFICES ASSUME NEW q \in Recordings
                 PROVE  (handed[q] = OwedFor(covered[q]) + noted[q] + toPay[q]
                         /\ toPay[q] >= 0)'
      BY DEF SumIsAccounted
    <3>1. CASE q = r
      <4>1. /\ OwedFor(covered[q])' = 0 /\ noted'[q] = 0
            /\ toPay'[q] = sum /\ handed'[q] = sum
        BY <2>1, <2>3, <2>4, <3>1
      <4> HIDE DEF SumsInStep
      <4> QED
        BY <2>3, <4>1
    <3>2. CASE q # r
      <4>1. OwedFor(covered[q])' = OwedFor(covered[q])
        BY <2>1, OwedUnchanged
      <4> QED
        BY <2>1, <3>2, <4>1 DEF SumIsAccounted
    <3> QED
      BY <3>1, <3>2
  <2>6. handed' \in [Recordings -> Nat]
    BY <2>2, <2>3 DEF SumsInStep
  <2>7. SumsInStep'
    BY <2>1, <2>3, <2>6 DEF SumsInStep, HasPayout
  <2> QED
    BY <2>5, <2>7
<1>2. ASSUME NEW b \in Bookings, CoverInFull(r, b)
      PROVE  SumsInStep' /\ SumIsAccounted'
  BY <1>2, SumsByCover
<1>3. ASSUME NEW b \in Bookings, NotePartial(r, b)
      PROVE  SumsInStep' /\ SumIsAccounted'
  <2>1. /\ UNCHANGED <<payoutOf, covered, handed, payStep>>
        /\ toPay[r] > 0 /\ noted' = [noted EXCEPT ![r] = toPay[r]]
        /\ toPay' = [toPay EXCEPT ![r] = 0]
        /\ batch' = [batch EXCEPT ![r] = @ \ {b}]
    BY <1>3 DEF NotePartial, Take, books
  <2>2. payStep[r] # "idle" /\ noted[r] = 0 /\ toPay \in [Recordings -> Nat]
    BY <1>3, <2>1 DEF NotePartial, Take, Underway, SumsInStep, PayoutsInv,
                      PayoutsTypeOK
  <2>3. \A q \in Recordings : OwedFor(covered[q])' = OwedFor(covered[q])
    BY <2>1, OwedUnchanged
  <2>4. \A q \in Recordings : OwedFor(covered[q]) \in Int
    BY <1>0, OwedForSets DEF PayoutsInv
  <2>5. SumIsAccounted'
    <3> SUFFICES ASSUME NEW q \in Recordings
                 PROVE  (handed[q] = OwedFor(covered[q]) + noted[q] + toPay[q]
                         /\ toPay[q] >= 0)'
      BY DEF SumIsAccounted
    <3>1. /\ handed[q] = OwedFor(covered[q]) + noted[q] + toPay[q]
          /\ OwedFor(covered[q])' = OwedFor(covered[q])
          /\ OwedFor(covered[q]) \in Int
      BY <2>3, <2>4 DEF SumIsAccounted
    <3>2. noted'[q] + toPay'[q] = noted[q] + toPay[q] /\ toPay'[q] >= 0
          /\ noted[q] \in Nat /\ noted'[q] \in Nat /\ toPay[q] \in Nat
          /\ toPay'[q] \in Nat
      BY <2>1, <2>2 DEF SumsInStep
    <3> HIDE DEF PayoutsInv
    <3> QED
      BY <2>1, <3>1, <3>2
  <2>6. SumsInStep'
    <3>1. noted' \in [Recordings -> Nat] /\ \A q \in Recordings :
             /\ noted'[q] = 0 \/ toPay'[q] = 0
             /\ batch'[q] \subseteq batch[q]
             /\ payStep'[q] = "idle" => noted'[q] = 0
      BY <2>1, <2>2 DEF SumsInStep, PayoutsInv, PayoutsTypeOK
    <3> QED
      BY <2>1, <3>1 DEF SumsInStep, HasPayout
  <2> QED
    BY <2>5, <2>6
<1>4. CASE EndRecording(r)
  <2>1. /\ UNCHANGED <<payoutOf, handed, noted, toPay, covered, batch>>
        /\ payStep'[r] = "done"
        /\ \A q \in Recordings \ {r} : payStep'[q] = payStep[q]
    BY <1>0, <1>4 DEF EndRecording, NextStep, books, settling
  <2> QED
    BY <2>1, SumsUntouched DEF HasPayout, Owed
<1> QED
  BY <1>1, <1>2, <1>3, <1>4 DEF Recording

\* The three facts about the sums survive every step of every call.
LEMMA SumsKept ==
  ASSUME PayoutsInv, PayoutsInv', SumsInStep, SumIsAccounted,
         [PayoutsNext]_payoutVars
  PROVE  SumsInStep' /\ SumIsAccounted'
<1> USE PayCallsAssumption
<1>0. /\ payStep \in [PayCalls -> PaySteps]
      /\ Settlements \subseteq PayCalls /\ Quotes \subseteq PayCalls
      /\ Updates \subseteq PayCalls
      /\ Settlements \intersect (Quotes \union Updates) = {}
      /\ Recordings \subseteq Settlements
  BY DEF PayoutsInv, PayoutsTypeOK, PayCalls, Quotes, Settlements
<1>1. ASSUME NEW q \in Quotes, Pricing(q)
      PROVE  SumsInStep' /\ SumIsAccounted'
  <2>1. UNCHANGED <<payoutOf, covered, batch, toPay, handed, noted>>
    BY <1>1 DEF Pricing, UseCachedFee, ReadFee, StoreFee, books, settling
  <2>2. \A r \in Recordings : payStep'[r] = payStep[r]
    BY <1>0, <1>1 DEF Pricing, UseCachedFee, ReadFee, StoreFee, NextStep
  <2> QED
    BY <2>1, <2>2, SumsUntouched DEF HasPayout, Owed
<1>2. ASSUME NEW p \in Processes, ExpireFee(p)
      PROVE  SumsInStep' /\ SumIsAccounted'
  BY <1>2, SumsUntouched DEF ExpireFee, books, settling, HasPayout, Owed
<1>3. ASSUME NEW u \in Updates, WriteFee(u) \/ ClearFee(u)
      PROVE  SumsInStep' /\ SumIsAccounted'
  <2>1. UNCHANGED <<payoutOf, covered, batch, toPay, handed, noted>>
    BY <1>3 DEF WriteFee, ClearFee, books, settling
  <2>2. \A r \in Recordings : payStep'[r] = payStep[r]
    BY <1>0, <1>3 DEF WriteFee, ClearFee, NextStep
  <2> QED
    BY <2>1, <2>2, SumsUntouched DEF HasPayout, Owed
<1>4. ASSUME NEW b \in Bookings, ConfirmBooking(b)
      PROVE  SumsInStep' /\ SumIsAccounted'
  <2>1. UNCHANGED <<covered, batch, toPay, handed, noted>>
    BY <1>4 DEF ConfirmBooking, settling
  <2>2. \A r \in Recordings : payStep'[r] = payStep[r]
    BY <1>0, <1>4 DEF ConfirmBooking, NextStep, Quotes
  <2>3. \A d \in Bookings : HasPayout(d) => HasPayout(d)' /\ Owed(d)' = Owed(d)
    BY <1>4, CreateKeepsAmounts
    DEF ConfirmBooking, PayoutsInv, PayoutNeedsStay
  <2> QED
    BY <2>1, <2>2, <2>3, SumsUntouched
<1>5. ASSUME NEW c \in Backfills, CheckBackfill(c) \/ Backfill(c)
      PROVE  SumsInStep' /\ SumIsAccounted'
  <2>1. UNCHANGED <<covered, batch, toPay, handed, noted>>
    BY <1>5 DEF CheckBackfill, Backfill, books, fees
  <2>2. \A r \in Recordings : payStep'[r] = payStep[r]
    BY <1>0, <1>5 DEF CheckBackfill, Backfill, NextStep, Quotes
  <2>3. \A d \in Bookings : HasPayout(d) => HasPayout(d)' /\ Owed(d)' = Owed(d)
    <3>1. CASE CheckBackfill(c) \/ HasPayout(target[c])
      BY <1>5, <3>1 DEF CheckBackfill, Backfill, books, Owed, HasPayout
    <3>2. CASE Backfill(c) /\ ~HasPayout(target[c])
      BY <3>2, CreateKeepsAmounts DEF Backfill, PayoutsInv, CallsHold
    <3> QED
      BY <1>5, <3>1, <3>2
  <2> QED
    BY <2>1, <2>2, <2>3, SumsUntouched
<1>6. ASSUME NEW r \in Recordings, Recording(r)
      PROVE  SumsInStep' /\ SumIsAccounted'
  BY <1>6, SumsByRecording
<1>7. ASSUME NEW c \in Resolutions, CheckPayout(c) \/ ResolvePayout(c)
      PROVE  SumsInStep' /\ SumIsAccounted'
  <2>1. c \in Settlements /\ c \notin Recordings /\ c \in PayCalls
    BY DEF Settlements, PayCalls
  <2>2. /\ UNCHANGED <<batch, toPay, handed, noted>>
        /\ \A r \in Recordings : payStep'[r] = payStep[r]
    BY <1>0, <1>7, <2>1
    DEF CheckPayout, ResolvePayout, BeginSettlement, NextStep, fees, books
  <2>3. CASE CheckPayout(c)
    <3>1. UNCHANGED <<payoutOf, covered>>
      BY <2>3 DEF CheckPayout, books
    <3> QED
      BY <2>2, <3>1, SumsUntouched DEF HasPayout, Owed
  <2>4. CASE ResolvePayout(c)
    <3>1. target[c] \in Bookings /\ HasPayout(target[c]) /\ Cover(c, target[c])
      BY <2>4 DEF ResolvePayout, PayoutsInv, CallsHold
    <3> QED
      BY <2>1, <2>2, <3>1, SumsByOthers
  <2> QED
    BY <1>7, <2>3, <2>4
<1>8. CASE UNCHANGED payoutVars
  BY <1>8, SumsUntouched DEF payoutVars, HasPayout, Owed
<1> QED
  BY <1>1, <1>2, <1>3, <1>4, <1>5, <1>6, <1>7, <1>8 DEF PayoutsNext

-----------------------------------------------------------------------------
\* The order of created_at has every payout once.
LEMMA IssueOne ==
  ASSUME PayoutsInv, IssuedOnce, NEW b \in Bookings, ~HasPayout(b),
         NEW amount, NEW pct, CreatePayout(b, amount, pct), HasPayout(b)'
  PROVE  IssuedOnce'
<1>1. /\ issued \in Seq(Bookings) /\ issued' = Append(issued, b)
      /\ \A d \in Bookings \ {b} : HasPayout(d)' = HasPayout(d)
      /\ \A i \in DOMAIN issued : issued[i] # b
  BY DEF IssuedOnce, CreatePayout, HasPayout, PayoutsInv, PayoutsTypeOK
<1>2. /\ issued' \in Seq(Bookings) /\ Len(issued') = Len(issued) + 1
      /\ issued'[Len(issued) + 1] = b /\ Len(issued) \in Nat
      /\ DOMAIN issued = 1..Len(issued)
      /\ DOMAIN issued' = 1..(Len(issued) + 1)
      /\ \A i \in 1..Len(issued) : issued'[i] = issued[i]
  BY <1>1
<1>3. \A d \in Bookings :
        HasPayout(d)' <=> \E i \in DOMAIN issued' : issued'[i] = d
  <2> SUFFICES ASSUME NEW d \in Bookings
               PROVE  HasPayout(d)' <=>
                        \E i \in DOMAIN issued' : issued'[i] = d
    OBVIOUS
  <2>1. CASE d = b
    <3>1. Len(issued) + 1 \in DOMAIN issued'
      BY <1>2
    <3> QED
      BY <1>2, <2>1, <3>1
  <2>2. CASE d # b
    <3>1. HasPayout(d)' <=> \E i \in 1..Len(issued) : issued[i] = d
      BY <1>1, <1>2, <2>2 DEF IssuedOnce
    <3> QED
      BY <1>2, <2>2, <3>1
  <2> QED
    BY <2>1, <2>2
<1>4. \A i, j \in DOMAIN issued' : issued'[i] = issued'[j] => i = j
  <2>1. \A i, j \in 1..Len(issued) : issued[i] = issued[j] => i = j
    BY <1>2 DEF IssuedOnce
  <2>2. \A i \in 1..Len(issued) : issued[i] # b
    BY <1>1, <1>2
  <2> QED
    BY <1>2, <2>1, <2>2
<1> QED
  BY <1>2, <1>3, <1>4 DEF IssuedOnce

LEMMA IssuedKept ==
  ASSUME PayoutsInv, PayoutsInv', IssuedOnce, [PayoutsNext]_payoutVars
  PROVE  IssuedOnce'
<1>0. ASSUME issued' = issued, \A b \in Bookings : HasPayout(b)' <=>
               HasPayout(b)
      PROVE  IssuedOnce'
  BY <1>0 DEF IssuedOnce
<1>1. ASSUME NEW q \in Quotes, Pricing(q) PROVE IssuedOnce'
  BY <1>0, <1>1
  DEF Pricing, UseCachedFee, ReadFee, StoreFee, books, HasPayout
<1>2. ASSUME NEW p \in Processes, ExpireFee(p) PROVE IssuedOnce'
  BY <1>0, <1>2 DEF ExpireFee, books, HasPayout
<1>3. ASSUME NEW u \in Updates, WriteFee(u) \/ ClearFee(u) PROVE IssuedOnce'
  BY <1>0, <1>3 DEF WriteFee, ClearFee, books, HasPayout
<1>4. ASSUME NEW b \in Bookings, ConfirmBooking(b) PROVE IssuedOnce'
  <2>1. ~HasPayout(b) /\ HasPayout(b)'
    <3>1. payoutOf'[b] # None
      <4>1. b \in Quotes /\ deposit[b] \in Deposits /\ rate[b] \in Percents
        BY <1>4
           DEF ConfirmBooking, PayoutsInv, PayoutsTypeOK, CallsHold, Quotes
      <4> QED
        <5>1. payoutOf'[b] = [status |-> "PENDING",
                              amount |-> PlatformPayout(b, rate[b]),
                              fee |-> AdminFee(rate[b])]
          BY <1>4 DEF ConfirmBooking, CreatePayout, PayoutsInv, PayoutsTypeOK
        <5>2. payoutOf'[b] \in PayoutRows
          BY <4>1, <5>1, AmountsFit
        <5> QED
          BY <5>2, NoRowAssumption
    <3> QED
      BY <1>4, <3>1 DEF ConfirmBooking, HasPayout, PayoutsInv, PayoutNeedsStay
  <2> QED
    BY <1>4, <2>1, IssueOne DEF ConfirmBooking
<1>5. ASSUME NEW c \in Backfills, CheckBackfill(c) \/ Backfill(c)
      PROVE  IssuedOnce'
  <2>1. CASE CheckBackfill(c) \/ HasPayout(target[c])
    BY <1>0, <1>5, <2>1 DEF CheckBackfill, Backfill, books, HasPayout
  <2>2. CASE Backfill(c) /\ ~HasPayout(target[c])
    <3>1. /\ target[c] \in Bookings /\ rate[c] \in Percents
          /\ deposit[target[c]] \in Deposits
          /\ CreatePayout(target[c], Split(rate[c]), rate[c])
      BY <2>2 DEF Backfill, PayoutsInv, CallsHold, PayoutsTypeOK, Quotes
    <3>2. HasPayout(target[c])'
      <4>1. payoutOf'[target[c]] \in PayoutRows
        BY <3>1, AmountsFit DEF CreatePayout, PayoutsInv, PayoutsTypeOK
      <4>2. target'[c] = target[c]
        BY <2>2 DEF Backfill
      <4> QED
        BY <4>1, <4>2, NoRowAssumption DEF HasPayout
    <3>3. target'[c] = target[c]
      BY <2>2 DEF Backfill
    <3> QED
      BY <2>2, <3>1, <3>2, <3>3, IssueOne DEF HasPayout
  <2> QED
    BY <1>5, <2>1, <2>2
<1>6. ASSUME NEW r \in Recordings, Recording(r) PROVE IssuedOnce'
  <2>1. ASSUME NEW b \in Bookings, CoverInFull(r, b) PROVE IssuedOnce'
    <3>1. issued' = issued /\ HasPayout(b) /\ Cover(r, b) /\ r \in Settlements
      BY <2>1 DEF CoverInFull, Take, PayoutsInv, CallsHold, Settlements
    <3> QED
      BY <1>0, <3>1, CoverKeepsAmounts
  <2> QED
    BY <1>0, <1>6, <2>1
    DEF Recording, ReadOpenPayouts, NotePartial, EndRecording, books, HasPayout
<1>7. ASSUME NEW c \in Resolutions, CheckPayout(c) \/ ResolvePayout(c)
      PROVE  IssuedOnce'
  <2>1. CASE CheckPayout(c)
    BY <1>0, <2>1 DEF CheckPayout, books, HasPayout
  <2>2. CASE ResolvePayout(c)
    <3>1. /\ issued' = issued /\ target[c] \in Bookings /\ HasPayout(target[c])
          /\ Cover(c, target[c]) /\ c \in Settlements
      BY <2>2 DEF ResolvePayout, PayoutsInv, CallsHold, Settlements
    <3> QED
      BY <1>0, <3>1, CoverKeepsAmounts
  <2> QED
    BY <1>7, <2>1, <2>2
<1>8. CASE UNCHANGED payoutVars
  BY <1>0, <1>8 DEF payoutVars, HasPayout
<1> QED
  BY <1>1, <1>2, <1>3, <1>4, <1>5, <1>6, <1>7, <1>8 DEF PayoutsNext

-----------------------------------------------------------------------------
\* A payout that was issued before another one stays older.
LEMMA OlderStays ==
  ASSUME issued \in Seq(Bookings),
         issued' = issued \/ \E x \in Bookings : issued' = Append(issued, x),
         NEW b, NEW d, Older(b, d)
  PROVE  Older(b, d)'
<1>1. PICK i \in DOMAIN issued, j \in DOMAIN issued :
        issued[i] = b /\ issued[j] = d /\ i < j
  BY DEF Older
<1>2. \A k \in DOMAIN issued : k \in DOMAIN issued' /\ issued'[k] = issued[k]
  <2>1. ASSUME NEW x \in Bookings, issued' = Append(issued, x)
        PROVE  \A k \in DOMAIN issued :
                 k \in DOMAIN issued' /\ issued'[k] = issued[k]
    BY <2>1
  <2> QED
    BY <2>1
<1> QED
  BY <1>1, <1>2 DEF Older

LEMMA OldestUntouched ==
  ASSUME OldestFirst, issued \in Seq(Bookings),
         issued' = issued \/ \E x \in Bookings : issued' = Append(issued, x),
         \A r \in Recordings :
           covered'[r] = covered[r] /\ batch'[r] \subseteq batch[r]
  PROVE  OldestFirst'
<1> SUFFICES ASSUME NEW r \in Recordings, NEW b \in covered'[r],
                    NEW d \in batch'[r]
             PROVE  Older(b, d)'
  BY DEF OldestFirst
<1>1. Older(b, d)
  BY DEF OldestFirst
<1> QED
  BY <1>1, OlderStays

LEMMA OldestKept ==
  ASSUME PayoutsInv, SumsInStep, IssuedOnce, OldestFirst,
         [PayoutsNext]_payoutVars
  PROVE  OldestFirst'
<1> USE PayCallsAssumption
<1>0. /\ issued \in Seq(Bookings)
      /\ covered \in [Settlements -> SUBSET Bookings]
      /\ batch \in [Recordings -> SUBSET Bookings]
      /\ Recordings \subseteq Settlements
  BY DEF IssuedOnce, PayoutsInv, PayoutsTypeOK, Settlements
<1>1. CASE UNCHANGED <<issued, covered, batch>>
  BY <1>0, <1>1, OldestUntouched
<1>2. ASSUME NEW b \in Bookings, ConfirmBooking(b) PROVE OldestFirst'
  <2>1. issued' = Append(issued, b) /\ UNCHANGED <<covered, batch>>
    BY <1>2 DEF ConfirmBooking, CreatePayout, settling
  <2> QED
    BY <1>0, <2>1, OldestUntouched
<1>3. ASSUME NEW c \in Backfills, Backfill(c) PROVE OldestFirst'
  <2>1. target[c] \in Bookings /\ UNCHANGED <<covered, batch>>
    BY <1>3 DEF Backfill, PayoutsInv, CallsHold
  <2>2. issued' = issued \/ issued' = Append(issued, target[c])
    BY <1>3 DEF Backfill, CreatePayout
  <2> QED
    BY <1>0, <2>1, <2>2, OldestUntouched
<1>4. ASSUME NEW r \in Recordings, ReadOpenPayouts(r) PROVE OldestFirst'
  <2>1. covered[r] = {} /\ UNCHANGED <<issued, covered>>
    BY <1>4 DEF ReadOpenPayouts, BeginSettlement, SumsInStep, books
  <2>2. \A q \in Recordings \ {r} : batch'[q] = batch[q]
    BY <1>0, <1>4 DEF ReadOpenPayouts
  <2>3. \A b, d : Older(b, d)' <=> Older(b, d)
    BY <2>1 DEF Older
  <2> QED
    BY <2>1, <2>2, <2>3 DEF OldestFirst
<1>5. ASSUME NEW r \in Recordings, NEW b \in Bookings, CoverInFull(r, b)
      PROVE  OldestFirst'
  <2>1. /\ issued' = issued
        /\ covered' = [covered EXCEPT ![r] = @ \union {b}]
        /\ batch' = [batch EXCEPT ![r] = @ \ {b}]
        /\ \A d \in batch[r] \ {b} : Older(b, d)
    BY <1>5 DEF CoverInFull, Take, Cover
  <2>2. /\ covered'[r] = covered[r] \union {b} /\ batch'[r] = batch[r] \ {b}
        /\ \A q \in Recordings \ {r} :
             covered'[q] = covered[q] /\ batch'[q] = batch[q]
    BY <1>0, <2>1
  <2>3. \A x, y : Older(x, y)' <=> Older(x, y)
    BY <2>1 DEF Older
  <2> SUFFICES ASSUME NEW q \in Recordings, NEW x \in covered'[q],
                      NEW y \in batch'[q]
               PROVE  Older(x, y)
    BY <2>3 DEF OldestFirst
  <2> QED
    BY <2>1, <2>2 DEF OldestFirst
<1>6. ASSUME NEW r \in Recordings, NEW b \in Bookings, NotePartial(r, b)
      PROVE  OldestFirst'
  <2>1. /\ UNCHANGED <<issued, covered>>
        /\ batch' = [batch EXCEPT ![r] = @ \ {b}]
    BY <1>6 DEF NotePartial, Take, books
  <2> QED
    BY <1>0, <2>1, OldestUntouched
<1>7. ASSUME NEW c \in Resolutions, ResolvePayout(c) PROVE OldestFirst'
  <2>1. /\ UNCHANGED <<issued, batch>>
        /\ covered' = [covered EXCEPT ![c] = @ \union {target[c]}]
        /\ c \notin Recordings
    BY <1>7 DEF ResolvePayout, Cover
  <2> QED
    BY <1>0, <2>1, OldestUntouched
<1> QED
  BY <1>1, <1>2, <1>3, <1>4, <1>5, <1>6, <1>7
  DEF PayoutsNext, payoutVars, Pricing, UseCachedFee, ReadFee, StoreFee,
      ExpireFee, WriteFee, ClearFee, CheckBackfill, Recording, EndRecording,
      CheckPayout, books, settling

LEMMA ResolvedByCallsKept ==
  ASSUME PayoutsInv, ResolvedByCalls, [PayoutsNext]_payoutVars
  PROVE  ResolvedByCalls'
<1>1. covered \in [Settlements -> SUBSET Bookings]
  BY DEF PayoutsInv, PayoutsTypeOK
<1>2. CASE KeepsPayouts
  BY <1>2 DEF KeepsPayouts, ResolvedByCalls, IsResolved
<1>3. ASSUME NEW c \in Settlements, NEW b \in Bookings, Resolves(c, b)
      PROVE  ResolvedByCalls'
  <2>1. /\ covered'[c] = covered[c] \union {b}
        /\ \A d \in Settlements \ {c} : covered'[d] = covered[d]
    BY <1>1, <1>3 DEF Resolves
  <2> QED
    BY <1>3, <2>1 DEF Resolves, ResolvedByCalls
<1> QED
  BY <1>2, <1>3, StepSettles

-----------------------------------------------------------------------------
\* Payouts of statuses with nothing in common.
LEMMA StatusesApart ==
  ASSUME PayoutsTypeOK, NEW S, NEW T, S \intersect T = {}
  PROVE  /\ Cardinality(WithStatus(S \union T))
              = Cardinality(WithStatus(S)) + Cardinality(WithStatus(T))
         /\ Cardinality(WithStatus(S)) \in Nat
<1>1. /\ WithStatus(S \union T) = WithStatus(S) \union WithStatus(T)
      /\ WithStatus(S) \intersect WithStatus(T) = {}
  BY DEF WithStatus
<1>2. IsFiniteSet(WithStatus(S)) /\ IsFiniteSet(WithStatus(T))
  <2>1. WithStatus(S) \subseteq Bookings /\ WithStatus(T) \subseteq Bookings
    BY DEF WithStatus
  <2> QED
    BY <2>1, PayoutsAssumption, FS_Subset
<1>3. /\ Cardinality(WithStatus(S)) \in Nat
         /\ Cardinality(WithStatus(T)) \in Nat
      /\ Cardinality(WithStatus(S) \intersect WithStatus(T)) = 0
  BY <1>1, <1>2, FS_CardinalityType, FS_EmptySet
<1>4. Cardinality(WithStatus(S) \union WithStatus(T))
        = Cardinality(WithStatus(S)) + Cardinality(WithStatus(T))
          - Cardinality(WithStatus(S) \intersect WithStatus(T))
  BY <1>2, FS_Union
<1>5. Cardinality(WithStatus(S \union T))
        = Cardinality(WithStatus(S) \union WithStatus(T))
  BY <1>1
<1> QED
  <2> DEFINE x == Cardinality(WithStatus(S))
             y == Cardinality(WithStatus(T))
  <2>1. x \in Nat /\ y \in Nat
        /\ Cardinality(WithStatus(S \union T)) = x + y - 0
    BY <1>3, <1>4, <1>5
  <2> HIDE DEF x, y
  <2>2. Cardinality(WithStatus(S \union T)) = x + y
    BY <2>1
  <2> QED
    BY <2>1, <2>2 DEF x, y

\* A list shows each payout of its statuses once.
LEMMA ListsShowAll ==
  ASSUME PayoutsTypeOK, IssuedOnce, NEW S
  PROVE  Cardinality(ListPayouts(S)) = Cardinality(WithStatus(S))
<1> DEFINE places == ListPayouts(S)
           shownAs == [i \in places |-> issued[i]]
<1>1. issued \in Seq(Bookings) /\ DOMAIN issued = 1..Len(issued)
      /\ Len(issued) \in Nat
  BY DEF IssuedOnce
<1>2. IsFiniteSet(places)
  <2>1. IsFiniteSet(1..Len(issued)) /\ places \subseteq 1..Len(issued)
    BY <1>1, FS_Interval DEF ListPayouts
  <2> QED
    BY <2>1, FS_Subset
<1>3. shownAs \in [places -> WithStatus(S)]
  BY <1>1 DEF ListPayouts, WithStatus, IssuedOnce
<1>4. \A b \in WithStatus(S) : \E i \in places : shownAs[i] = b
  BY <1>1 DEF ListPayouts, WithStatus, IssuedOnce
<1>5. \A i, j \in places : shownAs[i] = shownAs[j] => i = j
  BY DEF ListPayouts, IssuedOnce
<1>6. shownAs \in Bijection(places, WithStatus(S))
  <2> HIDE DEF places, shownAs
  <2> QED
    BY <1>3, <1>4, <1>5 DEF Bijection, Injection, Surjection, IsInjective
<1>7. ExistsBijection(places, WithStatus(S))
  BY <1>6 DEF ExistsBijection
<1> QED
  BY <1>2, <1>7, FS_Bijection

LEMMA ReportsFollow ==
  ASSUME PayoutsTypeOK, IssuedOnce, ResolvedByCalls
  PROVE  FiguresFollow
<1> DEFINE unpaid == {"PENDING", "FAILED", "PROCESSING"}
           waiting == WithStatus(unpaid)
           paid == WithStatus(Completed)
           settled == UNION {covered[c] : c \in Settlements}
           open == {b \in Bookings : HasPayout(b)} \ settled
           rest == Bookings \ settled
<1>1. unpaid = PayoutStatus \ Completed
  BY DEF PayoutStatus, Completed
<1>2. paid = settled
  <2>1. \A c \in Settlements : covered[c] \subseteq Bookings
    BY DEF PayoutsTypeOK
  <2>2. \A b \in Bookings : b \in settled <=> IsResolved(b)
    BY DEF ResolvedByCalls
  <2> QED
    BY <2>1, <2>2 DEF WithStatus, IsResolved
<1>3. waiting = open
  <2>1. \A b \in Bookings : HasPayout(b) => payoutOf[b].status \in PayoutStatus
    BY DEF PayoutsTypeOK, PayoutRows, HasPayout
  <2> QED
    BY <1>1, <1>2, <2>1 DEF WithStatus
<1>4. waiting = WithStatus(PayoutStatus) \ paid
  BY <1>1 DEF WithStatus, PayoutStatus, Completed
<1>5. OwedFor(waiting) = OwedFor(rest)
  <2> DEFINE none == rest \ waiting
  <2>1. /\ rest \in SUBSET Bookings /\ waiting \in SUBSET rest
        /\ none \in SUBSET Bookings /\ waiting \in SUBSET Bookings
    BY <1>3
  <2>2. /\ IsFiniteSet(rest) /\ IsFiniteSet(none)
        /\ \A b \in Bookings : Amounts[b] \in Int
    BY <2>1, PayoutsAssumption, FS_Subset, OwedInt
  <2>3. SumFunctionOnSet(Amounts, rest)
          = SumFunctionOnSet(Amounts, waiting)
            + SumFunctionOnSet(Amounts, none)
    <3> HIDE DEF waiting, rest
    <3> QED
      BY <2>1, <2>2, SumOfParts
  <2>4. SumFunctionOnSet(Amounts, none) = 0
    <3>1. \A b \in none : Amounts[b] = 0
      BY <1>3, OwedInt DEF Owed
    <3> HIDE DEF none
    <3> QED
      BY <2>2, <3>1, SumOfNothing
  <2>5. OwedFor(waiting) \in Int
    BY <2>1, OwedForSets
  <2>6. OwedFor(rest) = OwedFor(waiting) + 0
    <3> HIDE DEF waiting, rest, none
    <3> QED
      BY <2>3, <2>4 DEF OwedFor, Amounts
  <2> HIDE DEF waiting, rest
  <2> QED
    BY <2>5, <2>6
<1>6. OwnerStats.pendingCount + OwnerStats.failedCount = Cardinality(waiting)
  <2>1. unpaid = {"PENDING", "PROCESSING"} \union {"FAILED"}
        /\ {"PENDING", "PROCESSING"} \intersect {"FAILED"} = {}
    OBVIOUS
  <2>2. Cardinality(waiting)
          = Cardinality(WithStatus({"PENDING", "PROCESSING"}))
            + Cardinality(WithStatus({"FAILED"}))
    BY <2>1, StatusesApart
  <2> QED
    BY <2>2 DEF OwnerStats
<1>7. Cardinality(ListPayouts(PayoutStatus \ Completed)) = Cardinality(waiting)
  BY <1>1, ListsShowAll
<1>8. /\ AdminStats = [pending |-> OwedFor(waiting),
                       pendingCount |-> Cardinality(waiting),
                       paid |-> OwedFor(paid),
                       paidCount |-> Cardinality(paid)]
      /\ VenueSummary = AdminStats
  BY <1>4 DEF AdminStats, VenueSummary
<1>9. AdminStats = [pending |-> OwedFor(rest),
                    pendingCount |-> Cardinality(open),
                    paid |-> OwedFor(settled),
                    paidCount |-> Cardinality(settled)]
  <2> HIDE DEF waiting, paid, settled, open, rest
  <2> QED
    BY <1>2, <1>3, <1>5, <1>8
<1>10. /\ OwnerStats.pendingCount + OwnerStats.failedCount = Cardinality(open)
       /\ Cardinality(ListPayouts(PayoutStatus \ Completed))
            = Cardinality(open)
  <2> HIDE DEF waiting, open
  <2> QED
    BY <1>3, <1>6, <1>7
<1> QED
  BY <1>8, <1>9, <1>10 DEF FiguresFollow

\* What a recording was given is what it has resolved, noted and kept; it
\* resolves oldest first; and the consoles show what settlements resolved, and
\* no part payment, however many recordings and resolutions run at once.
THEOREM BooksFollow == PayoutsSpec => []BooksFollowSettlements
<1>1. PayoutsInit => PayoutsInv /\ BooksInv
  <2> SUFFICES ASSUME PayoutsInit PROVE PayoutsInv /\ BooksInv
    OBVIOUS
  <2>1. PayoutsInv
    BY PayoutsInvInit
  <2>2. OwedFor({}) = 0
    BY <2>1, OwedForSets DEF PayoutsInv
  <2>3. SumsInStep
    BY DEF PayoutsInit, SumsInStep, Settlements
  <2>4. SumIsAccounted
    BY <2>2 DEF PayoutsInit, SumIsAccounted, Settlements
  <2>5. IssuedOnce
    BY DEF PayoutsInit, IssuedOnce, HasPayout
  <2>6. OldestFirst /\ ResolvedByCalls
    BY DEF PayoutsInit, OldestFirst, ResolvedByCalls, IsResolved, HasPayout,
           Settlements
  <2> QED
    BY <2>1, <2>3, <2>4, <2>5, <2>6 DEF BooksInv
<1>2. PayoutsInv /\ BooksInv /\ [PayoutsNext]_payoutVars
        => (PayoutsInv /\ BooksInv)'
  BY PayoutsInvStep, SumsKept, IssuedKept, OldestKept, ResolvedByCallsKept
  DEF BooksInv
<1>3. PayoutsInv /\ BooksInv => BooksFollowSettlements
  BY ReportsFollow DEF PayoutsInv, BooksInv, BooksFollowSettlements
<1> QED
  BY <1>1, <1>2, <1>3, PTL DEF PayoutsSpec
=============================================================================
