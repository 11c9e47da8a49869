------------------------------- MODULE Payouts ------------------------------
(***************************************************************************)
(* What the platform owes the owner of a venue, and the fee it keeps.      *)
(*                                                                         *)
(* Confirming a booking writes a payout: the deposit less a fee on the     *)
(* whole price.  The fee is a row of the configuration that each process   *)
(* keeps a copy of for five minutes.  An administrator pays the owner      *)
(* outside the program and then records the sum, which is spread over the  *)
(* open payouts of the venue, oldest first; or resolves one payout by      *)
(* hand; or writes the payout an old booking never got.                    *)
(*                                                                         *)
(* None of the three runs in a transaction: each reads, and later writes   *)
(* whatever it decided on, one row at a time.                              *)
(***************************************************************************)
EXTENDS Integers, Sequences, FiniteSetsExt

CONSTANTS
  Bookings,     \* the bookings of one venue, each with its payment
  Recordings,   \* calls of AdminPaymentService.recordManualPayout
  Resolutions,  \* calls of AdminPaymentService.resolveManually
  Backfills,    \* calls of AdminPaymentService.processPayoutForBooking
  Updates,      \* calls of AdminPaymentService.updateConfig
  Price,        \* total_amount of a booking
  Deposits,     \* the deposits a player may choose
  Percents,     \* the values admin_fee_percent may be given
  Sums,         \* the sums an administrator may record
  None          \* no row, no copy, no call

Quotes == Bookings \union Backfills
Settlements == Recordings \union Resolutions
PayCalls == Quotes \union Settlements \union Updates

ASSUME PayoutsAssumption ==
  /\ IsFiniteSet(Bookings)
  /\ Price \in Nat
  /\ Deposits \subseteq 0..Price
  /\ Percents \subseteq 0..100
  /\ Sums \subseteq Nat \ {0}
  /\ None \notin Bookings \union Percents

ASSUME PayCallsAssumption ==
  /\ Bookings \intersect (Backfills \union Settlements \union Updates) = {}
  /\ Backfills \intersect (Settlements \union Updates) = {}
  /\ Recordings \intersect (Resolutions \union Updates) = {}
  /\ Resolutions \intersect Updates = {}

VARIABLES
  stay,        \* status of each bookings row, with its payment
  deposit,     \* deposit_amount of each booking, the amount of its payment
  payoutOf,    \* the owner_payouts row of each payment
  issued,      \* the payouts in the order of created_at
  feePct,      \* platform_config, admin_fee_percent
  feeCache,    \* PayoutService.configCache in each process
  payStep,     \* how far each call has come
  rate,        \* the percentage a booking or a backfill has been given
  target,      \* the booking a resolution or a backfill is about
  batch,       \* the payouts a recording has read and not yet come to
  toPay,       \* remainingToPay of a recording
  handed,      \* history: the sum each recording was given
  covered,     \* history: the payouts each settlement has resolved
  noted,       \* history: what each recording only noted as a part payment
  notedOn,     \* history: the payout it noted that on
  overlapped,  \* history: two settlements were under way at once
  feeRaced     \* history: the fee was changed while a copy was being made

payoutVars == <<stay, deposit, payoutOf, issued, feePct, feeCache, payStep,
                rate, target, batch, toPay, handed, covered, noted, notedOn,
                overlapped, feeRaced>>
books == <<stay, deposit, payoutOf, issued>>
fees == <<feePct, feeCache, rate, feeRaced>>
settling == <<target, batch, toPay, handed, covered, noted, notedOn,
              overlapped>>

-----------------------------------------------------------------------------
PayoutStatus == {"PENDING", "PROCESSING", "SUCCESS", "FAILED",
                 "MANUALLY_RESOLVED"}
Payable == {"PENDING", "FAILED"}
Completed == {"SUCCESS", "MANUALLY_RESOLVED"}
PayoutRows == [status : PayoutStatus, amount : -Price..Price, fee : 0..Price]

ASSUME NoRowAssumption == None \notin PayoutRows

PaySteps == {"idle", "loaded", "checked", "priced", "written", "settling",
             "done", "refused"}

Processes == {"player", "admin"}
Process(q) == IF q \in Bookings THEN "player" ELSE "admin"

NextStep(c, s) == payStep' = [payStep EXCEPT ![c] = s]

HasPayout(b) == payoutOf[b] # None
IsResolved(b) == HasPayout(b) /\ payoutOf[b].status \in Completed

\* owner_amount of a payout, and of several.
Owed(b) == IF HasPayout(b) THEN payoutOf[b].amount ELSE 0
OwedFor(S) == SumFunctionOnSet([b \in Bookings |-> Owed(b)], S)

\* calculateSplit and calculatePlatformPayout: the fee is on the whole price.
AdminFee(pct) == (Price * pct) \div 100
Split(pct) == Price - AdminFee(pct)
PlatformPayout(b, pct) == deposit[b] - AdminFee(pct)

\* buildPayoutCreateOp; payment_id is unique.
CreatePayout(b, amount, pct) ==
  /\ payoutOf' = [payoutOf EXCEPT ![b] =
                    [status |-> "PENDING", amount |-> amount,
                     fee |-> AdminFee(pct)]]
  /\ issued' = Append(issued, b)

SetStatus(b, status) == payoutOf' = [payoutOf EXCEPT ![b].status = status]

-----------------------------------------------------------------------------
\* A booking is yet to be confirmed, or was completed before there were
\* payouts.
PayoutsInit ==
  /\ stay \in [Bookings -> {"none", "COMPLETED"}]
  /\ deposit \in [Bookings -> Deposits]
  /\ payoutOf = [b \in Bookings |-> None]
  /\ issued = <<>>
  /\ feePct \in Percents
  /\ feeCache = [p \in Processes |-> None]
  /\ payStep = [c \in PayCalls |-> "idle"]
  /\ rate = [q \in Quotes |-> None]
  /\ target = [c \in Resolutions \union Backfills |-> None]
  /\ batch = [r \in Recordings |-> {}]
  /\ toPay = [r \in Recordings |-> 0]
  /\ handed = [r \in Recordings |-> 0]
  /\ covered = [c \in Settlements |-> {}]
  /\ noted = [r \in Recordings |-> 0]
  /\ notedOn = [r \in Recordings |-> None]
  /\ overlapped = FALSE
  /\ feeRaced = FALSE

-----------------------------------------------------------------------------
(***************************************************************************)
(* The fee                                                                 *)
(***************************************************************************)
Quotable(q) ==
  IF q \in Bookings THEN payStep[q] = "idle" /\ stay[q] = "none"
                    ELSE payStep[q] = "checked"

\* getConfig with a copy that is still good.
UseCachedFee(q) ==
  /\ Quotable(q)
  /\ feeCache[Process(q)] # None
  /\ rate' = [rate EXCEPT ![q] = feeCache[Process(q)]]
  /\ NextStep(q, "priced")
  /\ UNCHANGED <<books, feePct, feeCache, feeRaced, settling>>

\* getConfig without one: the read, and then the copy.
ReadFee(q) ==
  /\ Quotable(q)
  /\ feeCache[Process(q)] = None
  /\ rate' = [rate EXCEPT ![q] = feePct]
  /\ NextStep(q, "loaded")
  /\ UNCHANGED <<books, feePct, feeCache, feeRaced, settling>>

StoreFee(q) ==
  /\ payStep[q] = "loaded"
  /\ feeCache' = [feeCache EXCEPT ![Process(q)] = rate[q]]
  /\ NextStep(q, "priced")
  /\ UNCHANGED <<books, feePct, rate, feeRaced, settling>>

\* CACHE_TTL has passed.
ExpireFee(p) ==
  /\ feeCache[p] # None
  /\ feeCache' = [feeCache EXCEPT ![p] = None]
  /\ UNCHANGED <<books, feePct, payStep, rate, feeRaced, settling>>

\* updateConfig: the row, and then the copy of its own process.
WriteFee(u) ==
  /\ payStep[u] = "idle"
  /\ \E pct \in Percents \ {feePct} : feePct' = pct
  /\ NextStep(u, "written")
  /\ feeRaced' = (feeRaced \/ \E q \in Backfills : payStep[q] = "loaded")
  /\ UNCHANGED <<books, feeCache, rate, settling>>

ClearFee(u) ==
  /\ payStep[u] = "written"
  /\ feeCache' = [feeCache EXCEPT !["admin"] = None]
  /\ NextStep(u, "done")
  /\ UNCHANGED <<books, feePct, rate, feeRaced, settling>>

-----------------------------------------------------------------------------
(***************************************************************************)
(* Bookings and their payouts                                              *)
(***************************************************************************)

\* holdSlot in bypass mode and confirmPayment, as far as the payout goes.
ConfirmBooking(b) ==
  /\ payStep[b] = "priced"
  /\ stay[b] = "none"
  /\ stay' = [stay EXCEPT ![b] = "CONFIRMED"]
  /\ CreatePayout(b, PlatformPayout(b, rate[b]), rate[b])
  /\ NextStep(b, "done")
  /\ UNCHANGED <<deposit, fees, settling>>

\* processPayoutForBooking: the booking, its payment and its payout.
MayBackfill(b) == stay[b] = "COMPLETED" /\ ~HasPayout(b)

CheckBackfill(c) ==
  /\ payStep[c] = "idle"
  /\ \E b \in Bookings :
       /\ MayBackfill(b)
       /\ target' = [target EXCEPT ![c] = b]
  /\ NextStep(c, "checked")
  /\ UNCHANGED <<books, fees, batch, toPay, handed, covered, noted,
                 notedOn, overlapped>>

\* The split is on the whole price, of which the platform has the deposit.
Backfill(c) ==
  /\ c \in Backfills
  /\ payStep[c] = "priced"
  /\ IF HasPayout(target[c])
       THEN /\ NextStep(c, "refused")
            /\ UNCHANGED <<payoutOf, issued>>
       ELSE /\ CreatePayout(target[c], Split(rate[c]), rate[c])
            /\ NextStep(c, "done")
  /\ UNCHANGED <<stay, deposit, fees, target, batch, toPay, handed, covered,
                 noted, notedOn, overlapped>>

-----------------------------------------------------------------------------
(***************************************************************************)
(* Settling                                                                *)
(***************************************************************************)
Underway(c) == payStep[c] = "settling"

BeginSettlement(c) ==
  /\ payStep[c] = "idle"
  /\ NextStep(c, "settling")
  /\ overlapped' = (overlapped \/ \E d \in Settlements : Underway(d))

Cover(c, b) ==
  /\ SetStatus(b, "MANUALLY_RESOLVED")
  /\ covered' = [covered EXCEPT ![c] = @ \union {b}]

\* Mutant of OpenPayouts: every payout of the venue.
OpenPayoutsAll == {b \in Bookings : HasPayout(b)}

\* The payouts of the venue that are still to be paid.
OpenPayouts ==
  {b \in Bookings : HasPayout(b) /\ payoutOf[b].status \in Payable}

ReadOpenPayouts(r) ==
  /\ BeginSettlement(r)
  /\ batch' = [batch EXCEPT ![r] = OpenPayouts]
  /\ \E sum \in Sums :
       /\ toPay' = [toPay EXCEPT ![r] = sum]
       /\ handed' = [handed EXCEPT ![r] = sum]
  /\ UNCHANGED <<books, fees, target, covered, noted, notedOn>>

\* The batch is taken oldest first.
Older(b, d) ==
  \E i, j \in DOMAIN issued : issued[i] = b /\ issued[j] = d /\ i < j

Take(r, b) ==
  /\ Underway(r)
  /\ toPay[r] > 0
  /\ b \in batch[r]
  /\ \A d \in batch[r] \ {b} : Older(b, d)
  /\ batch' = [batch EXCEPT ![r] = @ \ {b}]

\* Mutant of CoverInFull: the sum is not used up.
CoverInFullFree(r, b) ==
  /\ Take(r, b)
  /\ toPay[r] >= payoutOf[b].amount
  /\ Cover(r, b)
  /\ UNCHANGED <<stay, deposit, issued, fees, payStep, target, toPay, handed,
                 noted, notedOn, overlapped>>

CoverInFull(r, b) ==
  /\ Take(r, b)
  /\ toPay[r] >= payoutOf[b].amount
  /\ Cover(r, b)
  /\ toPay' = [toPay EXCEPT ![r] = @ - payoutOf[b].amount]
  /\ UNCHANGED <<stay, deposit, issued, fees, payStep, target, handed,
                 noted, notedOn, overlapped>>

\* The sum does not reach: a note on the payout, which owes as much as before.
NotePartial(r, b) ==
  /\ Take(r, b)
  /\ toPay[r] < payoutOf[b].amount
  /\ noted' = [noted EXCEPT ![r] = toPay[r]]
  /\ notedOn' = [notedOn EXCEPT ![r] = b]
  /\ toPay' = [toPay EXCEPT ![r] = 0]
  /\ UNCHANGED <<books, fees, payStep, target, handed, covered,
                 overlapped>>

EndRecording(r) ==
  /\ Underway(r)
  /\ batch[r] = {} \/ toPay[r] <= 0
  /\ NextStep(r, "done")
  /\ UNCHANGED <<books, fees, settling>>

\* resolveManually: the check, and then the write.
CheckPayout(c) ==
  /\ BeginSettlement(c)
  /\ \E b \in Bookings :
       /\ HasPayout(b) /\ ~IsResolved(b)
       /\ target' = [target EXCEPT ![c] = b]
  /\ UNCHANGED <<books, fees, batch, toPay, handed, covered, noted, notedOn>>

ResolvePayout(c) ==
  /\ Underway(c)
  /\ Cover(c, target[c])
  /\ NextStep(c, "done")
  /\ UNCHANGED <<stay, deposit, issued, fees, target, batch, toPay, handed,
                 noted, notedOn, overlapped>>

-----------------------------------------------------------------------------
Pricing(q) ==
  UseCachedFee(q) \/ ReadFee(q) \/ StoreFee(q)

Recording(r) ==
  \/ ReadOpenPayouts(r)
  \/ \E b \in Bookings : CoverInFull(r, b) \/ NotePartial(r, b)
  \/ EndRecording(r)

PayoutsNext ==
  \/ \E q \in Quotes : Pricing(q)
  \/ \E p \in Processes : ExpireFee(p)
  \/ \E u \in Updates : WriteFee(u) \/ ClearFee(u)
  \/ \E b \in Bookings : ConfirmBooking(b)
  \/ \E c \in Backfills : CheckBackfill(c) \/ Backfill(c)
  \/ \E r \in Recordings : Recording(r)
  \/ \E c \in Resolutions : CheckPayout(c) \/ ResolvePayout(c)

PayoutsSpec == PayoutsInit /\ [][PayoutsNext]_payoutVars

-----------------------------------------------------------------------------
(***************************************************************************)
(* What the consoles show of the payouts                                   *)
(***************************************************************************)
WithStatus(S) == {b \in Bookings : HasPayout(b) /\ payoutOf[b].status \in S}

\* listPayouts and listOwnerPayouts, filtered by status: the rows they show,
\* by their places in the order of created_at.
ListPayouts(S) == {i \in DOMAIN issued : payoutOf[issued[i]].status \in S}

\* getPayoutStats
AdminStats ==
  LET waiting == WithStatus({"PENDING", "FAILED", "PROCESSING"})
      paid == WithStatus(Completed)
  IN [pending |-> OwedFor(waiting), pendingCount |-> Cardinality(waiting),
      paid |-> OwedFor(paid), paidCount |-> Cardinality(paid)]

\* getVenuePayoutSummary: what is not paid waits.
VenueSummary ==
  LET paid == WithStatus(Completed)
      waiting == WithStatus(PayoutStatus) \ paid
  IN [pending |-> OwedFor(waiting), pendingCount |-> Cardinality(waiting),
      paid |-> OwedFor(paid), paidCount |-> Cardinality(paid)]

\* getOwnerPayoutStats: a payout resolved by hand is shown as neither.
OwnerStats ==
  [pendingCount |-> Cardinality(WithStatus({"PENDING", "PROCESSING"})),
   failedCount |-> Cardinality(WithStatus({"FAILED"})),
   received |-> OwedFor(WithStatus({"SUCCESS"}))]

-----------------------------------------------------------------------------
(***************************************************************************)
(* Properties                                                              *)
(***************************************************************************)

\* The type of the state: amounts may be negative, for the fee is on the
\* whole price and is taken from the deposit.
PayoutsTypeOK ==
  /\ stay \in [Bookings -> {"none", "CONFIRMED", "COMPLETED"}]
  /\ deposit \in [Bookings -> Deposits]
  /\ payoutOf \in [Bookings -> PayoutRows \union {None}]
  /\ feePct \in Percents
  /\ feeCache \in [Processes -> Percents \union {None}]
  /\ payStep \in [PayCalls -> PaySteps]
  /\ rate \in [Quotes -> Percents \union {None}]
  /\ target \in [Resolutions \union Backfills -> Bookings \union {None}]
  /\ batch \in [Recordings -> SUBSET Bookings]
  /\ toPay \in [Recordings -> Nat]
  /\ covered \in [Settlements -> SUBSET Bookings]
  /\ {overlapped, feeRaced} \subseteq BOOLEAN

\* recordManualPayout and resolveManually settle a payout once, unless two of
\* them were under way at the same time: both check it before they write it.
SettledOnceUnlessOverlapped ==
  \A b \in Bookings :
    Cardinality({c \in Settlements : b \in covered[c]}) > 1 => overlapped

\* recordManualPayout resolves no more than it was given: the sum is what it
\* resolved, what it only noted as a part payment, and what it has left.  What
\* is noted is outside the books: it lessens no payout and is in no figure.
SumIsAccounted ==
  \A r \in Recordings :
    /\ handed[r] = OwedFor(covered[r]) + noted[r] + toPay[r]
    /\ toPay[r] >= 0

\* It goes through the payouts it read oldest first, also where amounts below
\* zero let the rest of the sum grow: none it has still to come to, or left
\* open when the sum was used up, is older than one it resolved.
OldestFirst ==
  \A r \in Recordings : \A b \in covered[r], d \in batch[r] : Older(b, d)

\* Nothing takes a payout back that has been resolved, neither the partial
\* payment of a recording that read it while it was open, nor a backfill.
ResolvedStaysResolved ==
  [][\A b \in Bookings : IsResolved(b) => IsResolved(b)']_payoutVars

\* What the administrator, the venue and the owner are shown, by four queries
\* of their own, is what settlements have resolved and what they have not: the
\* sum paid is that of the payouts some recording or resolution resolved, once
\* each, and everything else is still owed in full, part payments noted or not.
FiguresFollow ==
  LET settled == UNION {covered[c] : c \in Settlements}
      open == {b \in Bookings : HasPayout(b)} \ settled
  IN /\ \A figures \in {AdminStats, VenueSummary} :
          figures = [pending |-> OwedFor(Bookings \ settled),
                     pendingCount |-> Cardinality(open),
                     paid |-> OwedFor(settled),
                     paidCount |-> Cardinality(settled)]
     /\ OwnerStats.pendingCount + OwnerStats.failedCount = Cardinality(open)
     /\ Cardinality(ListPayouts(PayoutStatus \ Completed)) = Cardinality(open)

\* What settlements do, one recording at a time or several at once, and what
\* the consoles show of it.
BooksFollowSettlements == SumIsAccounted /\ OldestFirst /\ FiguresFollow

\* "Supports partial payouts -- admin can pay part of the total and record the
\* rest later": a payout is no longer open when the parts recorded for it, one
\* after the other, make up what is owed.
PartPaymentsCount ==
  ~overlapped => \A b \in Bookings :
    HasPayout(b) /\ ~IsResolved(b) /\ Owed(b) > 0 =>
      SumFunctionOnSet(noted, {r \in Recordings : notedOn[r] = b}) < Owed(b)

\* The admin process charges the fee that is set as soon as updateConfig has
\* ended, unless the fee was changed while a copy of it was being made.
FeeIsFreshUnlessRaced ==
  \/ feeRaced
  \/ \E u \in Updates : payStep[u] = "written"
  \/ feeCache["admin"] \in {None, feePct}

=============================================================================
