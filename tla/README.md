# Futsmandu in TLA+

Futsmandu is a booking platform for futsal courts: players hold a court for a
slot, owners manage courts and take walk-in bookings, admins run payouts and
moderation. It is a NestJS monorepo: four APIs (`apps/api-player`, `api-owner`,
`api-admin`, `api-chat`), three workers, and shared packages over one PostgreSQL
database (Prisma), Redis, BullMQ queues and object storage. The instances of
these processes share nothing else, so everything that can go wrong between them
goes wrong between two statements.

The models below take one database statement (or one Redis, storage or gateway
call) as the atom wherever its result is used by a later one. A transaction is
several steps unless its locks make it one. Where a property holds only while two
calls do not overlap, its name ends in *UnlessRaced* (or says what else is
excepted), a history variable records exactly that overlap, and the property
states what the code still guarantees. That is the shape of most results here:
this code base reads, decides and writes in separate statements nearly everywhere.

## 1. Inventory

| Component | State | Operations | Talks to | Hard part | Correct when | Module |
|---|---|---|---|---|---|---|
| Court calendar | `bookings`, `court_blocks`, advisory locks, unique index | holdSlot, createOfflineBooking, blockSlot, unblockSlot, cancelBooking | courts, payments, matches, refunds queue | READ COMMITTED check-then-insert from two APIs; times wrap at midnight | no two live rows need the court at once | `CourtDay`, `SlotLedger` |
| Courts and venues | `courts`, `venues` | updateCourt, softDeleteCourt, createVenue, CRUD | court calendar, admins | count-then-update; slot length changes under existing rows | an inactive court has no upcoming booking | `CourtDay`, `VenueReview` |
| Completion and attendance | `bookings.status`, `no_show_logs` | markAttendance, markBookingCompleted | court calendar | read-then-write against cancellation | only played bookings complete | `CourtDay` |
| Slot grid | Redis key `slotgrid:<court>:<date>`, circuit breaker | getSlotGrid, getCourtCalendar | court calendar, Redis | 30 s copy stored after the delete; deletes the breaker swallows; loop over wrapped times | the grid ends, and shows a booking once it is answered | `SlotGrid` |
| Pricing | `pricing_rules` | rule CRUD, calculatePrice | court calendar | check-then-insert; which rule wins | one rule sets the price | `PriceRules` |
| Gateway payments | `payments`, HELD and PENDING_PAYMENT bookings | initiatePayment, verifyKhalti, verifyEsewa, confirmPayment, expireBooking, recon job | gateways, scheduler | expiry against capture; late answers | captured money ends as a booking or a refund | `HoldPayment` |
| Refunds | `bookings.refund_status`, `payments`, refunds queue | cancelBooking, refund job | gateways, BullMQ | crash between commit and enqueue; retry after a gateway call | a promised refund is paid | `HoldPayment` |
| Owner payouts and the fee | `owner_payouts`, `platform_config` | create with the booking, recordManualPayout, resolveManually, processPayoutForBooking, updateConfig, reports | bookings, consoles | settlements at once; negative amounts; copies of the fee | an owner is paid what is owed, once | `Payouts` |
| Match groups | `match_groups`, `match_group_members`, `match_join_requests` | joinMatch (two of them), requestJoinMatch, respondToJoinRequest, addFriendToMatch, approve, reject, leave | court calendar, notifications | two lock domains; snapshots older than the lock | never more members than places, one place per player | `MatchMembership` |
| Invite links | `match_groups.invite_token` | generateInviteLink, getInvitePreview | match groups | read-then-write | a link given out works until it expires | `InviteLinks` |
| Results and statistics | `result_winner`, `users.matches_*` | setTeams, recordResult, stats job | match groups, queue | read-then-write; retry of increments | each result counts once | `MatchResult` |
| Accounts: codes, sessions, resets | `users`, `owners`, `email_verification_otps`, JWTs | register, resend, verify, login, refresh, forgot and reset password, owner status | mail queue | counters read and written apart; versions raised without comparing | few guesses per code, one use per token, a reset ends sessions | `Account` |
| Media | `media_assets`, `venue_media`, `user_avatars`, storage, Redis | requestUploadUrl, confirmUpload, processing job, orphan sweep, status and gallery reads, deleteAsset | storage, queue | three writes in parallel; sweep against a late job | a processed image keeps its file; every upload settles | `MediaAssets` |
| Signed URLs | a cache per process | getAllKycDocUrls, getKycDocUrl, getVerificationDocUrl, getImageUrl, evict | storage | caches of other processes; life shorter than the cache's | no URL outlives its cache entry, none of a file deleted here | `SignedUrls` |
| Chat | `chats`, `chat_participants`, `messages`, `message_reads`, rooms | direct and group chats, add, remove, send, pages, receipts, sockets | socket rooms | tables against rooms; pages by time | one direct chat per pair, members hear, pages miss nothing | `Chat` |
| Friends | `friendships` | sendRequest, acceptRequest, remove, block | matches | read, then write by id | a block holds | `Friendship` |
| Reviews of venues by players | `reviews`, `venues.avg_rating` | writeReview, approveReview, deleteReview | admins | aggregate and write apart | the rating is that of the approved reviews | `VenueRating` |
| Review of venues by admins | `venues`, `owners` flags | verifyVenue, rejectVenue, approveKyc, rejectKyc | owners, login | count-then-update | a listed venue has an approved owner | `VenueReview` |
| Penalties | `users.is_suspended`, `penalty_history` | suspendUser, reinstateUser, overridePenalty | court calendar | two tables, one read outside its transaction | history and player agree | `Standing` |
| Queued jobs: notices, SMS, mails, audit, incidents | BullMQ queues, `notifications`, logs | add, process, retry, stall, read the inbox | providers | three workers share queues with different processors | a job that is done had its effect | `Deliveries` |
| Abuse guard | Redis counters, scores, cooldowns | handle a request | every endpoint | one command at a time, requests overlap | few requests per window, a cooldown that fits | `AbuseGuard` |
| Processes | connections, health, signals | bootstrap, retry, serve, close, restart | PostgreSQL, Redis, supervisor | a connection that ends while its process goes on | a request's job is done | `Lifecycle` |
| Discovery | caches that are never read | tonight's, tomorrow's and the weekend's feed, open matches | match groups, friends | three calendars; rows of players who left; the viewer's own matches | a feed has the matches of its day, with a place, and no others | `Discovery` |
| Analytics, listings, profiles | reads | aggregates | | | not modelled: nothing they write is read by another component | |

`PROJECT.json` lists the components with their files and what is left out of
each, and under `hazards` the places in the code where the hard parts bite.

## 2. Plan

Done, in this order: the court calendar with its ledger; match membership; the
money of one booking; payouts and the fee; uploads; accounts; results, ratings,
friendships, reviews and prices; the cached grid with the breaker; queued jobs;
the abuse guard; penalties; signed URLs; invite links; chats; processes; the
feeds of matches. Every safety property that a run checks is proved for all values
of the constants (sections 3 to 6 and 10).

Left: the policy percentages of refunds, `softDeleteVenue`, and the members that
`confirmPayment` creates, if those flows are switched on again.

Every module takes its sets of calls as CONSTANTS, has one action per statement
group, and no RECURSIVE operator, so that its invariants can be proved as well as
checked. Every module has its own `Init`, `Next` and `Spec` under names of its
own; the composites of section 8 put several of them into one run of TLC.

## 3. The court calendar: `CourtDay`

### State and actions

One court on one calendar day. A request (`Holds`, `Offlines`, `Blocks`) is one
call of `holdSlot`, `createOfflineBooking` or `blockSlot`; its identity is also
the identity of the row it inserts.

| Variable | Code |
|---|---|
| `court` | `courts.open_time`, `close_time`, `slot_duration_mins`, `is_active` |
| `day` | where `booking_date` lies relative to now |
| `pc`, `unchecked`, `slot` | the call between its statements: which of the two `Promise.all` queries has run, and the computed `start_time`, `end_time`, `duration_mins` |
| `status` | `bookings.status`; for a block, whether `cancelled_at` is set |
| `closing` | markAttendance and markBookingCompleted between their read and their write |
| `retiring` | softDeleteCourt between its count and its update |
| `before` | history only: the rows that were live when a call began |

| Action | Code |
|---|---|
| `Begin` | guards, `pg_try_advisory_xact_lock` (holds only), reading the court, `addMinutesToTime` |
| `Check` | one of the two overlap queries; a conflict throws |
| `InsertBooking`, `InsertBlock` | the insert; for a hold also the commit that releases the lock. The unique index may refuse a booking |
| `Abort` | a later check throws, the transaction times out, the process dies |
| `CancelBooking` | cancelBooking: `FOR UPDATE NOWAIT` makes it one step |
| `UnblockSlot` | unblockSlot |
| `ReadForAttendance`, `ReadForCompletion`, `WriteCompleted` | markAttendance, markBookingCompleted |
| `UpdateCourt`, `CountUpcoming`, `RetireCourt` | updateCourt, softDeleteCourt |
| `NextDay` | the calendar |

A refused call returns to "idle": the caller may make it again. Times are counted
in units; `EndOf` wraps at `DayLength` as `addMinutesToTime` wraps at midnight.
The insert of a hold is at its commit: no other transaction sees the row before,
and a second insert of the same index entry waits for that commit.

`SlotLedger` is what the calendar promises per start time: a start time has at
most one holder, a booking takes it only when it is free, and holds it once.
`CourtDay` implements it under `holderBar` and `spentBar`.

### Runs

| Run | Instance | Shows |
|---|---|---|
| `court` (scene "grid") | 2 holds, 1 walk-in, starts 1 and 3, slot length 2 | `NoDoubleBookingOnGrid`, `ImplementsLedger`, `ClashOnlyWhenConcurrent`, `HoldsExcludeHolds` |
| `court` (scene "ranges") | 2 holds, 1 block, starts 1 and 2, slot length 2 changing to 1 | the same |
| `progress` (scenes of section 8) | 2 holds, fairness | `LockIsReleased` |
| `court_offgrid` | starts 1 and 2 with length 2 | `NoDoubleBooking` fails: the lock and the index are per start time |
| `court_complete` | 1 hold | `CompletesOnlyConfirmed` fails: COMPLETED overwrites CANCELLED |

A block and a booking can cover the same hour in the same way as two holds: both
sides search, then both insert, and `court_blocks` has no index to refuse one.
`ClashOnlyWhenConcurrent` is what is left. `RetireCourt` is one more check-then-act: a hold that read the court as active may
commit between softDeleteCourt's count and its update, and the inactive court
then has an upcoming booking. The step is in the model; no run is spent on it.
Nor is one on midnight: a slot that ends after it gets an end that is smaller than
its start, and passes holdSlot's check against the closing time.

Bounds. A conflict is between two rows and a third call is enough to have one
caller refused while two race, so two or three requests reach every interleaving
of interest; two start times give both the same-start and the overlapping case,
two layouts a change of slot length. The two holds are interchangeable (symmetry).
In the scene "ranges" nothing is completed and the court is not retired; "grid" has
both. The proofs below remove these bounds for
the properties that hold. Deadlock is not checked: every call may have been made
and the day be past.

Fairness. `FairSpec` asks only that a call that has begun goes on
(`WF_vars(RequestStep(r) \/ Abort(r))`): the statements are awaited one after the
other, and Prisma rolls back a transaction that outlives its 5 s timeout. It asks
nothing of callers, owners or the calendar.

### Proofs (`CourtDayProofs`)

* `TypeCorrect`: `Spec => []TypeOK`.
* `ConcurrencyIsNeeded`: when no slot reaches midnight (`NoWrap`), two live rows
  that clash are of calls of which neither saw the other's row at its start. The
  invariant says that a call keeps clear of every row that was there when it
  began, in each table it has searched (`SearchedIsClear`); it needs
  that rows never move (`RowsAreDone`) and that stored ends are sums
  (`SlotsAreSound`), which is where `NoWrap` enters.
* `GridRulesOutDoubleBooking`: `NoDoubleBookingOnGrid`. Two rows of one grid
  (`OnOneGrid`: slots of one length, a whole number of slots apart) with different
  starts are disjoint (`GridApart`), so the index invariant `StartsDiffer` suffices,
  for any start times and through changes of the slot length.
* `LocksKeepPlayersApart`: `HoldsExcludeHolds` is inductive together with
  `LocksDiffer` (two holds between lock and commit have different starts).
* `CourtImplementsLedger`: from `StartsDiffer` the occupancy relation is a
  function, and each step adds one pair, removes one, or leaves it alone.

The proofs assume `KindsAssumption` and `TimesAssumption` (the kinds of request
are disjoint; times are natural numbers) and, where named, `NoWrap`.
`LockIsReleased` is model-checked only: liveness is out of the prover's reach.

## 4. Membership of a match: `MatchMembership`

### State and actions

One match. Every call that inserts a member (`Joins`, `SlotJoins`, `Answers`,
`Additions`) or a request (`Requests`) gives its own identity to the row it
inserts; the organiser and the friends seated by holdSlot have theirs.

| Variable | Code |
|---|---|
| `match` | `match_groups.is_open`, `auto_accept`: written by holdSlot only |
| `row`, `player` | status and `user_id` of `match_group_members` and `match_join_requests`; `removed` is a set `deleted_at` |
| `archived` | `match_join_requests.deleted_at` |
| `pc`, `asked` | the call between its statements, and the request an answer is about |
| `snapshot` | what a transaction at REPEATABLE READ sees |
| `rowLock`, `advisory` | the match row `FOR UPDATE`; `pg_try_advisory_xact_lock` |
| `before` | history only: the seats that were taken when a call began |

| Action | Code |
|---|---|
| `BeginJoin`, `BeginAddition` | the checks outside the transaction, as one step |
| `TakeSnapshot` | the start of the first statement of a REPEATABLE READ transaction; it then waits for the row lock, or tries the advisory lock |
| `LockMatch`, `TryLock` | the two locks |
| `CheckSeat`, `CheckSpace` | the search for the player's row, the count |
| `TakeSeat`, `AddFriend`, `AcceptRequest`, `RejectRequest` | the rest of each transaction and its commit |
| `CheckRequest`, `CreateRequest` | requestJoinMatch, which has no transaction |
| `ReadRequest` | the read of respondToJoinRequest outside its transaction |
| `ApproveMember`, `RemoveMember` | approveMember; rejectMember and leaveMatch |
| `Abort` | the transaction times out or its process dies |

MatchService joins at PostgreSQL's default READ COMMITTED, so its queries read
the rows as they are (`View`). BookingMatchService's transactions run at
REPEATABLE READ: PostgreSQL fixes the snapshot when the first statement starts,
which is before that statement has waited for its lock. That is why a count under
the row lock may be of an older state. An update of a row that changed after the
snapshot is refused by the database, which is what stops an ACCEPT from
overwriting a REJECT; the REJECT is an update of its own and overwrites. An insert
of a member or a request locks the match row `FOR KEY SHARE` through its foreign
key and so waits for a join that has it `FOR UPDATE`.

`is_open` and `auto_accept` are both set from `bookingType` and by nothing else, so
an open match accepts whoever joins: no member is ever pending and approveMember
finds nothing to approve. `NobodyWaits` states it, because approveMember does not
count; it is proved below, and no run is spent on it. The filters that only refuse (skill, friendship, invite token, its
expiry) are left out, as are setTeams and recordResult (section 7 has them) and
notifications.
`schema.prisma` names two partial unique indexes that no migration creates; the
model has neither. (`006` adds a full UNIQUE constraint on
`match_join_requests`; the deployment script applies `001` only, and the Prisma
schema has dropped it.)

### Runs

| Run | Instance | Shows |
|---|---|---|
| `services` (scenes of section 8) | 3 joins through MatchService while nobody leaves, 2 with leaving, 1 and 1 addition, 1 join through BookingMatchService and 1 addition, or 2 requests and 2 answers; 4 players, 3 places | `JoinsFit`, `JoinsSeatOnce`, `FitsUnlessRaced`, `OneSeatUnlessRaced`, `AcceptedGotSeat` |
| `progress` | 1 join through BookingMatchService, 1 addition, 3 players, fairness | `CallsEnd` |
| `match_snapshot` | 2 joins through BookingMatchService | `CapacityRespected` fails: both count before either waits |

An ACCEPT and a REJECT that both read PENDING can both commit: the later REJECT
overwrites the ACCEPTED status although the player keeps the seat.
`AcceptedGotSeat` states what remains, that whoever is ACCEPTED was seated.

`match_snapshot` is one of several ways past the capacity. With one join and one
addition instead of two joins it fails too, since the two locks do not exclude
each other; and with four places two joins of one player both sit, since no unique
index stops the second row. Joins through MatchService are at READ COMMITTED and
search, count and insert under the row lock, and every insert of another kind waits
for that lock through its foreign key: `JoinsFit` and `JoinsSeatOnce` say that the
members they and the booking brought stay within `MaxPlayers` and have one place
each, whatever else runs.

Bounds. Three places, because an open match starts with at least two members and
a free place; a fourth player, so that one too many could sit. Two calls race and
a third join finds what they left. Calls of one kind, the two players from outside,
and requests are interchangeable: the scenes let them begin in one order only. Of the
players who have a place from the start only the friend joins through MatchService.
Deadlock is not checked: every call may have been made.

Fairness. `FairSpec` asks that the statements of a call that has begun follow one
another and that a free lock is granted (`WF_vars(CallStep(c))`); it does not ask
that a player joins or that a transaction aborts.

### Proofs (`MatchMembershipProofs`)

For any players, any numbers of calls of each kind and any number of places:

* `MembershipTypes`: `Spec => []TypeOK`.
* `NobodyIsKeptWaiting`, `OnlyRacesOverfill`, `OnlyRacesSeatTwice`: `NobodyWaits`,
  `FitsUnlessRaced` and `OneSeatUnlessRaced`. All three follow from `RaceInv`. The
  argument is about a call's *elders*, the seats that were taken before it began
  and are taken still. A snapshot may be older than the lock but never older
  than the call, so it shows every elder (`SnapshotShowsElders`); the count
  therefore leaves a place beside the elders (`CountLeavesPlace`) and the search
  finds no elder of the same player (`EldersAreOthers`). Elders only ever leave
  (`EldersOnlyLeave`), so this is still so when the call sits, and all the members
  it did not race are its elders (`NewSeat`). `StepShapes` first reduces the
  sixteen actions to six shapes.
* `SerialJoinsFit`, `SerialJoinsSeatOnce`: `JoinsFit` and `JoinsSeatOnce`. A join
  holds the row lock from its search to its insert (`LockHeld`), so nobody else sits
  meanwhile (`NobodyElseSits`), what it saw and counted stays so (`LookHolds`,
  `CountHolds`), and no assumption on the calls that run beside it is needed.
* `AcceptedPlayersGotSeats`: `AcceptedGotSeat`. Besides `RaceInv` it needs that an
  answer is about the request it read and about its player (`AnswersFollowRequests`),
  and that a seat any snapshot shows is a seat that was given to that player, who
  may have left it since (`SnapshotSeatsAreKept`): the accepting transaction that
  finds the player seated marks the request and adds nobody.

The proofs assume `CallsAssumption` (identities are distinct and finitely many)
and `MatchAssumption` (the organiser is a player, there is at least one place).
`CallsEnd` is model-checked only: liveness is out of the prover's reach.

## 5. The money of a booking: `HoldPayment`

### State and actions

One booking, which starts as a HELD row that waits for a gateway payment, or as the
CONFIRMED row with a cash payment that holdSlot writes at present ("bypass mode").
HELD is the default of `bookings.status`, but no code inserts such a row any more
and no controller calls initiatePayment at this commit (`payment.controller.ts`:
"currently disabled for player flow"; verification is "for legacy/manual payment
flows"). The verify endpoints, the services, and the two recurring jobs are all
in place, so what the model says of HELD bookings is about rows of that older
flow, or of a flow that is switched on again. Cancellation and refund are live for
both kinds.

| Variable | Code |
|---|---|
| `booking` | `bookings.status`, `deposit_amount`, `refund_status` |
| `payment` | the `payments` row: `status`, `gateway`, `amount`, whose order `gateway_tx_id` names, whether `refund_completed_at` is set; `NoPayment` when there is none |
| `payout` | whether `owner_payouts` has a row for the payment |
| `lapsed` | whether `hold_expires_at` has passed |
| `charge` | not in the database: what the gateway did with the money of each order |
| `pc`, `order` | each call between its statements, and the order a verification asks about |
| `refund` | the refund job: its stage and the attempts it has left |
| `raced` | history only: a verification began while another ran |

| Action | Code |
|---|---|
| `ReadHold`, `WritePayment`, `RefusePayment` | initiatePayment: the reads, the transaction (which writes the booking unconditionally), the unique `booking_id` |
| `Capture`, `ReturnElsewhere` | an order is paid at the gateway; its money goes back with the refund of another booking |
| `BeginVerify`, `Answer`, `NoAnswer`, `MarkFailed` | verifyKhalti, verifyEsewa: the read, the lookup, the unconditional FAILED |
| `ReadBooking`, `Confirm`, `RollBack` | confirmPayment: the read, the transaction, the conditional update that finds no row |
| `Lapse` | time |
| `SelectExpired`, `SelectStale`, `Expire` | SlotExpiryProcessor, PaymentReconProcessor, expireBooking |
| `CancelBooking`, `EnqueueRefund` | cancelBooking up to its commit; the job after it |
| `StartRefund`, `Return`, `Decline`, `RecordRefund`, `LoseAttempt` | RefundProcessor and what can fail in it |

A verification inside reconciliation is the same steps as one of a player, except
that an error is caught and the booking is then expired (`Throw`). `Expire` is one
step: the read before its conditional update changes nothing. The endpoint a
verification comes in by is decided by the payment's gateway.

verifyKhalti looks up the order its caller names (`pidx`) and hands confirmPayment
the amount it finds; nothing ties that order to the booking, and `gateway_tx_id` is
not unique. The model therefore has two `Orders`: the booking's `own`, and an
`other`, which is another booking's and has an amount and a fate of its own. A
verification asks about either; a booking may be confirmed with the other order, and
the other booking may have been confirmed with this one's, so that the refund of
each may return the money of the other. verifyEsewa is given an answer that names
the booking, and is about `own` only.

Of the gateways the model assumes what the code relies on: a lookup says
"completed" just when the gateway has the money of the order asked about at that
moment, in the order's amount, and a refund may be asked for again. Left out: the match
`confirmPayment` creates, `pay_status`, notifications, the percentages and
amounts of refunds (whether one is due is a free choice), and COMPLETED.

### Runs

| Run | Instance | Shows |
|---|---|---|
| `money` (scenes of a booking) | initiations, verifications, both recurring jobs, two orders, amounts up to 2, 2 attempts, fairness | `ConfirmedIsCaptured`, `PayoutIffBooked`, `RefundIsReal`, `FailedOnlyIfRaced`, `HoldIsResolved`, `RefundIsSettled` |
| `money_recon` | 1 initiation, the reconciliation job | `PaidIsNotExpired` fails: without a transaction id the gateway is never asked |

`PaidIsNotExpired` also fails without reconciliation (the expiry job, a sweep
between `confirmPayment`'s read and its transaction), and with it when the
deposit is 0: initiatePayment then charges the total, which confirmPayment refuses
because it is not the deposit. No code refunds such money.

Bounds. Two initiations and two verifications are enough for one to act on what the
other has changed; the recurring jobs run as often as they like. Amounts up to 2
give a deposit that is nothing, a part, or all. Two attempts are one failure
and one retry (BullMQ has five). Deadlock is not checked: a booking comes to rest.

Fairness. `FairSpec` asks that time passes, that the recurring jobs go on (registered with
`repeat` by `scheduler.service.ts`, awaited statement by statement), that an
initiatePayment past its reads reaches its transaction, and that a job in the queue is
handed out. It asks nothing of players, of cancellations, or of verifications
requested by players; `HoldIsResolved` holds although those may hang for ever.
`RefundIsSettled` names the two ways a refund ends without money: the job was
never queued (`lost`), or used up its attempts (`failed`), which is what always
happens to the cash payment of bypass mode, since its gateway is unknown to the
refund job.

### Proofs (`MoneyProofs`)

For any sets of calls, any total and any number of attempts: `MoneyTypes`,
`ConfirmedOnMoney`, `PayoutForBooked`, `RefundsAreReal`, `OnlyRacesFailPayments`.
The five properties are inductive together with what connects the calls to the
rows (`MoneyInv`):

* `NoPaymentYet`: without a payment row a booking is HELD or EXPIRED, so an
  initiatePayment that can still insert the row meets no confirmed booking; it is
  this, and not a guard, that keeps its unconditional update away from them.
* `AnswersHold`: the order about which a verification holds the answer "completed"
  was captured, has the amount of the deposit once the two were compared, and its
  money has not been returned by *this* booking's refund, unless the booking was
  cancelled and can no longer be confirmed.
* `RacesAreNoted`: two verifications under way at once, or one that outlives the
  confirmation, have been noted in `raced`; a late FAILED is therefore of a race.
* `JobIsFounded`: a refund job exists only for a cancelled booking, has attempts
  left until it ends, and has the gateway's answer only when the money went back.
* `CashIsNotCharged`: a payment without a gateway is never captured, and one that
  names an order is of a booking that was confirmed, on an order that was captured.

`ConfirmedIsCaptured` says what this leaves: a booking is confirmed with an order
that was captured in the amount of its deposit and that its own refund has not
returned. It does not say that the order is the booking's own, nor that no other
booking was confirmed with it, because the code checks neither.

The proofs assume `CallsAssumption` (the kinds of call are disjoint),
`AmountsAssumption` (a positive total, at least one attempt) and
`NoPaymentAssumption`. `HoldIsResolved` and `RefundIsSettled` are model-checked
only.

## 6. Payouts and the fee: `Payouts`

One venue and its bookings, each with one payment. The three ways to settle are
not transactions: each reads, decides, and writes one row at a time.

| Variable | Code |
|---|---|
| `stay`, `deposit` | `bookings.status`, `deposit_amount`: to be confirmed, or completed before payouts existed |
| `payoutOf`, `issued` | the `owner_payouts` row of each payment, and their order by `created_at` |
| `feePct`, `feeCache` | `platform_config` and `PayoutService.configCache` of each process (5 minutes) |
| `payStep`, `rate`, `target` | the calls between their statements |
| `batch`, `toPay` | recordManualPayout: the payouts it read and has not come to, `remainingToPay` |
| `handed`, `covered`, `noted`, `notedOn`, `overlapped`, `feeRaced` | history only |

| Action | Code |
|---|---|
| `UseCachedFee`, `ReadFee`, `StoreFee`, `ExpireFee` | getConfig |
| `WriteFee`, `ClearFee` | updateConfig, which clears the copy of its own process |
| `ConfirmBooking` | the payout that holdSlot and confirmPayment create |
| `CheckBackfill`, `Backfill` | processPayoutForBooking |
| `ReadOpenPayouts`, `CoverInFull`, `NotePartial`, `EndRecording` | recordManualPayout, oldest payout first |
| `CheckPayout`, `ResolvePayout` | resolveManually |

`ListPayouts`, `AdminStats`, `VenueSummary` and `OwnerStats` are the figures of the
consoles as operators on the same rows. `owner_amount` is the deposit less a fee on
the whole price and may be negative; the model keeps that, and a recording then
*gains* what it covers. A part payment leaves a note and changes nothing: it lessens no payout and enters no
figure. The comment of recordManualPayout says that an administrator "can pay part of
the total and record the rest later"; the violation run `part_payments` finds two
recordings, one after the other, whose parts make up what is owed for a payout that
stays open in full (`PartPaymentsCount`).

Run `money`, scene "payouts": two confirmations beside a backfill and a change of
the fee; two confirmations and two recordings; and a recording, a resolution and a
backfill at once. Price 4, deposits 1 and 4, fees 0 % and 50 % (so an amount is
negative, zero or positive), sums 1 and 5 (a part, and more than everything).
`SettledOnceUnlessOverlapped` says that without overlap no payout is settled
twice. `BooksFollowSettlements` has three parts: a recording resolves no more than
it was given, what it only noted apart (`SumIsAccounted`); it leaves nothing open that
is older than something it resolved, also where an amount below zero lets the rest of
the sum grow (`OldestFirst`); and the consoles' figures are those of the payouts that
some settlement resolved and of no other (`FiguresFollow`). It does not say that noted
money is anywhere in the books: it is not.

Proofs (`MoneyProofs`, with `SumsProofs`), for any sets of calls, deposits, fees
and sums:

* `PayoutsTypes`, and `SettledOnce` for `SettledOnceUnlessOverlapped`. The
  argument: while nothing overlapped, at most one settlement is under way, every
  payout still in its batch, or its target, is open, and whatever any settlement
  has covered is resolved (`SettlingInv`). A payout that is covered was open, so no
  other settlement had covered it.
* `ResolvedOnceAndForAll`: `ResolvedStaysResolved`, an action property.
* `FeeIsFresh`: `FeeIsFreshUnlessRaced`, the copy in the admin process is the fee
  that is set once updateConfig has ended, unless the fee was changed between the
  read and the store of a copy (`FeeInv`).

* `BooksFollow`: `BooksFollowSettlements`. The sum a recording was given is what it
  has covered, noted and left, because a payout that is covered was in the batch and
  leaves it (`SumsInStep`), and because what is owed for a payout never changes once it
  exists; what is left in a batch is younger than what was covered, because the order
  of `issued` only grows; the consoles show what was settled because each payout is
  issued once (`IssuedOnce`) and is resolved only by being covered.

They assume `PayoutsAssumption` (numbers in their ranges, finitely many bookings),
`PayCallsAssumption` (calls are distinct) and `NoRowAssumption`. `ListPayouts` gives
the *places* in `issued` of the payouts a query returns, so that a payout listed
twice would count twice.

`OwedFor`, the aggregate of `VenueRating` and the counts of `Discovery` are
`SumFunctionOnSet` of the community modules, a fold over a finite set. `SumsProofs`
has what the proofs need of it: a sum is an integer (`SumInt`) and depends on the
values only (`SumOfSame`), it is one member's value and the sum over the others
(`SumFromMember`) or the sums over two parts (`SumOfParts`), and of natural numbers
it is no less than the number of those that are positive (`SumCounts`). The library's
induction over finite sets takes an operator as a parameter, which the provers
cannot instantiate; `SubsetsByInduction` does the same with a *set* of subsets and a
least counterexample in the order of strict inclusion, which is well-founded.

## 7. The services around them

Each of these modules is one entity (one account, one venue, one chat) with any
number of calls between their statements: a function from calls to stages (`...Pc`,
`...Step`, `stage`), the rows, and what each call has read.

### `Account`

`account` is the row of a player or an owner (`kind`), `code` the rows of
`email_verification_otps`, `token` the refresh tokens signed (no table keeps them),
`link` the fingerprint in a reset mail. `CheckResend`, `FindCodes`, `IssueCode` are
resendOtp with the transaction of createOtpRecord; `ReadCode`, `CountGuess`,
`MarkAccount`, `MarkCode` verifyOtp, whose last two run in parallel;
`AcceptToken`, `RotateToken` refresh; `AcceptLink`, `WritePassword` resetPassword.
`CodesHoldUnlessRaced`: one good code at a time and no more wrong guesses compared
than allowed. `TokenUsedOnceUnlessRaced`: a token is accepted once.
`ResetEndsSessionsUnlessRaced`: nobody keeps a session over a reset. The exceptions
are real races of the code: the counters are read in one statement and raised in
another. An owner's token has no version; the last two properties say nothing of
owners, because the code promises nothing there.

### `MediaAssets`

`asset`, `file`, `variants`: the row, the stored object and the resized copies of
each upload; `recorded` the rows that name the keys of the copies; `job` the
processing job; `coverMedia`, `coverUrl`, `galleryMedia`,
`activeAvatars`, `linked` the rows that refer to uploads; two caches. confirmUpload
starts its status, job and link writes at once: `todo` holds those outstanding and
they happen in any order, so that the worker may write "completed" before the
confirmation writes "processing". The recurring job (`SweepFile`, `SweepRow`) then
removes the file of a processed image after twelve hours.

The worker's job is a download (`LoadFile`), the uploads of the copies
(`StoreVariants`), which it makes from what it has in memory, whatever has become of
the file, and the write of the row (`MarkReady`), which records their keys; or, where
the image library cannot be loaded, `SkipVariants`. The copy of a WebP image
(`Webps`) has the key of the file itself. deleteAsset reads the row (`BeginDelete`),
deletes the file and the copies whose keys the row *had* (`DeleteFiles`; the storage
may refuse either, which is only logged), and then the row (`DeleteRow`). Between
any two of these steps the sweep or the other may act. `CopiesAccountedFor` is what
remains: the sweep takes no file from an image with copies, unless the confirmation
wrote "processing" after them or a worker is slower than twelve hours
(`ProcessedKeepsFile`); and a deleted image leaves copies in storage only if its row
did not name them yet when the deletion read it, a worker held the image when the
files were deleted, or the storage refused (`DeletedLeavesNoCopies`). `excused` notes
those cases as they happen. `UploadsSettle` and `CachesCatchUp`
are the liveness: the sweep ends what no job ends, and a cache that
was filled with an old answer runs out. `LinksAgreeUnlessRaced` ties the links,
unless two confirmations ran at once or an upload was confirmed while a deletion
that had read it was under way.
The twelve hours may pass between any two steps.

### `SignedUrls`

A cache of URLs per process, with time. `HandedUrlsFitUnlessRaced`: a URL that is
handed out was put in the cache less than `CacheTtl` ago (the model has lives shorter
than that, as the code does, and does not claim that the URL still works), and a
deletion this process made before the call is respected. One document is one file
here: `webp_key`, which the list prefers to `file_key`, is null for the documents
whose URLs these are, since only images are processed. Deletions of other
processes are not: `evict` is local. In this commit the admin's deleteAsset passes
the asset's id where the owner's is expected, so that files are deleted by the
owner's process only.

### `Chat`

`member` is `chat_participants`, `room` and `socket` the gateway, `stamp` and
`reads` the messages and their receipts. A connection reads the chats it belongs to and
joins their rooms later; nothing tells it of a removal. `CreateGroup` counts the names
it is given before it drops those given twice, as the code does, so that a group may
have fewer members than the least it asks for. `ChatsHoldUnlessRaced` has
three parts: one direct chat per pair unless two calls searched at once, rooms hold
members only save sockets that were open when their person left (`lingering`), and
pages read through their cursors cover everything once, unless two messages have
one time. Adding and removing leave a message of the system, which is stored and not
sent (`NoteChange`).

### `Friendship`, `VenueRating`, `VenueReview`, `Standing`, `InviteLinks`

* `Friendship`: one row per pair, read first and written by id. `BlockHoldsUnlessRaced`:
  a block stays until the row is removed; an acceptance read before the block was
  written undoes it.
* `VenueRating`: a moderation changes a review, aggregates, and writes the venue.
  `RatingIsCurrentUnlessRaced` compares the venue with the approved reviews whenever
  no moderation is under way.
* `VenueReview`: `ListedOwnerApprovedUnlessRaced`, that a venue players find has an
  approved owner, holds by the count in rejectVenue and not across rulings that
  overlap, nor after rejectKyc, which leaves the venues.
* `Standing`: suspensions are transactions under the row's lock. `HistoryAgrees`:
  an active penalty means a suspended player; the converse fails only by an
  override, which does not touch the player.
* `InviteLinks`: `LinksWorkUnlessRaced`, a link passed on works until it expires.

### `PriceRules` and `MatchResult`

createRule checks for a base rule and inserts later; it is the unique key on court
and priority that keeps `PriceIsDetermined` (one base rule, one rule that sets the
price) true when two calls were checked at once. `MatchResult` has recordResult's
three statements and the job that counts one member after another:
`CountedOnceUnlessRetried`.

### `SlotGrid`

The copy in Redis, the breaker of `RedisService`, and the loops of getSlotGrid and
of the owner's calendar as one step per turn. `GridIsFreshUnlessRaced`: a booking
that was answered is in every copy, except when its delete was swallowed
(`uncleared`) or a viewer had read before the commit and stored after
(`overtaken`). Changes in the owner's API delete no copy at all and are visible
after 30 s; the property is about players' changes. `grid_endless` finds `GridEnds`
violated ("Generate all slots for the day", line 669): with a last slot that ends
after midnight neither loop ends.

### `Deliveries`

Jobs of the queues that several workers share, with attempts and stalls. What becomes
of a job depends on the worker that takes it (`Ignores`, `Rejects`, `Swallows`,
`LacksKey`) and, for a mail, on what the service put in it (`letter`, `LacksContent`):
the processors of mails return for want of a recipient, the admin's also for want of
a template, which it looks up by a `type` that the jobs of approveKyc and rejectKyc do
not have. `DoneHadEffect` lists every way in which a job ends as done without effect.
Two of them contradict what the code says of itself. `notice_lost`: the owner's worker
takes a player's notice and returns, although the player's processor is documented
to save it in the inbox. `kyc_mail_lost`: the admin's processor, which "sends
verification status emails to owners", passes over the mails of approveKyc and
rejectKyc, so that no owner is told by mail how their papers were judged
(`VerdictsAreMailed`).

### `AbuseGuard`

INCR, the score, the cooldown and the review flag, one Redis command at a time.
`BurstsAreHeld`: no window lets more requests through than the limit unless its
counter failed, and the cooldown in force fits the score unless a request with a
lower score wrote last, or one failed in between.

### `Lifecycle`

The steps of each bootstrap, connections with retries that end for good, requests
that have written their rows and wait to add a job, orderly shutdown (which closes
the clients before the requests are drained), and the supervisor's restart.
`JobsRunUnlessGivenUp`: such a request gets its job done unless its own process was
stopped under it, or a process runs on with a connection that has ended (`Deaf`):
the code comments that "the supervisor should restart us", but nothing exits.
`RequestsAreServed` (proved, not run): between its rows and its job a request is one
of a process that is there to add it and has validated its settings; it is answered
just when its job has been queued; and it is cut off only if some process was sent a
signal.

### `Discovery`

The matches a player is shown. `serverTime` is the server's own clock, `ahead` how
far that is from UTC (either Nepal's 5:45 or nothing), `weekday0` what weekday it
begins on; `sittings` counts the rows of each guest in each match and `seated` says
who is there. A feed is a question, so it is an operator and not an action:
`FeedPages(feed)` is the set of pages it may answer with (equal points come in any
order). `FeedsHoldUnlessSkewed` compares it with what a player means by the words:
a page has only matches with a place, which the player is not in and which the list
of open matches has with as many places or more (`OffersArePossible`); while the
days of the server, of UTC and of Nepal are one, they are on the day the feed names
(`OffersAreInTime`), where the weekend is the weekend days among seven, and nothing
of that day is missed but what a full page of better ones or rows of players who
left keep out (`NothingIsMissed`). Between midnight and 5:45 in Nepal the feeds name
the wrong day. Time begins on day 0; one match is on day 1 and one on day 7, so
that the last day of a weekend and the day after it both occur; a page has one
match (twenty), a day four ticks.

## 8. The composites and the runs

The modules share no variables, so one run of TLC can have several of them without
multiplying their states: `MCCourtScenes`, `MCMoney`, `MCProgress` and `MCServices` choose a
*scene* in the initial state, one module and the calls (its *cast*) that may begin,
while everything else keeps still. A scene is an instance
of its own; the casts are those named in the `.cfg` files, and are chosen so that each
pair of calls that touch the same rows meets in one of them.

| Run | Module | Shows |
|---|---|---|
| `court` | `MCCourtScenes` | section 3: a grid, and times off the grid |
| `money` | `MCMoney` | sections 5 and 6 |
| `progress` | `MCProgress` | liveness of uploads, caches, jobs, a court's locks and a match's calls; `CopiesAccountedFor`, `LinksAgreeUnlessRaced` |
| `services` | `MCServices` | the twenty-one invariants of sections 4 and 7 |
| `court_offgrid` | `MCCourtDay` | violates `NoDoubleBooking` |
| `court_complete` | `MCCourtDay` | violates `CompletesOnlyConfirmed` |
| `match_snapshot` | `MatchMembership` | violates `CapacityRespected` |
| `money_recon` | `MCHoldPayment` | violates `PaidIsNotExpired` |
| `grid_endless` | `MCSlotGrid` | violates `GridEnds` |
| `part_payments` | `Payouts` | violates `PartPaymentsCount` |
| `notice_lost` | `Deliveries` | violates `DoneIsInInbox` |
| `kyc_mail_lost` | `Deliveries` | violates `VerdictsAreMailed` |

The last eight are disagreements between the code and what a comment, a document or
an enum of the repository says; `PROJECT.json` quotes the lines under `findings`.

Bounds of `progress` and `services`, and why they are enough. Nearly every race here
is between two calls, and a third is there where it must find what the two left
(three verifications of a code, three posts that fill a page and a half). Two
venues, because rejecting one must find the other; three documents' worth of cache
slots in three processes, because eviction is local. Two attempts of a job are one
failure and one retry; two outages let Redis fail twice or Redis and the database
once each; one stop signal per behaviour. The breaker opens at two failures (the
code's five only take longer to reach), a page holds two messages (twenty), a
window lets one request through so that four requests reach every level of
the score. Lives and times are small numbers that keep the code's order: a
picture's URL expires before a document's, and both before the cache entry. Deadlock is not
checked anywhere: every call may have been made.

The scenes restrict what is alike, and nothing else: messages, requests of a match
and requests of a client begin in one order; how a rule changes the price is free
only where a price is read; while pages are read nobody is in the room.

Fairness of `progress`, besides that of sections 3 and 4: the recurring sweep of
uploads comes back and cache entries run out (`MediaFairness`: the sweep is a
repeated job of the scheduler, the entries have a TTL in Redis); Redis and the
database come back, a process goes on and is restarted when it has exited
(`restart: unless-stopped` in the compose file), a queue hands out its jobs and hands a
stalled one out again (`LifeFairness`). Neither asks that a job succeeds, that a
client uploads, or that anyone calls. `grid_endless` assumes that a call that has
begun goes on (`GridFairSpec`); its counterexample is a loop that does go on.

## 9. What the models leave out, and what they found on the way

Not modelled: analytics, listings and profiles (reads, nothing depends on
them); logging and error reporting; `RefreshTokenService` (no caller); push
notifications (no code writes the tokens they are sent to); the throttler of NestJS;
eSewa's payout transfer and `adminRetryPayout` (nothing calls them); the
percentages of refunds; cookies and the admins' own accounts; the repository's
migrations beyond the indexes a model relies on.

Things the code does that no run is spent on:

* softDeleteCourt against a hold (`venue-management.service.ts:351`), section 3.
* markAttendance stores the id of an owner or a member of staff in a column that
  refers to `users` (`bookings.service.ts:375`): the insert is refused.
* verifyKhalti confirms a booking with whatever order its caller names, if the amount
  is that of the deposit (`payment.service.ts:199` of the player API), section 5.
* The refund is a share of `total_amount` though only `deposit_amount` was paid
  (`booking-lifecycle.service.ts:582`).
* A payout stays payable after its booking was cancelled and refunded
  (`payment.service.ts:266` of the admin API).
* Two requests of one player to join can both be pending
  (`booking-match.service.ts:146`): no unique index stands behind the search.
* A change of the fee reaches the player's process up to five minutes later.
* The half-open breaker lets every concurrent command through, not one probe, and a
  `get` that finds nothing does not close it.
* The cache of discovery is never hit: it parses what `RedisService.get` has parsed.
* Nothing closes the match of a cancelled booking: the feeds offer it and joinMatch,
  which does not look at the booking, seats players in it.
* Nothing writes `fill_status`, so the list of open matches, which asks that it is
  not FULL (`booking-match.service.ts:332`), has the full ones too.
* Where the server's clock is UTC, which nothing in the repository changes, tonight's
  feed still has the matches that began in the last five hours and three quarters.
* The unique key of `venue_media` lets only one gallery image be linked; a later one
  is completed and shown to players, and is not in the owner's list.
* deleteAsset removes the files before the database may refuse to delete the row.
* A person who has left a group cannot be added again: the row is still there.
* Overriding the penalty of a suspended player leaves the player suspended.
* An owner's `is_verified` is both the proven email address and the approval of the
  papers: rejectKyc clears it, and the owner can set it again with a code.
* Custom pricing rules all get priority 20, so a court can have one.

## 10. What is proved and what is checked

| Proof module | Theorems | About |
|---|---|---|
| `CourtDayProofs` | see section 3 | calendar, refinement of the ledger |
| `MatchMembershipProofs` | see section 4 | membership |
| `MatchMembershipProofs` | `GamesAreCountedOnce` | `MatchResult` |
| `MoneyProofs` | see sections 5 and 6 | payment and refund; settlement, sums and the fee |
| `SumsProofs` | lemmas, see section 6 | sums over finite sets |
| `AccountProofs` | `TokenUsedOnce`, `ResetEndsSessions`, `CodesHold`; `GuardHoldsBursts` | `Account`; `AbuseGuard` |
| `PeopleProofs` | `BlockHolds`, `HistoryAndPlayerAgree`, `LinksWork`, `ChatsHold`, `FeedsHold` | `Friendship`, `Standing`, `InviteLinks`, `Chat`, `Discovery` |
| `CatalogueProofs` | `ListedOwnersAreApproved`, `OnePrice`, `SoundCharges`, `GridIsFresh`, `HandedUrlsFit`, `RatingIsCurrent` | `VenueReview`, `PriceRules`, `SlotGrid`, `SignedUrls`, `VenueRating` |
| `BackgroundProofs` | `JobsHaveEffects`; `MediaTypes`, `CopiesAreAccountedFor`, `LinksAgree`; `NoRequestIsForgotten` | `Deliveries`; `MediaAssets`; `Lifecycle` |

Each theorem holds for every value of the constants that satisfies the named
assumption of its module. Most of these say that the sets of calls (or of jobs) of
different kinds share no member (pairwise: a chain of intersections that is empty
would not say it), so that a call has one stage, that what is summed or counted is
finite, and that the value for "none" is not a call; the others bound numbers, as
the code's own validation and settings do. TLC evaluates them in `services`, `money`,
`progress` and `notice_lost`. None of the properties is inductive as it stands. What
each proof adds:

* `AccountProofs`, sessions (`SessionsHold`): without a race one call at most is
  between its check of the version and its write; a token at the version of the
  account was signed with its present password; a token that has been redeemed is
  either being rotated by that call or behind the version. Steps about codes leave
  all of this alone (`SessionsAside`). Codes (`CodeInv`): the counter of a code is
  behind the comparisons by one at most, and then the verification that compared is
  known; the one call that is issuing has found every unverified code.
* `PeopleProofs`: no row has the id of a call that has not written (`IdsAreFresh`),
  so that the request an acceptance has found can be told from a later one, and once
  a block stands no acceptance holds the row's id (`BlockIsSettled`). Links
  (`LinkIsKept`): while a generation is about to write, no good link is in the row.
  `HistoryAgrees` needs only the types: its two services are transactions.
* `CatalogueProofs`: rulings that do not overlap, with the venues unlisted before the
  owner loses the approval (`RulingInv`); every stored rule has the priority of its
  type and no two have one priority (`RulesApart`); a viewer that is about to store
  has fetched every committed change that did not overtake it (`WhatIsKnown`).
* `BackgroundProofs`, jobs: a job that is at its last step has had its effect or is
  one of those that are given up quietly (`WorkIsDone`).
* `BackgroundProofs`, uploads (`MediaInv`): a confirmation's outstanding writes are
  those of its kind of upload, and its job comes with one of them (`MediaOrder`).
  Files (`FilesKept`): while an image with copies reads "processing", so that the sweep
  may take its file, it is excused or its job is alive (`KeptWhileLive`), and an image a
  worker holds has its file too, unless excused (`FileKept`); a row names copies only of
  an image that has left "pending" for good (`RecordedIsThere`); what a deletion read of
  an image that is not excused are the keys of its copies (`KeysAreRead`), so that once
  the files are deleted nothing is left in storage, no worker holds the image, and none
  of it comes back (`NothingLeft`). Links (`LinksInStep`), unless
  raced: one confirmation writes at a time and its row exists and is not being
  deleted; the transaction that replaces a picture has seen every active one
  (`OneAvatar`); each write of a cover that has been made is there (`CoverWritten`),
  so that the two agree once neither is outstanding (`CoverAgrees`). Attempting the
  proof showed that a deletion which has read its row while the file is being
  confirmed excuses the links as well as two confirmations do; `BeingDeleted` says
  so, and a scene of `progress` has the case.
* `BackgroundProofs`, processes (`ProcessesInStep`): only a process that was sent a
  signal stops in order, which takes a signal that was sent, and a server that is past
  its first step has what validateENV asks for. What a step after another is comes
  from the sequences of the programs (`Plans`), so that a server that listens goes on
  to handle and serve; a step of a process either goes to a step of its plan or ends
  it with no request that has written its rows left (`MovesTo`).
* `MatchMembershipProofs`, results (`GamesInStep`): a player has at most one game for
  each row the job has done with (`CountedRows`), a set that only grows while the job
  runs once; one call at most has found no result (`OneRecord`).
* `AccountProofs`, the guard (`AbuseInv`): in a window whose counter did not fail the
  requests let through have been counted first (`PassedAreCounted`); between a
  request's raise of the score and its cooldown, that request is the only one that
  may set it and has the score at hand (`CooldownInStep`), and the level of a score
  grows with the thresholds it has passed.
* `CatalogueProofs`, URLs (`UrlFacts`): a URL in the cache of a process that has evicted
  its file was signed since, or was being signed as the file was deleted
  (`CachesAreEvicted`), and so are those a call is about to sign (`SigningIsWatched`).
* `CatalogueProofs`, ratings (`RatingInStep`): one moderation at most is under way, and
  what it has computed is the rating the venue has when it ends; before it writes
  (`Untouched`), which a deletion that has found an approved review is too, the
  rating is right as it stands.
* `PeopleProofs`, chats: one call at a time creates a direct chat and only where there
  is none (`DirectsInStep`); a socket in the room, or about to join it, is a member's
  or has outlived the membership (`RoomInStep`); a reading has what was stored at its
  first page down to its cursor (`PagesInStep`). The last is so until the reading is
  done: the last page may be followed by posts that are newer than its cursor.
* `PeopleProofs`, feeds (`FeedInv`): whoever is in a match has a row (`SeatsHaveRows`),
  so rows count at least the guests and a match that seems to have a place has one.
  The rest is arithmetic: which day an instant is on (`DaysLater`), that among seven
  days three are of the weekend (`ThreeWeekendDays`), and that the first three
  weekend days of eight are those of the first seven (`FirstThree`).

`SoundCharges` rests on the same invariant as `OnePrice` and is proved for all calls
and prices; no run checks it, nor `RequestsAreServed`, which `NoRequestIsForgotten`
proves.

Only model-checked: the liveness properties (`HoldIsResolved`, `RefundIsSettled`,
`UploadsSettle`, `CachesCatchUp`, `LockIsReleased`, `CallsEnd`,
`JobsRunUnlessGivenUp`), which are out of the prover's reach. What the eight
violating runs find is not a subject of proof.
