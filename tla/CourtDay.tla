------------------------------ MODULE CourtDay ------------------------------
(***************************************************************************)
(* One court on one calendar day: the requests that put a row in its       *)
(* calendar (a player's hold, an owner's walk-in booking, an owner's       *)
(* block), what later happens to those rows (cancel, unblock, attendance,  *)
(* completion) and the owner's changes to the court itself.                *)
(*                                                                         *)
(* Every database statement whose result is used by a later statement is   *)
(* a step of its own, because PostgreSQL runs these transactions at READ   *)
(* COMMITTED (holdSlot) or there is no transaction at all (the owner API). *)
(* What one such statement reads may be out of date when the next runs.    *)
(*                                                                         *)
(* Times are counted in units of the court's grid from midnight; a day has *)
(* DayLength of them.  A request's identity is also the identity of the    *)
(* row it inserts.                                                         *)
(***************************************************************************)
EXTENDS Naturals, FiniteSets

CONSTANTS
  Holds,       \* calls of BookingLifecycleService.holdSlot
  Offlines,    \* calls of BookingsService.createOfflineBooking
  Blocks,      \* calls of CourtsService.blockSlot
  StartTimes,  \* the start times requests ask for
  DayLength,   \* the number of time units in a day
  Layouts,     \* the [open, close, duration] an owner gives the court
  Free         \* SlotLedger's mark for a start time nobody holds

Bookings == Holds \union Offlines
Requests == Bookings \union Blocks

Layout == [open : Nat, close : Nat, duration : Nat \ {0}]

\* The three kinds of request are different calls; a court has a layout;
\* start times lie within the day.
ASSUME KindsAssumption ==
  /\ Holds \intersect Offlines = {}
  /\ Bookings \intersect Blocks = {}
  /\ Free \notin Bookings

ASSUME TimesAssumption ==
  /\ DayLength \in Nat \ {0}
  /\ StartTimes \subseteq Nat
  /\ StartTimes # {}
  /\ Layouts \subseteq Layout
  /\ Layouts # {}

VARIABLES
  court,      \* the court's row: its layout and whether it is active
  day,        \* where this calendar day lies relative to now
  pc,         \* how far each request has come
  slot,       \* the times of the row each request wants to insert
  unchecked,  \* the tables each request has still to search for conflicts
  status,     \* the status of each inserted row
  before,     \* history: the rows that were live when a request began
  closing,    \* attendance and completion calls between read and write
  retiring    \* softDeleteCourt between its count and its update

vars ==
  <<court, day, pc, slot, unchecked, status, before, closing, retiring>>

-----------------------------------------------------------------------------
(***************************************************************************)
(* The rows and the queries on them                                        *)
(***************************************************************************)
Tables == {"bookings", "blocks"}
BookingStatus == {"HELD", "PENDING_PAYMENT", "CONFIRMED", "CANCELLED",
                  "COMPLETED"}
BlockStatus == {"BLOCKED", "UNBLOCKED"}
NoRow == "NONE"
Closers == {"markAttendance", "markBookingCompleted"}
NoSlot == [start |-> 0, end |-> 0, duration |-> 0]

\* The statuses of the partial unique index and of every conflict query.
ActiveStatus == {"HELD", "PENDING_PAYMENT", "CONFIRMED"}

Active(b) == status[b] \in ActiveStatus

\* A row that the conflict queries can see.
Live(r) == Active(r) \/ status[r] = "BLOCKED"

Rows(table) == IF table = "bookings" THEN Bookings ELSE Blocks

\* addMinutesToTime: the hour wraps at midnight.
EndOf(s, minutes) == (s + minutes) % DayLength

\* Mutant of Collide: compares start times instead of ranges.
CollideOnSameStart(a, b) == slot[a].start = slot[b].start

\* start_time < endTime AND end_time > startTime, on the stored times.
Collide(a, b) == slot[a].start < slot[b].end /\ slot[a].end > slot[b].start

Conflicts(r, table) == \E q \in Rows(table) : Live(q) /\ Collide(q, r)

\* Mutant of IndexTaken: the index forgets confirmed bookings.
IndexTakenWhilePending(s) ==
  \E b \in Bookings :
    status[b] \in {"HELD", "PENDING_PAYMENT"} /\ slot[b].start = s

\* idx_bookings_slot_lock refuses a second active booking with this start.
IndexTaken(s) ==
  \E b \in Bookings : Active(b) /\ slot[b].start = s

\* Mutant of Locked: the lock is given back after the first query.
LockedUntilFirstQuery(s) ==
  \E h \in Holds :
    pc[h] = "checking" /\ unchecked[h] = Tables /\ slot[h].start = s

\* pg_try_advisory_xact_lock: held from the first statement of a holdSlot
\* transaction until that transaction ends.
Locked(s) == \E h \in Holds : pc[h] = "checking" /\ slot[h].start = s

\* (start - open) % duration = 0, and not before opening.
Aligned(s, l) == s >= l.open /\ (s - l.open) % l.duration = 0

\* The checks of each call on the start time alone.
Acceptable(r, s, l) ==
  \/ r \in Holds /\ EndOf(s, l.duration) <= l.close
  \/ r \in Offlines /\ Aligned(s, l) /\ s < l.close
  \/ r \in Blocks /\ Aligned(s, l) /\ EndOf(s, l.duration) <= l.close

-----------------------------------------------------------------------------
(***************************************************************************)
(* Inserting rows                                                          *)
(***************************************************************************)

\* A call that passes its guards: holdSlot takes the advisory lock of its
\* start time, and every call reads the court and computes the end time.
\* A call refused here changes nothing.
Begin(r, s) ==
  LET l == court.layout IN
  /\ pc[r] = "idle"
  /\ court.active
  /\ Acceptable(r, s, l)
  /\ r \in Holds => day # "past" /\ ~Locked(s)
  /\ pc' = [pc EXCEPT ![r] = "checking"]
  /\ slot' = [slot EXCEPT ![r] =
                [start |-> s, end |-> EndOf(s, l.duration),
                 duration |-> l.duration]]
  /\ unchecked' = [unchecked EXCEPT ![r] = Tables]
  /\ before' = [before EXCEPT ![r] = {q \in Requests : Live(q)}]
  /\ UNCHANGED <<court, day, status, closing, retiring>>

\* Mutant of Refuse: the caller is told the booking was made.
RefuseAsDone(r) ==
  /\ pc' = [pc EXCEPT ![r] = "done"]
  /\ unchecked' = [unchecked EXCEPT ![r] = {}]
  /\ UNCHANGED <<slot, status, before>>

\* Mutant of Refuse: the call tries again inside its transaction, holding on
\* to its lock.
RefuseByRetrying(r) ==
  /\ unchecked' = [unchecked EXCEPT ![r] = Tables]
  /\ UNCHANGED <<pc, slot, status, before>>

\* The call throws: no row is inserted, a transaction is rolled back and its
\* advisory lock released.  The caller may make the same call again.
Refuse(r) ==
  /\ pc' = [pc EXCEPT ![r] = "idle"]
  /\ slot' = [slot EXCEPT ![r] = NoSlot]
  /\ unchecked' = [unchecked EXCEPT ![r] = {}]
  /\ before' = [before EXCEPT ![r] = {}]
  /\ UNCHANGED status

\* One of the two findFirst queries, which the calls issue with Promise.all.
Check(r, table) ==
  /\ pc[r] = "checking"
  /\ table \in unchecked[r]
  /\ \/ Conflicts(r, table) /\ Refuse(r)
     \/ /\ ~Conflicts(r, table)
        /\ unchecked' = [unchecked EXCEPT ![r] = @ \ {table}]
        /\ UNCHANGED <<pc, slot, status, before>>
  /\ UNCHANGED <<court, day, closing, retiring>>

\* The insert of a booking row, and for holdSlot the commit and with it the
\* release of the advisory lock.  The index may refuse the row.
InsertBooking(b) ==
  /\ pc[b] = "checking"
  /\ unchecked[b] = {}
  /\ \/ /\ ~IndexTaken(slot[b].start)
        /\ status' = [status EXCEPT ![b] = "CONFIRMED"]
        /\ pc' = [pc EXCEPT ![b] = "done"]
        /\ UNCHANGED <<slot, unchecked, before>>
     \/ IndexTaken(slot[b].start) /\ Refuse(b)
  /\ UNCHANGED <<court, day, closing, retiring>>

\* The insert of a block row: court_blocks has no unique index.
InsertBlock(k) ==
  /\ pc[k] = "checking"
  /\ unchecked[k] = {}
  /\ status' = [status EXCEPT ![k] = "BLOCKED"]
  /\ pc' = [pc EXCEPT ![k] = "done"]
  /\ UNCHANGED <<court, day, slot, unchecked, before, closing, retiring>>

\* A later check of the call (friends, deposit, price) throws, the
\* transaction times out, or the process dies: nothing is inserted.
Abort(r) ==
  /\ pc[r] = "checking"
  /\ Refuse(r)
  /\ UNCHANGED <<court, day, closing, retiring>>

-----------------------------------------------------------------------------
(***************************************************************************)
(* What happens to a row afterwards                                        *)
(***************************************************************************)

\* cancelBooking holds the row lock from its read to its commit, so it is
\* one step; only the player of a booking can cancel it, and a walk-in
\* booking has none.
CancelBooking(b) ==
  /\ b \in Holds
  /\ status[b] = "CONFIRMED"
  /\ status' = [status EXCEPT ![b] = "CANCELLED"]
  /\ UNCHANGED <<court, day, pc, slot, unchecked, before, closing, retiring>>

UnblockSlot(k) ==
  /\ status[k] = "BLOCKED"
  /\ status' = [status EXCEPT ![k] = "UNBLOCKED"]
  /\ UNCHANGED <<court, day, pc, slot, unchecked, before, closing, retiring>>

\* markAttendance reads the booking outside its transaction.
ReadForAttendance(b) ==
  /\ status[b] \in {"CONFIRMED", "COMPLETED"}
  /\ day = "past"
  /\ closing' = closing \union {<<"markAttendance", b>>}
  /\ UNCHANGED <<court, day, pc, slot, unchecked, status, before, retiring>>

\* markBookingCompleted of the admin API has no transaction either.
ReadForCompletion(b) ==
  /\ status[b] = "CONFIRMED"
  /\ day = "past"
  /\ closing' = closing \union {<<"markBookingCompleted", b>>}
  /\ UNCHANGED <<court, day, pc, slot, unchecked, status, before, retiring>>

\* Both write COMPLETED whatever the row's status is by then.
WriteCompleted(op, b) ==
  /\ <<op, b>> \in closing
  /\ status' = [status EXCEPT ![b] = "COMPLETED"]
  /\ closing' = closing \ {<<op, b>>}
  /\ UNCHANGED <<court, day, pc, slot, unchecked, before, retiring>>

-----------------------------------------------------------------------------
(***************************************************************************)
(* The court and the calendar                                              *)
(***************************************************************************)

\* updateCourt writes whatever hours and slot duration the owner sends.
UpdateCourt(l) ==
  /\ court' = [court EXCEPT !.layout = l]
  /\ UNCHANGED <<day, pc, slot, unchecked, status, before, closing, retiring>>

\* softDeleteCourt counts active bookings with booking_date >= now: a date
\* column is midnight, so today's bookings are not counted.
CountUpcoming ==
  /\ ~(day = "future" /\ \E b \in Bookings : Active(b))
  /\ retiring' = TRUE
  /\ UNCHANGED <<court, day, pc, slot, unchecked, status, before, closing>>

RetireCourt ==
  /\ retiring
  /\ court' = [court EXCEPT !.active = FALSE]
  /\ retiring' = FALSE
  /\ UNCHANGED <<day, pc, slot, unchecked, status, before, closing>>

NextDay ==
  /\ \/ day = "future" /\ day' = "today"
     \/ day = "today" /\ day' = "past"
  /\ UNCHANGED <<court, pc, slot, unchecked, status, before, closing,
                 retiring>>

-----------------------------------------------------------------------------
Init ==
  /\ court \in [layout : Layouts, active : {TRUE}]
  /\ day \in {"future", "today"}
  /\ pc = [r \in Requests |-> "idle"]
  /\ slot = [r \in Requests |-> NoSlot]
  /\ unchecked = [r \in Requests |-> {}]
  /\ status = [r \in Requests |-> NoRow]
  /\ before = [r \in Requests |-> {}]
  /\ closing = {}
  /\ retiring = FALSE

RequestStep(r) ==
  \/ \E table \in Tables : Check(r, table)
  \/ r \in Bookings /\ InsertBooking(r)
  \/ r \in Blocks /\ InsertBlock(r)

Next ==
  \/ \E r \in Requests :
       \/ \E s \in StartTimes : Begin(r, s)
       \/ RequestStep(r)
       \/ Abort(r)
  \/ \E b \in Bookings :
       \/ CancelBooking(b)
       \/ ReadForAttendance(b)
       \/ ReadForCompletion(b)
       \/ \E op \in Closers : WriteCompleted(op, b)
  \/ \E k \in Blocks : UnblockSlot(k)
  \/ \E l \in Layouts : UpdateCourt(l)
  \/ CountUpcoming
  \/ RetireCourt
  \/ NextDay

Spec == Init /\ [][Next]_vars

\* A call that has started runs on: its statements are issued one after the
\* other, and a transaction that outlives its timeout is rolled back.
FairSpec == Spec /\ \A r \in Requests : WF_vars(RequestStep(r) \/ Abort(r))

-----------------------------------------------------------------------------
(***************************************************************************)
(* Properties                                                              *)
(***************************************************************************)
Days == {"future", "today", "past"}
Stages == {"idle", "checking", "done"}

\* The type invariant: a booking row has a booking's status, a block row a
\* block's, and a slot's times are within a day.
TypeOK ==
  /\ court \in [layout : Layouts, active : BOOLEAN]
  /\ day \in Days
  /\ pc \in [Requests -> Stages]
  /\ slot \in [Requests -> [start : Nat, end : Nat, duration : Nat]]
  /\ unchecked \in [Requests -> SUBSET Tables]
  /\ status \in [Requests -> BookingStatus \union BlockStatus \union {NoRow}]
  /\ before \in [Requests -> SUBSET Requests]
  /\ closing \subseteq Closers \X Bookings
  /\ retiring \in BOOLEAN

\* Two rows need the court at the same moment of the day: the hours really
\* played, before addMinutesToTime wraps the end at midnight.
Clash(a, b) ==
  /\ slot[a].start < slot[b].start + slot[b].duration
  /\ slot[b].start < slot[a].start + slot[a].duration

\* No slot reaches midnight, so no end time wraps.
NoWrap ==
  \A s \in StartTimes, l \in Layouts : s + l.duration < DayLength

\* Two rows lie on one grid: slots of one length, the second a whole number
\* of slots after the first.
OnOneGrid(a, b) ==
  /\ slot[a].duration = slot[b].duration
  /\ slot[a].start <= slot[b].start
  /\ (slot[b].start - slot[a].start) % slot[a].duration = 0

\* No two active bookings need the court at the same time (README "Critical:
\* Anti-Double-Booking").  Requests off the grid break it.
NoDoubleBooking ==
  \A a, b \in Bookings :
    (a # b /\ Active(a) /\ Active(b)) => ~Clash(a, b)

\* Two active bookings that lie on one grid never need the court at the same
\* time, whatever the calls read before they inserted and whatever the owner
\* did to the court in between: the unique index decides.
NoDoubleBookingOnGrid ==
  \A a, b \in Bookings :
    (a # b /\ Active(a) /\ Active(b) /\ OnOneGrid(a, b)) => ~Clash(a, b)

\* What the range-overlap queries alone guarantee, on any start times and
\* through changes of the slot duration: two live rows clash only when the
\* request that inserted the one began before the other's row was there.
ClashOnlyWhenConcurrent ==
  \A a, b \in Requests :
    (a # b /\ Live(a) /\ Live(b) /\ Clash(a, b)) => a \notin before[b]

\* Advisory lock and query together keep players apart: once a hold has
\* passed its bookings query, no player's booking has its start time, so the
\* index can refuse it only because of a walk-in booking.
HoldsExcludeHolds ==
  \A h, g \in Holds :
    ( /\ pc[h] = "checking"
      /\ "bookings" \notin unchecked[h]
      /\ Active(g) ) => slot[g].start # slot[h].start

\* Only a confirmed (or already completed) booking becomes COMPLETED.
CompletesOnlyConfirmed ==
  [][\A b \in Bookings :
       (status[b] # "COMPLETED" /\ status'[b] = "COMPLETED")
         => status[b] = "CONFIRMED"]_vars

\* A start time's advisory lock is given back, so a later hold can take it.
LockIsReleased == \A s \in StartTimes : Locked(s) ~> ~Locked(s)

-----------------------------------------------------------------------------
(***************************************************************************)
(* The ledger this module implements: the holder of a start time is the    *)
(* active booking with that start time.                                    *)
(***************************************************************************)
Occupancy == {<<b, slot[b].start>> : b \in {c \in Bookings : Active(c)}}

HolderIn(occupancy) ==
  [s \in StartTimes |->
     IF \E b \in Bookings : <<b, s>> \in occupancy
     THEN CHOOSE b \in Bookings : <<b, s>> \in occupancy
     ELSE Free]

holderBar == HolderIn(Occupancy)

spentBar == {b \in Bookings : pc[b] = "done"}

Ledger == INSTANCE SlotLedger WITH
  Starts <- StartTimes, Tickets <- Bookings,
  holder <- holderBar, spent <- spentBar

\* Every step of the court takes or gives back at most one start time, takes
\* only a free one, and never gives a booking a start time twice.
ImplementsLedger == Ledger!LedgerSpec
=============================================================================
