--------------------------- MODULE CourtDayProofs ---------------------------
(***************************************************************************)
(* Theorems about CourtDay, for any numbers of requests, any start times   *)
(* and any court layouts.                                                  *)
(***************************************************************************)
EXTENDS CourtDay, TLAPS

\* Init and Next keep the types of all variables.
LEMMA InitTypeOK == Init => TypeOK
<1> SUFFICES ASSUME Init PROVE TypeOK
  OBVIOUS
<1>1. court \in [layout : Layouts, active : BOOLEAN]
  BY DEF Init
<1>2. NoSlot \in [start : Nat, end : Nat, duration : Nat]
  BY DEF NoSlot
<1>3. slot \in [Requests -> [start : Nat, end : Nat, duration : Nat]]
  BY <1>2 DEF Init
<1>4. status \in [Requests -> BookingStatus \union BlockStatus \union {NoRow}]
  BY DEF Init
<1>5. QED
  BY <1>1, <1>3, <1>4 DEF Init, TypeOK, Days, Stages

\* The end time of a slot is a natural number.
LEMMA EndOfNat ==
  ASSUME NEW s \in Nat, NEW d \in Nat
  PROVE  EndOf(s, d) \in Nat
  BY TimesAssumption DEF EndOf

\* Every step keeps the types.
LEMMA NextTypeOK == TypeOK /\ [Next]_vars => TypeOK'
<1> SUFFICES ASSUME TypeOK, [Next]_vars PROVE TypeOK'
  OBVIOUS
<1> USE DEF TypeOK
<1>1. ASSUME NEW r \in Requests, NEW s \in StartTimes, Begin(r, s)
      PROVE  TypeOK'
  <2>1. /\ s \in Nat
        /\ court.layout.duration \in Nat
    BY TimesAssumption DEF Layout
  <2>2. [start |-> s, end |-> EndOf(s, court.layout.duration),
         duration |-> court.layout.duration]
          \in [start : Nat, end : Nat, duration : Nat]
    BY <2>1, EndOfNat
  <2>3. QED
    BY <1>1, <2>2 DEF Begin, Stages
<1>2. ASSUME NEW r \in Requests, Refuse(r),
             UNCHANGED <<court, day, closing, retiring>>
      PROVE  TypeOK'
  BY <1>2 DEF Refuse, Stages, NoSlot
<1>3. ASSUME NEW r \in Requests, NEW table \in Tables, Check(r, table)
      PROVE  TypeOK'
  BY <1>2, <1>3 DEF Check, Stages
<1>4. ASSUME NEW b \in Bookings, InsertBooking(b)
      PROVE  TypeOK'
  BY <1>2, <1>4 DEF InsertBooking, Stages, BookingStatus, Requests
<1>5. ASSUME NEW k \in Blocks, InsertBlock(k)
      PROVE  TypeOK'
  BY <1>5 DEF InsertBlock, Stages, BlockStatus, Requests
<1>6. ASSUME NEW r \in Requests, Abort(r)
      PROVE  TypeOK'
  BY <1>2, <1>6 DEF Abort
<1>7. ASSUME NEW b \in Bookings,
             CancelBooking(b) \/ ReadForAttendance(b) \/ ReadForCompletion(b)
      PROVE  TypeOK'
  BY <1>7 DEF CancelBooking, ReadForAttendance, ReadForCompletion,
              BookingStatus, Requests, Closers
<1>8. ASSUME NEW b \in Bookings,
             NEW op \in Closers,
             WriteCompleted(op, b)
      PROVE  TypeOK'
  BY <1>8 DEF WriteCompleted, BookingStatus, Requests
<1>9. ASSUME NEW k \in Blocks, UnblockSlot(k)
      PROVE  TypeOK'
  BY <1>9 DEF UnblockSlot, BlockStatus, Requests
<1>10. ASSUME NEW l \in Layouts, UpdateCourt(l)
       PROVE  TypeOK'
  BY <1>10 DEF UpdateCourt
<1>11. CASE CountUpcoming \/ RetireCourt \/ NextDay
  BY <1>11 DEF CountUpcoming, RetireCourt, NextDay, Days
<1>12. CASE UNCHANGED vars
  BY <1>12 DEF vars
<1>13. QED
  BY <1>1, <1>3, <1>4, <1>5, <1>6, <1>7, <1>8, <1>9, <1>10, <1>11, <1>12
  DEF Next, RequestStep

\* Every reachable state has the types CourtDay declares.
THEOREM TypeCorrect == Spec => []TypeOK
  BY InitTypeOK, NextTypeOK, PTL DEF Spec

-----------------------------------------------------------------------------
(***************************************************************************)
(* The shapes of a step.  The calendar is <<pc, slot, unchecked, status,   *)
(* before>>; every action does one of six things to it.                    *)
(***************************************************************************)
calendar == <<pc, slot, unchecked, status, before>>

LiveStatus == ActiveStatus \union {"BLOCKED"}

Refuses(r) == pc[r] = "checking" /\ Refuse(r) /\ UNCHANGED closing

Passes(r, table) ==
  /\ pc[r] = "checking"
  /\ ~Conflicts(r, table)
  /\ unchecked' = [unchecked EXCEPT ![r] = @ \ {table}]
  /\ UNCHANGED <<pc, slot, status, before, closing>>

Inserts(r, x) ==
  /\ pc[r] = "checking"
  /\ unchecked[r] = {}
  /\ r \in Bookings => x = "CONFIRMED" /\ ~IndexTaken(slot[r].start)
  /\ r \in Blocks => x = "BLOCKED"
  /\ status' = [status EXCEPT ![r] = x]
  /\ pc' = [pc EXCEPT ![r] = "done"]
  /\ UNCHANGED <<slot, unchecked, before, closing>>

Drops(r, x) ==
  /\ x \in {"CANCELLED", "COMPLETED", "UNBLOCKED"}
  /\ status[r] # NoRow \/ \E op \in Closers : <<op, r>> \in closing
  /\ status' = [status EXCEPT ![r] = x]
  /\ closing' \subseteq closing
  /\ UNCHANGED <<pc, slot, unchecked, before>>

Keeps ==
  /\ UNCHANGED calendar
  /\ \A p \in closing' : p \in closing \/ status[p[2]] # NoRow

\* Every step has one of the six shapes.
LEMMA StepShapes ==
  ASSUME TypeOK, [Next]_vars
  PROVE  \/ \E r \in Requests, s \in StartTimes : Begin(r, s)
         \/ \E r \in Requests : Refuses(r)
         \/ \E r \in Requests, table \in Tables : Passes(r, table)
         \/ \E r \in Requests, x \in LiveStatus : Inserts(r, x)
         \/ \E r \in Requests, x \in BookingStatus \union BlockStatus :
              Drops(r, x)
         \/ Keeps
<1>1. ASSUME NEW r \in Requests, NEW table \in Tables, Check(r, table)
      PROVE  Refuses(r) \/ Passes(r, table)
  BY <1>1 DEF Check, Refuses, Passes
<1>2. ASSUME NEW r \in Requests, Abort(r)
      PROVE  Refuses(r)
  BY <1>2 DEF Abort, Refuses
<1>3. ASSUME NEW b \in Bookings, InsertBooking(b)
      PROVE  Refuses(b) \/ Inserts(b, "CONFIRMED")
  BY <1>3, KindsAssumption DEF InsertBooking, Refuses, Inserts
<1>4. ASSUME NEW k \in Blocks, InsertBlock(k)
      PROVE  Inserts(k, "BLOCKED")
  BY <1>4, KindsAssumption DEF InsertBlock, Inserts
<1>5. ASSUME NEW b \in Bookings, CancelBooking(b)
      PROVE  Drops(b, "CANCELLED")
  BY <1>5 DEF CancelBooking, Drops, NoRow
<1>6. ASSUME NEW b \in Bookings, NEW op \in Closers,
             WriteCompleted(op, b)
      PROVE  Drops(b, "COMPLETED")
  BY <1>6 DEF WriteCompleted, Drops
<1>7. ASSUME NEW k \in Blocks, UnblockSlot(k)
      PROVE  Drops(k, "UNBLOCKED")
  BY <1>7 DEF UnblockSlot, Drops, NoRow
<1>8. ASSUME NEW b \in Bookings, ReadForAttendance(b) \/ ReadForCompletion(b)
      PROVE  Keeps
  <2>1. status[b] # NoRow
    BY <1>8 DEF ReadForAttendance, ReadForCompletion, NoRow
  <2>2. \E op \in Closers : closing' = closing \union {<<op, b>>}
    BY <1>8 DEF ReadForAttendance, ReadForCompletion, Closers
  <2>3. \A p \in closing' : p \in closing \/ status[p[2]] # NoRow
    BY <2>1, <2>2
  <2>4. QED
    BY <1>8, <2>3
    DEF ReadForAttendance, ReadForCompletion, Keeps, calendar
<1>9. ASSUME \/ \E l \in Layouts : UpdateCourt(l)
             \/ CountUpcoming \/ RetireCourt \/ NextDay
             \/ UNCHANGED vars
      PROVE  Keeps
  BY <1>9 DEF UpdateCourt, CountUpcoming, RetireCourt, NextDay, vars,
              Keeps, calendar
<1>10. /\ {"CONFIRMED", "BLOCKED"} \subseteq LiveStatus
       /\ {"CANCELLED", "COMPLETED", "UNBLOCKED"}
            \subseteq BookingStatus \union BlockStatus
       /\ Bookings \subseteq Requests
       /\ Blocks \subseteq Requests
  BY DEF LiveStatus, ActiveStatus, BookingStatus, BlockStatus, Requests
<1>11. QED
  BY <1>1, <1>2, <1>3, <1>4, <1>5, <1>6, <1>7, <1>8, <1>9, <1>10
  DEF Next, RequestStep

-----------------------------------------------------------------------------
(***************************************************************************)
(* The inductive invariant                                                 *)
(***************************************************************************)

\* A row exists, or is about to be written over, only once its request is
\* done, and only done requests were live when another began.
RowsAreDone ==
  /\ \A r \in Requests : status[r] # NoRow => pc[r] = "done"
  /\ \A r \in Requests, op \in Closers :
       <<op, r>> \in closing => pc[r] = "done"
  /\ \A r, q \in Requests : q \in before[r] => pc[q] = "done"

\* A request that runs or has run knows its slot, whose end has not wrapped.
SlotsAreSound ==
  \A r \in Requests :
    IF pc[r] = "idle"
    THEN before[r] = {}
    ELSE /\ slot[r].duration > 0
         /\ slot[r].end = slot[r].start + slot[r].duration

\* A request has searched every table before it is done.
DoneIsChecked == \A r \in Requests : pc[r] = "done" => unchecked[r] = {}

\* No row that was live when r began, is live still and is in a table r has
\* searched clashes with r.
SearchedIsClear ==
  \A r \in Requests, table \in Tables, q \in Requests :
    ( /\ table \notin unchecked[r]
      /\ q \in before[r]
      /\ q \in Rows(table)
      /\ Live(q) ) => ~Clash(q, r)

ConcurrencyInv ==
  TypeOK /\ RowsAreDone /\ SlotsAreSound /\ DoneIsChecked /\ SearchedIsClear

\* Two holds that run at once have different advisory locks.
LocksDiffer ==
  \A h, g \in Holds :
    (pc[h] = "checking" /\ pc[g] = "checking" /\ slot[h].start = slot[g].start)
      => h = g

\* Active bookings have different start times: the unique index.
StartsDiffer ==
  \A a, b \in Bookings :
    (Active(a) /\ Active(b) /\ slot[a].start = slot[b].start) => a = b

\* The calendar starts empty, so the invariant holds at first.
LEMMA InitConcurrency == Init => ConcurrencyInv
  BY InitTypeOK
  DEF Init, ConcurrencyInv, RowsAreDone, SlotsAreSound, DoneIsChecked,
      SearchedIsClear

\* A done request stays done with its slot, and its row never comes back to
\* life.
LEMMA DoneIsStable ==
  ASSUME TypeOK, RowsAreDone, [Next]_vars, NEW q \in Requests, pc[q] = "done"
  PROVE  pc'[q] = "done" /\ slot'[q] = slot[q] /\ (Live(q)' => Live(q))
<1>1. ASSUME NEW r \in Requests, NEW s \in StartTimes, Begin(r, s)
      PROVE  pc'[q] = "done" /\ slot'[q] = slot[q] /\ (Live(q)' => Live(q))
  BY <1>1 DEF Begin, TypeOK, Live, Active
<1>2. ASSUME NEW r \in Requests, Refuses(r)
      PROVE  pc'[q] = "done" /\ slot'[q] = slot[q] /\ (Live(q)' => Live(q))
  BY <1>2 DEF Refuses, Refuse, TypeOK, Live, Active
<1>3. ASSUME NEW r \in Requests, NEW table \in Tables, Passes(r, table)
      PROVE  pc'[q] = "done" /\ slot'[q] = slot[q] /\ (Live(q)' => Live(q))
  BY <1>3 DEF Passes, Live, Active
<1>4. ASSUME NEW r \in Requests, NEW x \in LiveStatus, Inserts(r, x)
      PROVE  pc'[q] = "done" /\ slot'[q] = slot[q] /\ (Live(q)' => Live(q))
  BY <1>4 DEF Inserts, TypeOK, Live, Active
<1>5. ASSUME NEW r \in Requests, NEW x \in BookingStatus \union BlockStatus,
             Drops(r, x)
      PROVE  pc'[q] = "done" /\ slot'[q] = slot[q] /\ (Live(q)' => Live(q))
  BY <1>5 DEF Drops, TypeOK, Live, Active, ActiveStatus
<1>6. CASE Keeps
  BY <1>6 DEF Keeps, calendar, Live, Active
<1>7. QED
  BY <1>1, <1>2, <1>3, <1>4, <1>5, <1>6, StepShapes

\* A row exists only for a request that is done, and stays.
LEMMA NextRowsAreDone ==
  TypeOK /\ RowsAreDone /\ [Next]_vars => RowsAreDone'
<1> SUFFICES ASSUME TypeOK, RowsAreDone, [Next]_vars PROVE RowsAreDone'
  OBVIOUS
<1> USE DEF RowsAreDone
<1>1. ASSUME NEW r \in Requests, NEW s \in StartTimes, Begin(r, s)
      PROVE  RowsAreDone'
  <2>1. \A q \in Requests : Live(q) => pc[q] = "done"
    BY DEF Live, Active, ActiveStatus, NoRow
  <2>2. QED
    BY <1>1, <2>1 DEF Begin, TypeOK
<1>2. ASSUME NEW r \in Requests, Refuses(r)
      PROVE  RowsAreDone'
  BY <1>2 DEF Refuses, Refuse, TypeOK
<1>3. ASSUME NEW r \in Requests, NEW table \in Tables, Passes(r, table)
      PROVE  RowsAreDone'
  BY <1>3 DEF Passes, TypeOK
<1>4. ASSUME NEW r \in Requests, NEW x \in LiveStatus, Inserts(r, x)
      PROVE  RowsAreDone'
  BY <1>4 DEF Inserts, TypeOK
<1>5. ASSUME NEW r \in Requests, NEW x \in BookingStatus \union BlockStatus,
             Drops(r, x)
      PROVE  RowsAreDone'
  BY <1>5 DEF Drops, TypeOK
<1>6. CASE Keeps
  <2>1. \A r \in Requests, op \in Closers :
          <<op, r>> \in closing' => pc[r] = "done"
    BY <1>6 DEF Keeps
  <2>2. QED
    BY <1>6, <2>1 DEF Keeps, calendar
<1>7. QED
  BY <1>1, <1>2, <1>3, <1>4, <1>5, <1>6, StepShapes

\* A request that has begun has a slot that does not wrap.
LEMMA NextSlotsAreSound ==
  ASSUME NoWrap
  PROVE  TypeOK /\ SlotsAreSound /\ [Next]_vars => SlotsAreSound'
<1> SUFFICES ASSUME TypeOK, SlotsAreSound, [Next]_vars PROVE SlotsAreSound'
  OBVIOUS
<1> USE DEF SlotsAreSound
<1>1. ASSUME NEW r \in Requests, NEW s \in StartTimes, Begin(r, s)
      PROVE  SlotsAreSound'
  <2>1. /\ s \in Nat
        /\ court.layout.duration \in Nat \ {0}
        /\ court.layout \in Layouts
    BY TimesAssumption DEF Layout, TypeOK
  <2>2. EndOf(s, court.layout.duration) = s + court.layout.duration
    BY <2>1, NoWrap, TimesAssumption DEF NoWrap, EndOf
  <2>3. QED
    BY <1>1, <2>1, <2>2 DEF Begin, TypeOK
<1>2. ASSUME NEW r \in Requests, Refuses(r)
      PROVE  SlotsAreSound'
  BY <1>2 DEF Refuses, Refuse, TypeOK
<1>3. ASSUME NEW r \in Requests, NEW table \in Tables, Passes(r, table)
      PROVE  SlotsAreSound'
  BY <1>3 DEF Passes
<1>4. ASSUME NEW r \in Requests, NEW x \in LiveStatus, Inserts(r, x)
      PROVE  SlotsAreSound'
  BY <1>4 DEF Inserts, TypeOK
<1>5. ASSUME NEW r \in Requests, NEW x \in BookingStatus \union BlockStatus,
             Drops(r, x)
      PROVE  SlotsAreSound'
  BY <1>5 DEF Drops
<1>6. CASE Keeps
  BY <1>6 DEF Keeps, calendar
<1>7. QED
  BY <1>1, <1>2, <1>3, <1>4, <1>5, <1>6, StepShapes

\* A request inserts only after it has searched both tables.
LEMMA NextDoneIsChecked ==
  TypeOK /\ DoneIsChecked /\ [Next]_vars => DoneIsChecked'
<1> SUFFICES ASSUME TypeOK, DoneIsChecked, [Next]_vars PROVE DoneIsChecked'
  OBVIOUS
<1> USE DEF DoneIsChecked
<1>1. ASSUME NEW r \in Requests, NEW s \in StartTimes, Begin(r, s)
      PROVE  DoneIsChecked'
  BY <1>1 DEF Begin, TypeOK
<1>2. ASSUME NEW r \in Requests, Refuses(r)
      PROVE  DoneIsChecked'
  BY <1>2 DEF Refuses, Refuse, TypeOK
<1>3. ASSUME NEW r \in Requests, NEW table \in Tables, Passes(r, table)
      PROVE  DoneIsChecked'
  BY <1>3 DEF Passes, TypeOK
<1>4. ASSUME NEW r \in Requests, NEW x \in LiveStatus, Inserts(r, x)
      PROVE  DoneIsChecked'
  BY <1>4 DEF Inserts, TypeOK
<1>5. ASSUME NEW r \in Requests, NEW x \in BookingStatus \union BlockStatus,
             Drops(r, x)
      PROVE  DoneIsChecked'
  BY <1>5 DEF Drops
<1>6. CASE Keeps
  BY <1>6 DEF Keeps, calendar
<1>7. QED
  BY <1>1, <1>2, <1>3, <1>4, <1>5, <1>6, StepShapes

\* A search that finds no conflict finds no clash, when no end time wraps.
LEMMA NoConflictNoClash ==
  ASSUME TypeOK, SlotsAreSound,
         NEW r \in Requests, NEW q \in Requests, NEW table \in Tables,
         pc[r] # "idle", pc[q] # "idle",
         ~Conflicts(r, table), q \in Rows(table), Live(q)
  PROVE  ~Clash(q, r)
  BY DEF TypeOK, SlotsAreSound, Conflicts, Collide, Clash

\* What a request found clear stays clear of the rows that were there
\* when it began: such rows do not move, and dropped ones do not come back.
LEMMA NextSearchedIsClear ==
  TypeOK /\ RowsAreDone /\ SlotsAreSound /\ SearchedIsClear /\ [Next]_vars
    => SearchedIsClear'
<1> SUFFICES ASSUME TypeOK, RowsAreDone, SlotsAreSound, SearchedIsClear,
                    [Next]_vars,
                    NEW p \in Requests, NEW t \in Tables, NEW q \in Requests,
                    t \notin unchecked'[p],
                    q \in before'[p],
                    q \in Rows(t),
                    Live(q)'
             PROVE  ~Clash(q, p)'
  BY DEF SearchedIsClear, Rows
<1>1. ASSUME NEW r \in Requests, NEW s \in StartTimes, Begin(r, s)
      PROVE  ~Clash(q, p)'
  <2>1. p # r
    BY <1>1 DEF Begin, TypeOK
  <2>2. q \in before[p] /\ t \notin unchecked[p]
    BY <1>1, <2>1 DEF Begin, TypeOK
  <2>3. /\ pc[q] = "done"
        /\ slot'[q] = slot[q]
        /\ Live(q)
    BY <2>2, DoneIsStable DEF RowsAreDone
  <2>4. slot'[p] = slot[p]
    BY <1>1, <2>1 DEF Begin, TypeOK
  <2>5. QED
    BY <2>2, <2>3, <2>4 DEF SearchedIsClear, Clash
<1>2. ASSUME NEW r \in Requests, Refuses(r)
      PROVE  ~Clash(q, p)'
  <2>1. p # r
    BY <1>2 DEF Refuses, Refuse, TypeOK
  <2>2. /\ q \in before[p]
        /\ t \notin unchecked[p]
        /\ slot'[p] = slot[p]
    BY <1>2, <2>1 DEF Refuses, Refuse, TypeOK
  <2>3. Live(q) /\ slot'[q] = slot[q]
    BY <2>2, DoneIsStable DEF RowsAreDone
  <2>4. QED
    BY <2>2, <2>3 DEF SearchedIsClear, Clash
<1>3. ASSUME NEW r \in Requests, NEW table \in Tables, Passes(r, table)
      PROVE  ~Clash(q, p)'
  <2>1. q \in before[p] /\ Live(q) /\ UNCHANGED slot
    BY <1>3 DEF Passes, Live, Active
  <2>2. CASE t \notin unchecked[p]
    BY <2>1, <2>2 DEF SearchedIsClear, Clash
  <2>3. CASE t \in unchecked[p]
    <3>1. p = r /\ t = table
      BY <1>3, <2>3 DEF Passes, TypeOK
    <3>2. pc[p] # "idle" /\ pc[q] # "idle"
      BY <1>3, <2>1, <3>1 DEF Passes, RowsAreDone
    <3>3. ~Clash(q, p)
      BY <1>3, <2>1, <3>1, <3>2, NoConflictNoClash DEF Passes
    <3>4. QED
      BY <2>1, <3>3 DEF Clash
  <2>4. QED
    BY <2>2, <2>3
<1>4. ASSUME UNCHANGED <<slot, unchecked, before>>
      PROVE  ~Clash(q, p)'
  <2>1. q \in before[p] /\ t \notin unchecked[p]
    BY <1>4
  <2>2. Live(q)
    BY <2>1, DoneIsStable DEF RowsAreDone
  <2>3. QED
    BY <1>4, <2>1, <2>2 DEF SearchedIsClear, Clash
<1>5. QED
  BY <1>1, <1>2, <1>3, <1>4, StepShapes DEF Inserts, Drops, Keeps, calendar

\* What the range-overlap queries guarantee for any start times and any
\* changes of layout, as long as no slot reaches midnight.
THEOREM ConcurrencyIsNeeded ==
  ASSUME NoWrap
  PROVE  Spec => []ClashOnlyWhenConcurrent
<1>1. ConcurrencyInv /\ [Next]_vars => ConcurrencyInv'
  BY NextTypeOK, NextRowsAreDone, NextSlotsAreSound, NextDoneIsChecked,
     NextSearchedIsClear DEF ConcurrencyInv
<1>2. ConcurrencyInv => ClashOnlyWhenConcurrent
  <2> SUFFICES ASSUME ConcurrencyInv,
                      NEW a \in Requests, NEW b \in Requests,
                      Live(a), Live(b), a \in before[b]
               PROVE  ~Clash(a, b)
    BY DEF ClashOnlyWhenConcurrent
  <2>1. PICK table \in Tables : a \in Rows(table)
    BY DEF Requests, Rows, Tables
  <2>2. table \notin unchecked[b]
    BY DEF ConcurrencyInv, RowsAreDone, DoneIsChecked, Live, Active,
           ActiveStatus, NoRow
  <2>3. QED
    BY <2>1, <2>2 DEF ConcurrencyInv, SearchedIsClear
<1>3. QED
  BY InitConcurrency, <1>1, <1>2, PTL DEF Spec

-----------------------------------------------------------------------------
(***************************************************************************)
(* Advisory locks and the unique index                                     *)
(***************************************************************************)

\* The slot of a request is one that was asked for, of a layout's length.
SlotsAreOffered ==
  \A r \in Requests :
    pc[r] # "idle" =>
      /\ slot[r].start \in StartTimes
      /\ \E l \in Layouts : slot[r].duration = l.duration

IndexInv == TypeOK /\ RowsAreDone /\ SlotsAreOffered /\ StartsDiffer

\* No row, so no two rows with one start.
LEMMA InitIndexInv == Init => IndexInv
  BY InitTypeOK
  DEF Init, IndexInv, RowsAreDone, SlotsAreOffered, StartsDiffer, Active,
      ActiveStatus,
      NoRow, Requests

\* The start of a slot is one of the start times asked for.
LEMMA NextSlotsAreOffered ==
  TypeOK /\ SlotsAreOffered /\ [Next]_vars => SlotsAreOffered'
<1> SUFFICES ASSUME TypeOK, SlotsAreOffered, [Next]_vars
             PROVE  SlotsAreOffered'
  OBVIOUS
<1> USE DEF SlotsAreOffered
<1>1. ASSUME NEW r \in Requests, NEW s \in StartTimes, Begin(r, s)
      PROVE  SlotsAreOffered'
  BY <1>1 DEF Begin, TypeOK
<1>2. ASSUME NEW r \in Requests, Refuses(r)
      PROVE  SlotsAreOffered'
  BY <1>2 DEF Refuses, Refuse, TypeOK
<1>3. ASSUME NEW r \in Requests, NEW x \in LiveStatus, Inserts(r, x)
      PROVE  SlotsAreOffered'
  BY <1>3 DEF Inserts, TypeOK
<1>4. ASSUME UNCHANGED <<pc, slot>>
      PROVE  SlotsAreOffered'
  BY <1>4
<1>5. QED
  BY <1>1, <1>2, <1>3, <1>4, StepShapes DEF Passes, Drops, Keeps, calendar

\* The index keeps the start times of active bookings apart, whatever the
\* queries before the insert have seen.
LEMMA NextStartsDiffer ==
  TypeOK /\ RowsAreDone /\ StartsDiffer /\ [Next]_vars => StartsDiffer'
<1> SUFFICES ASSUME TypeOK, RowsAreDone, StartsDiffer, [Next]_vars
             PROVE  StartsDiffer'
  OBVIOUS
<1>0. \A b \in Bookings : b \in Requests /\ (Active(b) => pc[b] = "done")
  BY DEF RowsAreDone, Requests, Active, ActiveStatus, NoRow
<1> USE DEF StartsDiffer, Active
<1>1. ASSUME NEW r \in Requests, NEW s \in StartTimes, Begin(r, s)
      PROVE  StartsDiffer'
  BY <1>0, <1>1 DEF Begin, TypeOK
<1>2. ASSUME NEW r \in Requests, Refuses(r)
      PROVE  StartsDiffer'
  BY <1>0, <1>2 DEF Refuses, Refuse, TypeOK
<1>3. ASSUME NEW r \in Requests, NEW x \in LiveStatus, Inserts(r, x)
      PROVE  StartsDiffer'
  <2>1. CASE r \in Bookings
    BY <1>0, <1>3, <2>1 DEF Inserts, IndexTaken, TypeOK
  <2>2. CASE r \notin Bookings
    BY <1>0, <1>3, <2>2 DEF Inserts, TypeOK
  <2>3. QED
    BY <2>1, <2>2
<1>4. ASSUME NEW r \in Requests, NEW x \in BookingStatus \union BlockStatus,
             Drops(r, x)
      PROVE  StartsDiffer'
  BY <1>0, <1>4 DEF Drops, TypeOK, ActiveStatus
<1>5. ASSUME UNCHANGED <<slot, status>>
      PROVE  StartsDiffer'
  BY <1>5
<1>6. QED
  BY <1>1, <1>2, <1>3, <1>4, <1>5, StepShapes DEF Passes, Keeps, calendar

\* Every step keeps the index invariant.
LEMMA NextIndexInv == IndexInv /\ [Next]_vars => IndexInv'
  BY NextTypeOK, NextRowsAreDone, NextSlotsAreOffered, NextStartsDiffer
  DEF IndexInv

\* Two starts of one grid that differ are at least a slot apart.
LEMMA GridApart ==
  ASSUME NEW s \in Nat, NEW t \in Nat, NEW d \in Nat \ {0},
         s < t, (t - s) % d = 0
  PROVE  s + d <= t
  OBVIOUS

\* On one grid of equal slots the unique index alone rules out double
\* booking, between players, walk-ins and any interleaving of the two.
THEOREM GridRulesOutDoubleBooking == Spec => []NoDoubleBookingOnGrid
<1>1. IndexInv => NoDoubleBookingOnGrid
  <2> SUFFICES ASSUME IndexInv,
                      NEW a \in Bookings, NEW b \in Bookings,
                      a # b, Active(a), Active(b), OnOneGrid(a, b)
               PROVE  ~Clash(a, b)
    BY DEF NoDoubleBookingOnGrid
  <2>1. a \in Requests /\ b \in Requests
    BY DEF Requests
  <2>2. pc[a] = "done" /\ pc[b] = "done"
    BY <2>1 DEF IndexInv, RowsAreDone, Active, ActiveStatus, NoRow
  <2>3. slot[a].start # slot[b].start
    BY DEF IndexInv, StartsDiffer
  <2>4. /\ slot[a].start \in Nat
        /\ slot[b].start \in Nat
        /\ slot[a].duration \in Nat \ {0}
    BY <2>1, <2>2, TimesAssumption
    DEF IndexInv, SlotsAreOffered, TypeOK, Layout
  <2>5. slot[a].start < slot[b].start
    BY <2>3, <2>4 DEF OnOneGrid
  <2>6. slot[a].start + slot[a].duration <= slot[b].start
    BY <2>4, <2>5, GridApart DEF OnOneGrid
  <2>7. QED
    BY <2>4, <2>6 DEF OnOneGrid, Clash
<1>2. QED
  BY InitIndexInv, NextIndexInv, <1>1, PTL DEF Spec

\* Two holds between their lock and their commit have different starts.
LEMMA NextLocksDiffer == TypeOK /\ LocksDiffer /\ [Next]_vars => LocksDiffer'
<1> SUFFICES ASSUME TypeOK, LocksDiffer, [Next]_vars PROVE LocksDiffer'
  OBVIOUS
<1>0. Holds \subseteq Requests
  BY DEF Requests, Bookings
<1> USE DEF LocksDiffer
<1>1. ASSUME NEW r \in Requests, NEW s \in StartTimes, Begin(r, s)
      PROVE  LocksDiffer'
  BY <1>0, <1>1 DEF Begin, Locked, TypeOK
<1>2. ASSUME NEW r \in Requests, Refuses(r)
      PROVE  LocksDiffer'
  BY <1>0, <1>2 DEF Refuses, Refuse, TypeOK
<1>3. ASSUME NEW r \in Requests, NEW x \in LiveStatus, Inserts(r, x)
      PROVE  LocksDiffer'
  BY <1>0, <1>3 DEF Inserts, TypeOK
<1>4. ASSUME UNCHANGED <<pc, slot>>
      PROVE  LocksDiffer'
  BY <1>4
<1>5. QED
  BY <1>1, <1>2, <1>3, <1>4, StepShapes DEF Passes, Drops, Keeps, calendar

LockInv ==
  TypeOK /\ RowsAreDone /\ SlotsAreSound /\ LocksDiffer /\ HoldsExcludeHolds

\* A booking of a player with this start can only be inserted under the
\* lock of this start, which the hold that has searched still has.
LEMMA NextHoldsExcludeHolds ==
  LockInv /\ [Next]_vars => HoldsExcludeHolds'
<1> SUFFICES ASSUME LockInv, [Next]_vars,
                    NEW h \in Holds, NEW g \in Holds,
                    pc'[h] = "checking",
                    "bookings" \notin unchecked'[h],
                    Active(g)'
             PROVE  slot'[g].start # slot'[h].start
  BY DEF HoldsExcludeHolds
<1> USE DEF LockInv
<1>0. /\ h \in Requests /\ g \in Requests
      /\ g \in Rows("bookings")
      /\ Active(g) => pc[g] = "done" /\ Live(g)
  BY DEF Requests, Bookings, Rows, RowsAreDone, Live, Active, ActiveStatus,
         NoRow
<1>1. ASSUME NEW r \in Requests, NEW s \in StartTimes, Begin(r, s)
      PROVE  slot'[g].start # slot'[h].start
  <2>1. h # r
    BY <1>0, <1>1 DEF Begin, TypeOK, Tables
  <2>2. Active(g) /\ g # r
    BY <1>0, <1>1 DEF Begin, Active
  <2>3. QED
    BY <1>0, <1>1, <2>1, <2>2 DEF Begin, TypeOK, HoldsExcludeHolds
<1>2. ASSUME NEW r \in Requests, Refuses(r)
      PROVE  slot'[g].start # slot'[h].start
  <2>1. h # r
    BY <1>0, <1>2 DEF Refuses, Refuse, TypeOK
  <2>2. Active(g) /\ g # r
    BY <1>0, <1>2 DEF Refuses, Refuse, Active
  <2>3. QED
    BY <1>0, <1>2, <2>1, <2>2 DEF Refuses, Refuse, TypeOK, HoldsExcludeHolds
<1>3. ASSUME NEW r \in Requests, NEW table \in Tables, Passes(r, table)
      PROVE  slot'[g].start # slot'[h].start
  <2>1. Active(g) /\ UNCHANGED <<pc, slot>>
    BY <1>3 DEF Passes, Active
  <2>2. CASE "bookings" \notin unchecked[h]
    BY <2>1, <2>2 DEF HoldsExcludeHolds
  <2>3. CASE "bookings" \in unchecked[h]
    <3>1. h = r /\ table = "bookings"
      BY <1>0, <1>3, <2>3 DEF Passes, TypeOK
    <3>2. ~Clash(g, h)
      BY <1>0, <1>3, <2>1, <3>1, NoConflictNoClash DEF Passes
    <3>3. slot[h].duration > 0 /\ slot[g].duration > 0
      BY <1>0, <1>3, <2>1, <3>1 DEF SlotsAreSound, Passes
    <3>4. QED
      BY <1>0, <2>1, <3>2, <3>3 DEF Clash, TypeOK
  <2>4. QED
    BY <2>2, <2>3
<1>4. ASSUME NEW r \in Requests, NEW x \in LiveStatus, Inserts(r, x)
      PROVE  slot'[g].start # slot'[h].start
  <2>1. h # r /\ pc[h] = "checking" /\ "bookings" \notin unchecked[h]
    BY <1>0, <1>4 DEF Inserts, TypeOK
  <2>2. CASE g = r
    BY <1>0, <1>4, <2>1, <2>2 DEF Inserts, LocksDiffer
  <2>3. CASE g # r
    <3>1. Active(g)
      BY <1>0, <1>4, <2>3 DEF Inserts, Active, TypeOK
    <3>2. QED
      BY <1>4, <2>1, <3>1 DEF Inserts, HoldsExcludeHolds
  <2>4. QED
    BY <2>2, <2>3
<1>5. ASSUME NEW r \in Requests, NEW x \in BookingStatus \union BlockStatus,
             Drops(r, x)
      PROVE  slot'[g].start # slot'[h].start
  <2>1. Active(g)
    BY <1>0, <1>5 DEF Drops, Active, ActiveStatus, TypeOK
  <2>2. QED
    BY <1>5, <2>1 DEF Drops, HoldsExcludeHolds
<1>6. CASE Keeps
  BY <1>6 DEF Keeps, calendar, HoldsExcludeHolds, Active
<1>7. QED
  BY <1>1, <1>2, <1>3, <1>4, <1>5, <1>6, StepShapes

\* The advisory lock and the bookings query alone keep two players from the
\* same start time; the index is needed only against walk-in bookings, which
\* take no lock.
THEOREM LocksKeepPlayersApart ==
  ASSUME NoWrap
  PROVE  Spec => []HoldsExcludeHolds
<1>1. Init => LockInv
  BY InitTypeOK, InitConcurrency
  DEF LockInv, Init, ConcurrencyInv, LocksDiffer, HoldsExcludeHolds, Requests,
      Bookings
<1>2. LockInv /\ [Next]_vars => LockInv'
  BY NextTypeOK, NextRowsAreDone, NextSlotsAreSound, NextLocksDiffer,
     NextHoldsExcludeHolds DEF LockInv
<1>3. LockInv => HoldsExcludeHolds
  BY DEF LockInv
<1>4. QED
  BY <1>1, <1>2, <1>3, PTL DEF Spec

-----------------------------------------------------------------------------
(***************************************************************************)
(* CourtDay implements SlotLedger                                          *)
(***************************************************************************)

\* In an occupancy with at most one booking per start time the holder of a
\* start time is that booking.
Exclusive(occ) ==
  \A s \in StartTimes, a, b \in Bookings :
    (<<a, s>> \in occ /\ <<b, s>> \in occ) => a = b

\* The holder of a start time in an exclusive occupancy is its occupant.
LEMMA HolderIsOccupant ==
  ASSUME NEW occ, Exclusive(occ), NEW s \in StartTimes, NEW b \in Bookings,
         <<b, s>> \in occ
  PROVE  HolderIn(occ)[s] = b
<1>1. (CHOOSE c \in Bookings : <<c, s>> \in occ) = b
  BY DEF Exclusive
<1>2. QED
  BY <1>1 DEF HolderIn

\* A start time without an occupant is free.
LEMMA NoOccupantIsFree ==
  ASSUME NEW occ, NEW s \in StartTimes, \A b \in Bookings : <<b, s>> \notin occ
  PROVE  HolderIn(occ)[s] = Free
  BY DEF HolderIn

\* Putting a booking on a free start time changes the holder of that start
\* time alone; so does taking one off.
LEMMA OccupyOne ==
  ASSUME NEW occ, Exclusive(occ), NEW t \in StartTimes, NEW b \in Bookings,
         \A c \in Bookings : <<c, t>> \notin occ
  PROVE  HolderIn(occ \union {<<b, t>>}) = [HolderIn(occ) EXCEPT ![t] = b]
<1> DEFINE new == occ \union {<<b, t>>}
<1>1. Exclusive(new)
  BY DEF Exclusive
<1>2. HolderIn(new)[t] = b
  BY <1>1, HolderIsOccupant
<1>3. ASSUME NEW s \in StartTimes, s # t
      PROVE  HolderIn(new)[s] = HolderIn(occ)[s]
  <2>1. \A c \in Bookings : <<c, s>> \in new <=> <<c, s>> \in occ
    BY <1>3
  <2>2. CASE \E c \in Bookings : <<c, s>> \in occ
    <3>1. PICK c \in Bookings : <<c, s>> \in occ
      BY <2>2
    <3>2. HolderIn(occ)[s] = c
      BY <3>1, HolderIsOccupant
    <3>3. <<c, s>> \in new
      BY <3>1
    <3>4. HolderIn(new)[s] = c
      BY <1>1, <3>3, HolderIsOccupant
    <3>5. QED
      BY <3>2, <3>4
  <2>3. CASE \A c \in Bookings : <<c, s>> \notin occ
    <3>1. \A c \in Bookings : <<c, s>> \notin new
      BY <2>1, <2>3
    <3>2. QED
      BY <2>3, <3>1, NoOccupantIsFree
  <2>4. QED
    BY <2>2, <2>3
<1>4. QED
  BY <1>2, <1>3 DEF HolderIn

\* Dropping an occupant frees its start time and changes no other.
LEMMA LeaveOne ==
  ASSUME NEW occ, Exclusive(occ), NEW t \in StartTimes, NEW b \in Bookings,
         <<b, t>> \in occ
  PROVE  HolderIn(occ \ {<<b, t>>}) = [HolderIn(occ) EXCEPT ![t] = Free]
<1> DEFINE old == occ \ {<<b, t>>}
<1>1. Exclusive(old)
  BY DEF Exclusive
<1>2. \A c \in Bookings : <<c, t>> \notin old
  BY DEF Exclusive
<1>4. occ = old \union {<<b, t>>}
  OBVIOUS
<1>5. HolderIn(occ) = [HolderIn(old) EXCEPT ![t] = b]
  <2>1. HolderIn(old \union {<<b, t>>}) = [HolderIn(old) EXCEPT ![t] = b]
    BY <1>1, <1>2, OccupyOne
  <2>2. QED
    BY <1>4, <2>1
<1>6. HolderIn(old)[t] = Free
  BY <1>2, NoOccupantIsFree
<1>7. \A f, g : f = [g EXCEPT ![t] = b] /\ g[t] = Free
        /\ g \in [StartTimes -> Bookings \union {Free}]
        => g = [f EXCEPT ![t] = Free]
  OBVIOUS
<1>8. HolderIn(old) \in [StartTimes -> Bookings \union {Free}]
  BY DEF HolderIn
<1>9. QED
  BY <1>5, <1>6, <1>7, <1>8

\* With distinct starts, the active bookings are an exclusive occupancy.
LEMMA OccupancyIsExclusive == StartsDiffer => Exclusive(Occupancy)
  BY DEF StartsDiffer, Exclusive, Occupancy

\* A step that changes neither the active bookings, nor their start times,
\* nor which bookings are done, is a stutter of the ledger.
LEMMA LedgerStutters ==
  ASSUME \A b \in Bookings : Active(b)' <=> Active(b),
         \A b \in Bookings : Active(b) => slot'[b].start = slot[b].start,
         \A b \in Bookings : pc'[b] = "done" <=> pc[b] = "done"
  PROVE  UNCHANGED Ledger!ledgerVars
<1>1. Occupancy' = Occupancy
  BY DEF Occupancy
<1>2. holderBar' = holderBar
  BY <1>1 DEF holderBar, HolderIn
<1>3. spentBar' = spentBar
  BY DEF spentBar
<1>4. QED
  BY <1>2, <1>3 DEF Ledger!ledgerVars

\* The insert of a booking takes its start time.
LEMMA LedgerTakes ==
  ASSUME IndexInv, NEW b \in Bookings, Inserts(b, "CONFIRMED")
  PROVE  Ledger!Take(slot[b].start, b)
<1> DEFINE s == slot[b].start
<1>1. b \in Requests /\ s \in StartTimes
  BY DEF IndexInv, SlotsAreOffered, Inserts, Requests
<1>2. \A c \in Bookings : <<c, s>> \notin Occupancy
  BY DEF Inserts, IndexTaken, Occupancy
<1>3. Occupancy' = Occupancy \union {<<b, s>>}
  <2>1. \A c \in Bookings : Active(c)' <=> (Active(c) \/ c = b)
    BY <1>1 DEF Inserts, Active, ActiveStatus, IndexInv, TypeOK, Requests
  <2>2. slot' = slot
    BY DEF Inserts
  <2>3. QED
    BY <2>1, <2>2 DEF Occupancy
<1>4. holderBar' = [holderBar EXCEPT ![s] = b]
  <2>1. HolderIn(Occupancy \union {<<b, s>>})
          = [HolderIn(Occupancy) EXCEPT ![s] = b]
    BY <1>1, <1>2, OccupancyIsExclusive, OccupyOne DEF IndexInv
  <2>2. QED
    BY <1>3, <2>1 DEF holderBar, HolderIn
<1>5. holderBar[s] = Free
  BY <1>1, <1>2, NoOccupantIsFree DEF holderBar
<1>6. b \notin spentBar /\ spentBar' = spentBar \union {b}
  BY <1>1 DEF Inserts, spentBar, IndexInv, TypeOK, Requests
<1>7. QED
  BY <1>4, <1>5, <1>6 DEF Ledger!Take

\* A booking that stops being active releases its start time.
LEMMA LedgerReleases ==
  ASSUME IndexInv, NEW b \in Bookings, Active(b),
         NEW x \in BookingStatus \union BlockStatus, Drops(b, x)
  PROVE  slot[b].start \in StartTimes /\ Ledger!Release(slot[b].start)
<1> DEFINE s == slot[b].start
<1>1. b \in Requests /\ pc[b] = "done" /\ s \in StartTimes
  BY DEF IndexInv, RowsAreDone, SlotsAreOffered, Requests, Active,
         ActiveStatus, NoRow
<1>2. <<b, s>> \in Occupancy
  BY DEF Occupancy
<1>3. Occupancy' = Occupancy \ {<<b, s>>}
  <2>1. \A c \in Bookings : Active(c)' <=> (Active(c) /\ c # b)
    BY <1>1 DEF Drops, Active, ActiveStatus, IndexInv, TypeOK, Requests
  <2>2. slot' = slot
    BY DEF Drops
  <2>3. QED
    BY <2>1, <2>2 DEF Occupancy
<1>4. holderBar' = [holderBar EXCEPT ![s] = Free]
  <2>1. HolderIn(Occupancy \ {<<b, s>>})
          = [HolderIn(Occupancy) EXCEPT ![s] = Free]
    BY <1>1, <1>2, OccupancyIsExclusive, LeaveOne DEF IndexInv
  <2>2. QED
    BY <1>3, <2>1 DEF holderBar, HolderIn
<1>5. holderBar[s] # Free
  BY <1>1, <1>2, OccupancyIsExclusive, HolderIsOccupant, KindsAssumption
  DEF holderBar, IndexInv
<1>6. spentBar' = spentBar
  BY DEF Drops, spentBar
<1>7. QED
  BY <1>1, <1>4, <1>5, <1>6 DEF Ledger!Release

\* Every step of the court is a step of the ledger or a stutter.
LEMMA LedgerStep ==
  IndexInv /\ [Next]_vars => [Ledger!LedgerNext]_(Ledger!ledgerVars)
<1> SUFFICES ASSUME IndexInv, [Next]_vars
             PROVE  Ledger!LedgerNext \/ UNCHANGED Ledger!ledgerVars
  OBVIOUS
<1>0. /\ TypeOK
      /\ \A b \in Bookings :
           /\ b \in Requests
           /\ Active(b) => pc[b] = "done"
  BY DEF IndexInv, RowsAreDone, Requests, Active, ActiveStatus, NoRow
<1>1. ASSUME NEW r \in Requests, NEW s \in StartTimes, Begin(r, s)
      PROVE  UNCHANGED Ledger!ledgerVars
  <2>1. \A b \in Bookings : Active(b)' <=> Active(b)
    BY <1>1 DEF Begin, Active
  <2>2. \A b \in Bookings : Active(b) => slot'[b].start = slot[b].start
    BY <1>0, <1>1 DEF Begin, TypeOK
  <2>3. \A b \in Bookings : pc'[b] = "done" <=> pc[b] = "done"
    BY <1>0, <1>1 DEF Begin, TypeOK
  <2>4. QED
    BY <2>1, <2>2, <2>3, LedgerStutters
<1>2. ASSUME NEW r \in Requests, Refuses(r)
      PROVE  UNCHANGED Ledger!ledgerVars
  <2>1. \A b \in Bookings : Active(b)' <=> Active(b)
    BY <1>2 DEF Refuses, Refuse, Active
  <2>2. \A b \in Bookings : Active(b) => slot'[b].start = slot[b].start
    BY <1>0, <1>2 DEF Refuses, Refuse, TypeOK
  <2>3. \A b \in Bookings : pc'[b] = "done" <=> pc[b] = "done"
    BY <1>0, <1>2 DEF Refuses, Refuse, TypeOK
  <2>4. QED
    BY <2>1, <2>2, <2>3, LedgerStutters
<1>3. ASSUME UNCHANGED <<pc, slot, status>>
      PROVE  UNCHANGED Ledger!ledgerVars
  BY <1>3, LedgerStutters DEF Active
<1>4. ASSUME NEW r \in Requests, NEW x \in LiveStatus, Inserts(r, x)
      PROVE  Ledger!LedgerNext \/ UNCHANGED Ledger!ledgerVars
  <2>1. CASE r \in Bookings
    <3>1. x = "CONFIRMED"
      BY <1>4, <2>1 DEF Inserts
    <3>2. slot[r].start \in StartTimes
      BY <1>4 DEF IndexInv, SlotsAreOffered, Inserts
    <3>3. QED
      BY <1>4, <2>1, <3>1, <3>2, LedgerTakes DEF Ledger!LedgerNext
  <2>2. CASE r \notin Bookings
    <3>1. \A b \in Bookings : Active(b)' <=> Active(b)
      BY <1>0, <1>4, <2>2 DEF Inserts, Active, TypeOK
    <3>2. \A b \in Bookings : pc'[b] = "done" <=> pc[b] = "done"
      BY <1>0, <1>4, <2>2 DEF Inserts, TypeOK
    <3>3. QED
      BY <1>4, <3>1, <3>2, LedgerStutters DEF Inserts
  <2>3. QED
    BY <2>1, <2>2
<1>5. ASSUME NEW r \in Requests, NEW x \in BookingStatus \union BlockStatus,
             Drops(r, x)
      PROVE  Ledger!LedgerNext \/ UNCHANGED Ledger!ledgerVars
  <2>1. CASE r \in Bookings /\ Active(r)
    BY <1>5, <2>1, LedgerReleases DEF Ledger!LedgerNext
  <2>2. CASE ~(r \in Bookings /\ Active(r))
    <3>1. \A b \in Bookings : Active(b)' <=> Active(b)
      BY <1>0, <1>5, <2>2 DEF Drops, Active, ActiveStatus, TypeOK
    <3>2. QED
      BY <1>5, <3>1, LedgerStutters DEF Drops
  <2>3. QED
    BY <2>1, <2>2
<1>6. QED
  BY <1>1, <1>2, <1>3, <1>4, <1>5, StepShapes
  DEF IndexInv, Passes, Keeps, calendar

\* CourtDay implements SlotLedger: every step takes a free start time for a
\* booking that never had one, frees one, or leaves the ledger alone.
THEOREM CourtImplementsLedger == Spec => ImplementsLedger
<1>1. Init => Ledger!LedgerInit
  <2> SUFFICES ASSUME Init PROVE Ledger!LedgerInit
    OBVIOUS
  <2>1. Occupancy = {}
    BY DEF Init, Occupancy, Active, ActiveStatus, NoRow, Requests
  <2>2. holderBar = [s \in StartTimes |-> Free]
    BY <2>1 DEF holderBar, HolderIn
  <2>3. spentBar = {}
    BY DEF Init, spentBar, Requests
  <2>4. QED
    BY <2>2, <2>3 DEF Ledger!LedgerInit
<1>2. QED
  BY <1>1, InitIndexInv, NextIndexInv, LedgerStep, PTL
  DEF Spec, ImplementsLedger, Ledger!LedgerSpec
=============================================================================
