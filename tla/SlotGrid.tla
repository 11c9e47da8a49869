------------------------------ MODULE SlotGrid ------------------------------
(***************************************************************************)
(* The grid of slots that players see for one court and one day: the loop  *)
(* that lists the slots, the copy kept in Redis for 30 seconds, and the    *)
(* circuit breaker that stands before every Redis command (getSlotGrid     *)
(* with RedisService).                                                     *)
(*                                                                         *)
(* A grid is reduced to the changes of the calendar that it shows.  Every  *)
(* change a player makes deletes the copy once it has committed; what the  *)
(* owner does in the other API only shows when the copy has run out.       *)
(* The owner's calendar lists the slots with a loop of its own and keeps   *)
(* no copy.                                                                *)
(* A command and its answer are one step: commands that overlap are left   *)
(* out.                                                                    *)
(***************************************************************************)
EXTENDS Naturals

CONSTANTS
  Changes,      \* bookings made, confirmed, cancelled or expired by players
  OwnerChanges, \* walk-ins, blocks and cancellations of the owner API
  Viewers,      \* callers of getSlotGrid
  OwnerViewers, \* callers of CourtsService.getCourtCalendar
  Threshold,    \* BREAKER_THRESHOLD
  Hours,        \* the court's [open, close, duration]
  DayLength     \* the number of time units in a day

ASSUME GridAssumption ==
  /\ Changes \intersect OwnerChanges = {}
  /\ Viewers \intersect OwnerViewers = {}
  /\ Threshold \in Nat \ {0}
  /\ DayLength \in Nat \ {0}
  /\ Hours \in [open : Nat, close : Nat, duration : Nat \ {0}]

VARIABLES
  committed,   \* the changes that are in the database
  changePc,    \* how far each call that changes the calendar has come
  grid,        \* the copy in Redis, and what it shows
  viewPc,      \* how far each viewer has come
  current,     \* the start time each viewer's loop has reached
  fetched,     \* what each viewer's queries returned
  up,          \* whether Redis can be reached
  breaker,     \* RedisService.breaker
  uncleared,   \* history: the changes whose delete did not reach Redis
  overtaken    \* history: the changes that met a viewer between its
               \* queries and its set

gridVars == <<committed, changePc, grid, viewPc, current, fetched, up, breaker,
              uncleared, overtaken>>
viewVars == <<viewPc, current, fetched>>

-----------------------------------------------------------------------------
AllChanges == Changes \union OwnerChanges
AllViewers == Viewers \union OwnerViewers
NoGrid == [there |-> FALSE, shows |-> {}]
ClosedBreaker == [open |-> FALSE, rested |-> FALSE, failures |-> 0]

GridInit ==
  /\ committed = {}
  /\ changePc = [c \in AllChanges |-> "idle"]
  /\ grid = NoGrid
  /\ viewPc = [v \in AllViewers |-> "idle"]
  /\ current = [v \in AllViewers |-> 0]
  /\ fetched = [v \in AllViewers |-> {}]
  /\ up = TRUE
  /\ breaker = ClosedBreaker
  /\ uncleared = {}
  /\ overtaken = {}

-----------------------------------------------------------------------------
(***************************************************************************)
(* The breaker                                                             *)
(***************************************************************************)

\* isBreakerOpen: after its rest the breaker lets commands pass again.
Skips == breaker.open /\ ~breaker.rested

OneMore(n) == IF n < Threshold THEN n + 1 ELSE n

\* recordFailure; the count is not reset when the breaker lets a probe
\* through, so one failed probe opens it again.
FailedBreaker(b) ==
  LET n == OneMore(b.failures) IN
  [open |-> b.open \/ n >= Threshold, rested |-> b.open /\ b.rested,
   failures |-> n]

Probing == [breaker EXCEPT !.open = FALSE, !.rested = FALSE]

\* A command that Redis has carried out: recordSuccess.
CommandDone == ~Skips /\ up /\ breaker' = ClosedBreaker

\* A command that the breaker swallows, or that fails.
CommandLost ==
  \/ Skips /\ UNCHANGED breaker
  \/ ~Skips /\ ~up /\ breaker' = FailedBreaker(Probing)

\* A get that finds nothing does not count as a success.
GetFoundNothing ==
  \/ ~Skips /\ up /\ ~grid.there /\ breaker' = Probing
  \/ CommandLost

RestEnds ==
  /\ Skips
  /\ breaker' = [breaker EXCEPT !.rested = TRUE]
  /\ UNCHANGED <<committed, changePc, grid, viewVars, up, uncleared,
                 overtaken>>

\* The connection breaks, or an attempt to connect fails: an error event.
ConnectionFails ==
  /\ up' = FALSE
  /\ breaker' = FailedBreaker(breaker)
  /\ UNCHANGED <<committed, changePc, grid, viewVars, uncleared, overtaken>>

\* The connect event.
ConnectionReturns ==
  /\ ~up
  /\ up' = TRUE
  /\ breaker' = ClosedBreaker
  /\ UNCHANGED <<committed, changePc, grid, viewVars, uncleared, overtaken>>

-----------------------------------------------------------------------------
(***************************************************************************)
(* Changes of the calendar                                                 *)
(***************************************************************************)

CommitChange(c) ==
  /\ changePc[c] = "idle"
  /\ committed' = committed \union {c}
  /\ changePc' = [changePc EXCEPT ![c] =
                    IF c \in Changes THEN "committed" ELSE "done"]
  /\ overtaken' = IF \E v \in Viewers : viewPc[v] = "filling"
                  THEN overtaken \union {c} ELSE overtaken
  /\ UNCHANGED <<grid, viewVars, up, breaker, uncleared>>

\* Mutant of Cleared: only the key of the hold is deleted, which nothing
\* ever sets.
ClearedHoldOnly == grid

\* What the delete leaves behind.
Cleared == NoGrid

ClearGrid(c) ==
  /\ changePc[c] = "committed"
  /\ CommandDone
  /\ grid' = Cleared
  /\ changePc' = [changePc EXCEPT ![c] = "done"]
  /\ UNCHANGED <<committed, viewVars, up, uncleared, overtaken>>

\* The delete is skipped or fails, or the process ends before it.
MissClear(c) ==
  /\ changePc[c] = "committed"
  /\ CommandLost \/ UNCHANGED breaker
  /\ changePc' = [changePc EXCEPT ![c] = "done"]
  /\ uncleared' = uncleared \union {c}
  /\ UNCHANGED <<committed, grid, viewVars, up, overtaken>>

-----------------------------------------------------------------------------
(***************************************************************************)
(* getSlotGrid                                                             *)
(***************************************************************************)

\* The copy answers the call.
ViewCopy(v) ==
  /\ viewPc[v] = "idle"
  /\ grid.there
  /\ CommandDone
  /\ UNCHANGED <<committed, changePc, grid, viewVars, up, uncleared,
                 overtaken>>

\* No copy: the court is read and the list of slots is begun.
BeginView(v) ==
  /\ viewPc[v] = "idle"
  /\ GetFoundNothing
  /\ viewPc' = [viewPc EXCEPT ![v] = "listing"]
  /\ current' = [current EXCEPT ![v] = Hours.open]
  /\ UNCHANGED <<committed, changePc, grid, fetched, up, uncleared, overtaken>>

\* addMinutesToTime takes the hour modulo 24.
SlotEnd(t) == (t + Hours.duration) % DayLength

\* One turn of the loop: the next start is the end of this slot.
ListSlot(v) ==
  /\ viewPc[v] = "listing"
  /\ current[v] < Hours.close
  /\ current' = [current EXCEPT ![v] = SlotEnd(@)]
  /\ UNCHANGED <<committed, changePc, grid, viewPc, fetched, up, breaker,
                 uncleared, overtaken>>

\* The three queries of Promise.all; the keys of holds are never set.
ReadCalendar(v) ==
  /\ viewPc[v] = "listing"
  /\ current[v] >= Hours.close
  /\ CommandDone \/ CommandLost
  /\ viewPc' = [viewPc EXCEPT ![v] = "filling"]
  /\ fetched' = [fetched EXCEPT ![v] = committed]
  /\ UNCHANGED <<committed, changePc, grid, current, up, uncleared,
                 overtaken>>

\* The set, and the answer to the viewer.
FillGrid(v) ==
  /\ viewPc[v] = "filling"
  /\ \/ CommandDone /\ grid' = [there |-> TRUE, shows |-> fetched[v]]
     \/ CommandLost /\ UNCHANGED grid
  /\ viewPc' = [viewPc EXCEPT ![v] = "idle"]
  /\ current' = [current EXCEPT ![v] = 0]
  /\ fetched' = [fetched EXCEPT ![v] = {}]
  /\ UNCHANGED <<committed, changePc, up, uncleared, overtaken>>

\* Thirty seconds have passed since the set.
ExpireGrid ==
  /\ grid.there
  /\ grid' = NoGrid
  /\ UNCHANGED <<committed, changePc, viewVars, up, breaker, uncleared,
                 overtaken>>

-----------------------------------------------------------------------------
(***************************************************************************)
(* getCourtCalendar                                                        *)
(***************************************************************************)
BeginCalendar(v) ==
  /\ viewPc[v] = "idle"
  /\ viewPc' = [viewPc EXCEPT ![v] = "drawing"]
  /\ current' = [current EXCEPT ![v] = Hours.open]
  /\ UNCHANGED <<committed, changePc, grid, fetched, up, breaker, uncleared,
                 overtaken>>

\* A slot that ends after the court closes is to end the loop.
SlotFits(t) == t < Hours.close /\ SlotEnd(t) <= Hours.close

DrawSlot(v) ==
  /\ viewPc[v] = "drawing"
  /\ SlotFits(current[v])
  /\ current' = [current EXCEPT ![v] = SlotEnd(@)]
  /\ UNCHANGED <<committed, changePc, grid, viewPc, fetched, up, breaker,
                 uncleared, overtaken>>

\* The three queries of Promise.all.
ReadCourt(v) ==
  /\ viewPc[v] = "drawing"
  /\ ~SlotFits(current[v])
  /\ viewPc' = [viewPc EXCEPT ![v] = "drawn"]
  /\ fetched' = [fetched EXCEPT ![v] = committed]
  /\ UNCHANGED <<committed, changePc, grid, current, up, breaker, uncleared,
                 overtaken>>

\* mget without the breaker: Redis may be gone, and its keys are never set.
DrawCalendar(v) ==
  /\ viewPc[v] = "drawn"
  /\ viewPc' = [viewPc EXCEPT ![v] = "idle"]
  /\ current' = [current EXCEPT ![v] = 0]
  /\ fetched' = [fetched EXCEPT ![v] = {}]
  /\ UNCHANGED <<committed, changePc, grid, up, breaker, uncleared, overtaken>>

-----------------------------------------------------------------------------
ViewStep(v) == BeginView(v) \/ ListSlot(v) \/ ReadCalendar(v) \/ FillGrid(v)

GridNext ==
  \/ \E c \in AllChanges : CommitChange(c) \/ ClearGrid(c) \/ MissClear(c)
  \/ \E v \in Viewers : ViewCopy(v) \/ ViewStep(v)
  \/ \E v \in OwnerViewers :
       BeginCalendar(v) \/ DrawSlot(v) \/ ReadCourt(v) \/ DrawCalendar(v)
  \/ ExpireGrid
  \/ RestEnds \/ ConnectionFails \/ ConnectionReturns

GridSpec == GridInit /\ [][GridNext]_gridVars

\* A call that has begun goes on.
GridFairSpec ==
  /\ GridSpec
  /\ \A v \in Viewers : WF_gridVars(ListSlot(v) \/ ReadCalendar(v))
  /\ \A v \in OwnerViewers : WF_gridVars(DrawSlot(v) \/ ReadCourt(v))

-----------------------------------------------------------------------------
(***************************************************************************)
(* Properties                                                              *)
(***************************************************************************)
GridTypeOK ==
  /\ committed \subseteq AllChanges
  /\ changePc \in [AllChanges -> {"idle", "committed", "done"}]
  /\ grid \in [there : BOOLEAN, shows : SUBSET AllChanges]
  /\ viewPc \in [AllViewers ->
                  {"idle", "listing", "filling", "drawing", "drawn"}]
  /\ current \in [AllViewers -> Nat]
  /\ fetched \in [AllViewers -> SUBSET AllChanges]
  /\ up \in BOOLEAN
  /\ breaker \in [open : BOOLEAN, rested : BOOLEAN, failures : 0..Threshold]
  /\ uncleared \subseteq Changes
  /\ overtaken \subseteq AllChanges

\* A booking that has been answered is in every copy of the grid, so the
\* slot is not offered again; the exceptions are a delete that the breaker
\* swallowed, and a grid that was read before the booking committed and
\* stored after its delete.
GridIsFreshUnlessRaced ==
  grid.there =>
    \A c \in Changes : changePc[c] = "done" =>
      c \in grid.shows \union uncleared \union overtaken

\* "Generate all slots for the day": the players' loop comes to an end, and
\* so does the owner's.
GridEnds ==
  /\ \A v \in Viewers : (viewPc[v] = "listing") ~> (viewPc[v] # "listing")
  /\ \A v \in OwnerViewers :
       (viewPc[v] = "drawing") ~> (viewPc[v] # "drawing")
=============================================================================
