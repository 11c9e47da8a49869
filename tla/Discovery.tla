------------------------------ MODULE Discovery ------------------------------
(***************************************************************************)
(* The three feeds of open matches, tonight's, tomorrow's and the next     *)
(* weekend's, as one player sees them, beside the list of open matches of  *)
(* BookingMatchService.                                                    *)
(*                                                                         *)
(* A match is on a day and at a time of Nepal.  The feeds compare these    *)
(* with the hour and the weekday of the server's own clock, and with the   *)
(* date in UTC.  Time is counted in ticks, a few to the day.               *)
(*                                                                         *)
(* How a guest takes a place is the subject of MatchMembership: here it is *)
(* one step.  A feed is read in one step as well, and changes nothing: the *)
(* copies it writes to Redis are never used, since what RedisService.get   *)
(* returns has been parsed already and JSON.parse throws on it.            *)
(***************************************************************************)
EXTENDS Integers, FiniteSetsExt

CONSTANTS
  OpenMatches,  \* matches with is_open; a cancelled booking leaves it set
  MatchDay,     \* match_date of each
  StartTick,    \* start_time of each
  Appeal,       \* its points for hour, distance, skill, venue and organiser
  Guests,       \* players who may take a place
  Me,           \* the one who looks at the feeds
  Mates,        \* that player's friends
  Spots,        \* max_players of each, without the organiser
  PageSize,     \* the matches a feed shows, 20 in the code
  DayTicks,     \* the ticks of a day
  NepalAhead,   \* how far Nepal is ahead of UTC, 5:45
  Cutoff,       \* when tonight's feed closes, 22:00
  Lead,         \* how long before its start a match leaves it, half an hour
  MaxSittings,  \* bound: how often each guest joins one match
  LastFeedTick  \* bound: the last value of the server's time

ASSUME DiscoveryAssumption ==
  /\ IsFiniteSet(OpenMatches) /\ IsFiniteSet(Guests)
  /\ Me \in Guests /\ Mates \subseteq Guests \ {Me}
  /\ {MatchDay, StartTick} \subseteq [OpenMatches -> Int]
  /\ Spots \in [OpenMatches -> Nat \ {0}]
  /\ {PageSize, DayTicks} \subseteq Nat \ {0}
  /\ {NepalAhead, Cutoff, Lead} \subseteq Nat
  /\ Cutoff + Lead < DayTicks /\ NepalAhead < DayTicks
  /\ MaxSittings \in [Guests -> Nat] /\ LastFeedTick \in Nat

VARIABLES
  serverTime,  \* ticks of the server's clock since its day 0
  ahead,       \* how far that clock is ahead of UTC
  weekday0,    \* the weekday of day 0; Sunday is 0
  sittings,    \* the rows each guest has in each match, deleted or not
  seated       \* the guests of each match with a row that is not deleted

feedVars == <<serverTime, ahead, weekday0, sittings, seated>>

-----------------------------------------------------------------------------
(***************************************************************************)
(* What the code compares                                                  *)
(***************************************************************************)
Feeds == {"tonight", "tomorrow", "weekend"}

DayOf(t) == t \div DayTicks
HourOf(t) == t % DayTicks

\* toDateOnly: the date in UTC at a moment of the server's clock.
UtcDate(t) == DayOf(t - ahead)

IsWeekend(d) == (weekday0 + d) % 7 \in {0, 5, 6}

Tonight ==
  {m \in OpenMatches :
     /\ HourOf(serverTime) <= Cutoff
     /\ MatchDay[m] = UtcDate(serverTime)
     /\ StartTick[m] >= HourOf(serverTime) + Lead}

Tomorrow == {m \in OpenMatches : MatchDay[m] = UtcDate(serverTime + DayTicks)}

\* The first three weekend days of today and the week after it.
Weekend ==
  LET near == {i \in 0..7 : IsWeekend(DayOf(serverTime) + i)}
      three == {i \in near : Cardinality({k \in near : k < i}) < 3}
  IN  {m \in OpenMatches :
         \E i \in three : MatchDay[m] = UtcDate(serverTime + i * DayTicks)}

Found(feed) ==
  CASE feed = "tonight" -> Tonight
    [] feed = "tomorrow" -> Tomorrow
    [] feed = "weekend" -> Weekend

\* The feeds count every row, those of guests who have left with them.
RowsInFeed(m) == SumFunctionOnSet(sittings[m], Guests)
SpotsLeft(m) == Spots[m] - RowsInFeed(m)
MateRows(m) == SumFunctionOnSet(sittings[m], Mates)

\* The points for the hour change with the time; here they are part of Appeal.
Points(m) ==
  LET spots == CASE SpotsLeft(m) = 1 -> 8
                 [] SpotsLeft(m) \in {2, 3} -> 4
                 [] OTHER -> 0
  IN  Appeal[m] + Min({10 * MateRows(m), 20}) + spots

Roomy(feed) == {m \in Found(feed) : SpotsLeft(m) > 0}

\* Matches with equal points come in any order.
Best(ms) ==
  {s \in kSubset(Min({PageSize, Cardinality(ms)}), ms) :
     \A m \in s, n \in ms \ s : Points(m) >= Points(n)}

NotMine(ms) == {m \in ms : sittings[m][Me] = 0}

\* Mutant of FeedPages: the page is cut before the player's matches go.
FeedPagesCutFirst(feed) == {NotMine(s) : s \in Best(Roomy(feed))}

\* What the player may be shown.
FeedPages(feed) == Best(NotMine(Roomy(feed)))

\* BookingMatchService.getOpenMatches: from today's date in UTC on, and with
\* the guests who are there.  It also asks that fill_status is not FULL, which
\* nothing ever writes.
OpenList == {m \in OpenMatches : MatchDay[m] >= UtcDate(serverTime)}
SlotsAvailable(m) == Max({Spots[m] - Cardinality(seated[m]), 0})

-----------------------------------------------------------------------------
FeedInit ==
  /\ serverTime = 0
  /\ ahead \in {0, NepalAhead}
  /\ weekday0 \in 0..6
  /\ sittings = [m \in OpenMatches |-> [p \in Guests |-> 0]]
  /\ seated = [m \in OpenMatches |-> {}]

\* joinMatch and acceptance, where there is room.
Sit(p, m) ==
  /\ p \notin seated[m]
  /\ SlotsAvailable(m) > 0
  /\ sittings[m][p] < MaxSittings[p]
  /\ sittings' = [sittings EXCEPT ![m][p] = @ + 1]
  /\ seated' = [seated EXCEPT ![m] = @ \union {p}]
  /\ UNCHANGED <<serverTime, ahead, weekday0>>

\* leaveMatch and rejectMember: the row gets deleted_at and stays confirmed.
GetUp(p, m) ==
  /\ p \in seated[m]
  /\ seated' = [seated EXCEPT ![m] = @ \ {p}]
  /\ UNCHANGED <<serverTime, ahead, weekday0, sittings>>

FeedTick ==
  /\ serverTime < LastFeedTick
  /\ serverTime' = serverTime + 1
  /\ UNCHANGED <<ahead, weekday0, sittings, seated>>

FeedNext ==
  \/ \E p \in Guests, m \in OpenMatches : Sit(p, m) \/ GetUp(p, m)
  \/ FeedTick

FeedSpec == FeedInit /\ [][FeedNext]_feedVars

-----------------------------------------------------------------------------
(***************************************************************************)
(* Properties                                                              *)
(***************************************************************************)
FeedTypeOK ==
  /\ serverTime \in 0..LastFeedTick
  /\ ahead \in {0, NepalAhead}
  /\ weekday0 \in 0..6
  /\ sittings \in [OpenMatches -> [Guests -> Nat]]
  /\ seated \in [OpenMatches -> SUBSET Guests]

\* What the players mean: the day and the hour are Nepal's, and the weekend is
\* its days among the next seven.
NepalTime == serverTime - ahead + NepalAhead

IsOf(m, feed) ==
  LET today == DayOf(NepalTime) IN
  CASE feed = "tonight" -> /\ MatchDay[m] = today
                           /\ HourOf(NepalTime) <= Cutoff
                           /\ StartTick[m] >= HourOf(NepalTime) + Lead
    [] feed = "tomorrow" -> MatchDay[m] = today + 1
    [] feed = "weekend" -> /\ MatchDay[m] \in today..(today + 6)
                           /\ IsWeekend(MatchDay[m])

\* The server's day, the day in UTC and Nepal's are one.
SameDay ==
  /\ DayOf(serverTime) = DayOf(NepalTime)
  /\ DayOf(NepalTime - NepalAhead) = DayOf(NepalTime)

\* A feed never offers a match that is full or that the player is in, nor one,
\* nor more places of one, than the list of open matches has.
OffersArePossible ==
  \A feed \in Feeds : \A page \in FeedPages(feed) :
    /\ page \subseteq OpenList
    /\ \A m \in page : /\ Me \notin seated[m]
                       /\ SlotsAvailable(m) > 0
                       /\ SpotsLeft(m) <= SlotsAvailable(m)

\* What it offers is on the day it names, while the days agree; and has not
\* begun, where the server's clock is Nepal's.
OffersAreInTime ==
  SameDay =>
    \A feed \in Feeds : \A page \in FeedPages(feed) : \A m \in page :
      IsOf(m, feed) \/ (feed = "tonight" /\ ahead # NepalAhead)

\* A match of that day with a place that the player has never had is offered,
\* unless the page is full of no worse ones, or rows of guests who have left
\* take the place.
NothingIsMissed ==
  SameDay =>
    \A feed \in Feeds : \A page \in FeedPages(feed) : \A m \in OpenMatches \ page :
      (IsOf(m, feed) /\ sittings[m][Me] = 0 /\ SlotsAvailable(m) > 0) =>
        \/ RowsInFeed(m) > Cardinality(seated[m])
        \/ Cardinality(page) = PageSize /\ \A n \in page : Points(n) >= Points(m)

\* A player finds the matches of the day a feed names, and those only.
FeedsHoldUnlessSkewed ==
  OffersArePossible /\ OffersAreInTime /\ NothingIsMissed
=============================================================================
