----------------------------- MODULE MCServices -----------------------------
(***************************************************************************)
(* One instance for TLC of the services around the calendar and the money: *)
(* requests and additions to a match, accounts and sessions, results,      *)
(* ratings, friends, chats, the review of venues, prices, the cached slot  *)
(* grid, queued jobs, the guard against bursts, suspensions, signed URLs   *)
(* and invite links, and the feeds of matches.  The modules share no       *)
(* variable, so nothing is learnt from running two of them at once: a      *)
(* behaviour is a scene of one of them, with some of its calls, while the  *)
(* others keep still.                                                      *)
(***************************************************************************)
EXTENDS MatchMembership, Account, MatchResult, VenueRating, Friendship, Chat,
        VenueReview, PriceRules, SlotGrid, Deliveries, AbuseGuard, Standing,
        SignedUrls, InviteLinks, Discovery, TLC

CONSTANTS
  MatchCasts, AccountCasts, ResultCasts, PriceCasts, JobCasts, ChatCasts,
  GridCasts,
  UrlCasts,             \* the calls of each scene, and its documents
  po1, po2, po3,        \* Posts
  f,                    \* the friend the organiser seats in every match
  q,                    \* one of two players who come from outside
  q1, q2, a1, a2,       \* Requests and Answers
  j1, j2, j3,           \* Joins
  pe1, pe3,             \* the person behind every socket, and another
  x1, x2, x3, x4,       \* Arrivals
  m1, m2,               \* OpenMatches
  me, mate,             \* Guests
  api, console, admin,  \* the player's, the owner's and the admin's process
  sv1                   \* the look of an owner at a document of the venue

VARIABLE scene  \* the module that runs, and its calls

\* The court of the grid is open for two slots.
DayHours == [open |-> 1, close |-> 3, duration |-> 1]

SocketOwner == [s \in Sockets |-> pe1]

\* Players look at pictures; owners list their own documents, look at those of
\* a venue and delete files; admins look at the documents of either.
SigningHost ==
  [c \in StorageCalls |->
     IF c \in PictureViews THEN api
     ELSE IF c \in PaperLists \union {sv1} \union Erasures THEN console
     ELSE admin]

\* The second match of the feeds is a week after day 0, where time begins.
FeedDays == [m \in OpenMatches |-> IF m = m1 THEN 1 ELSE 7]
FeedStarts == [m \in OpenMatches |-> IF m = m1 THEN 2 ELSE 3]
FeedAppeal == [m \in OpenMatches |-> IF m = m1 THEN 45 ELSE 40]
FeedSpots == [m \in OpenMatches |-> IF m = m1 THEN 2 ELSE 1]
FeedSittings == [p \in Guests |-> IF p = mate THEN 2 ELSE 1]

OneType == [d \in Papers |-> "document"]

Scenes ==
  [part : {"match"}, cast : MatchCasts]
    \union [part : {"account"}, cast : AccountCasts]
    \union [part : {"result"}, cast : ResultCasts]
    \union [part : {"price"}, cast : PriceCasts]
    \union [part : {"jobs"}, cast : JobCasts]
    \union [part : {"urls"}, cast : UrlCasts]
    \union [part : {"chat"}, cast : ChatCasts]
    \union [part : {"grid"}, cast : GridCasts]
    \union [part : {"rating", "friend", "review", "guard", "standing",
                     "invite", "feed"},
            cast : {{}}]

Plays(p) == scene.part = p

-----------------------------------------------------------------------------
\* A module that keeps still starts in one state only.
ServicesInit ==
  /\ scene \in Scenes
  /\ Init /\ AccountInit /\ ResultInit /\ RatingInit /\ FriendInit
  /\ ChatInit /\ ReviewInit /\ PriceInit /\ GridInit
  /\ DeliveriesInit /\ AbuseInit /\ StandingInit /\ UrlInit /\ InviteInit
  /\ FeedInit
  /\ \A p \in Players \ {Organiser, f} : row[p] = "none"
  /\ ~Plays("match") => match = ClosedMatch
  /\ ~Plays("account") => kind = "player"
  /\ ~Plays("jobs") => keyed
  /\ \A d \in Documents : created[d] # 0 => Plays("urls") /\ d \in scene.cast
  /\ ~Plays("feed") => ahead = NepalAhead /\ weekday0 = 0
  /\ ~Plays("price") => rule[BaseRule].amount = CHOOSE n \in Amounts : TRUE

\* Requests are alike, and so are answers, joins and the players from outside:
\* the first to begin is the first.  Of the players who have a place from the
\* start only the friend tries to join through the match service.  While three
\* join, nobody leaves.
MatchScene ==
  /\ Next
  /\ \A c \in Calls \ scene.cast : pc'[c] = pc[c]
  /\ \A r \in Requests \ scene.cast : player'[r] = player[r]
  /\ player'[q2] # Nobody => player'[q1] # Nobody
  /\ player'[q1] # q
  /\ pc'[a2] # "idle" => pc'[a1] # "idle"
  /\ \A p \in {<<j1, j2>>, <<j2, j3>>} :
       p[2] \in scene.cast /\ pc'[p[2]] # "idle" => pc'[p[1]] # "idle"
  /\ player'[j1] # q
  /\ \A j \in Joins : player'[j] # Organiser
  /\ j3 \in scene.cast => \A r \in Seats : row'[r] # "removed"

AccountScene ==
  /\ AccountNext
  /\ \A c \in AccountCalls \ scene.cast : stage'[c] = stage[c]

ResultScene ==
  /\ ResultNext
  /\ \A c \in Records \ scene.cast : recPc'[c] = recPc[c]
  /\ \A r \in MemberRows \ scene.cast : holder'[r] = holder[r]
  /\ \A r \in MemberRows : holder'[r] \in scene.cast \union {NoResult}

\* How a rule changes the price only matters where a price is read.
Fixed(rows) ==
  \A r \in DOMAIN rows : rows[r] = NoRow \/ rows[r].modifier = "fixed"

PriceScene ==
  /\ PriceNext
  /\ scene.cast \intersect Priced = {} => Fixed(rule') /\ Fixed(draft')
  /\ \A c \in RuleCalls \ scene.cast : rulePc'[c] = rulePc[c]
  /\ \A b \in Priced \ scene.cast : chargePc'[b] = chargePc[b]

JobScene ==
  /\ DeliveriesNext
  /\ \A j \in Deliverables \ scene.cast : delivery'[j] = delivery[j]

Connected(old, new) == \A s \in Sockets : old[s] = new[s] \/ new[s] # "closed"

GridScene ==
  /\ GridNext
  /\ \A c \in AllChanges \ scene.cast : changePc'[c] = changePc[c]
  /\ \A v \in AllViewers \ scene.cast : viewPc'[v] = viewPc[v]

\* Messages are alike: they are written in one order.  While pages are read
\* nobody hears the group.
ChatScene ==
  /\ ChatNext
  /\ \A c \in ChatCalls \ scene.cast : chatPc'[c] = chatPc[c]
  /\ \A p \in {<<po1, po2>>, <<po2, po3>>} :
       chatPc'[p[2]] # "idle" => chatPc'[p[1]] # "idle"
  /\ \A c \in Readings \union Receipts : target'[c] \in {NoPerson, pe1}
  /\ po3 \notin scene.cast => clock' = clock
  /\ po3 \in scene.cast =>
       member'[pe3] = "none" /\ room' = {} /\ Connected(socket, socket')

UrlScene ==
  /\ UrlNext
  /\ \A c \in StorageCalls \ scene.cast : urlStep'[c] = urlStep[c]

\* Requests of a client are alike, and the fourth comes in the first window.
GuardScene ==
  /\ AbuseNext
  /\ \A p \in {<<x1, x2>>, <<x2, x3>>, <<x3, x4>>} :
       guardPc'[p[2]] # "idle" => guardPc'[p[1]] # "idle"
  /\ guardPc'[x4] # "idle" => window' = 0

ServicesNext ==
  /\ UNCHANGED scene
  /\ IF Plays("match") THEN TRUE ELSE UNCHANGED vars
  /\ IF Plays("account") THEN TRUE ELSE UNCHANGED accountVars
  /\ IF Plays("result") THEN TRUE ELSE UNCHANGED resultVars
  /\ IF Plays("rating") THEN TRUE ELSE UNCHANGED ratingVars
  /\ IF Plays("friend") THEN TRUE ELSE UNCHANGED friendVars
  /\ IF Plays("chat") THEN TRUE ELSE UNCHANGED chatVars
  /\ IF Plays("review") THEN TRUE ELSE UNCHANGED reviewVars
  /\ IF Plays("price") THEN TRUE ELSE UNCHANGED priceVars
  /\ IF Plays("grid") THEN TRUE ELSE UNCHANGED gridVars
  /\ IF Plays("jobs") THEN TRUE ELSE UNCHANGED deliveryVars
  /\ IF Plays("guard") THEN TRUE ELSE UNCHANGED abuseVars
  /\ IF Plays("standing") THEN TRUE ELSE UNCHANGED standingVars
  /\ IF Plays("urls") THEN TRUE ELSE UNCHANGED urlVars
  /\ IF Plays("invite") THEN TRUE ELSE UNCHANGED inviteVars
  /\ IF Plays("feed") THEN TRUE ELSE UNCHANGED feedVars
  /\ \/ Plays("match") /\ MatchScene
     \/ Plays("account") /\ AccountScene
     \/ Plays("result") /\ ResultScene
     \/ Plays("rating") /\ RatingNext
     \/ Plays("friend") /\ FriendNext
     \/ Plays("chat") /\ ChatScene
     \/ Plays("review") /\ ReviewNext
     \/ Plays("price") /\ PriceScene
     \/ Plays("grid") /\ GridScene
     \/ Plays("jobs") /\ JobScene
     \/ Plays("guard") /\ GuardScene
     \/ Plays("standing") /\ StandingNext
     \/ Plays("urls") /\ UrlScene
     \/ Plays("invite") /\ InviteNext
     \/ Plays("feed") /\ FeedNext

ServicesSpec ==
  /\ ServicesInit
  /\ [][ServicesNext]_<<scene, vars, accountVars, resultVars, ratingVars,
                        friendVars, chatVars, reviewVars, priceVars,
                        gridVars, deliveryVars, abuseVars, standingVars,
                        urlVars, inviteVars, feedVars>>
=============================================================================
