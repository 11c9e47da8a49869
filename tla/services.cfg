\* Scenes of the services around the calendar and the money.
CONSTANTS
  Players = {o, f, p, q}
  Organiser = o
  MaxPlayers = 3
  Joins = {j1, j2, j3}
  SlotJoins = {s1}
  Requests = {q1, q2}
  Answers = {a1, a2}
  Additions = {d1}
  Nobody = Nobody
  MatchCasts = {{q1, q2, a1, a2}, {s1, d1}, {j1, j2, j3}, {j1, j2},
                {j1, d1}}
  f = f
  q = q
  q1 = q1
  q2 = q2
  a1 = a1
  a2 = a2
  j1 = j1
  j2 = j2
  j3 = j3
  Register = reg
  Resends = {re1, re2}
  Verifies = {ve1, ve2, ve3}
  Logins = {lo1}
  Refreshes = {rf1, rf2}
  Forgots = {fg1}
  Resets = {rt1, rt2}
  MaxGuesses = 1
  Absent = Absent
  AccountCasts = {{reg, re1, re2, ve1}, {reg, re1, ve1, ve2, ve3},
                  {reg, ve1, lo1, rf1, rf2, fg1, rt1},
                  {reg, ve1, lo1, rf1, fg1, rt1, rt2}}
  Members = {mb1, mb2}
  MemberRows = {mr1, mr2}
  Records = {rr1, rr2}
  JobAttempts = 2
  NoResult = NoResult
  ResultCasts = {{mb1, mr1, rr1, rr2}, {mb1, mb2, mr1, mr2, rr1}}
  Played = {pb1, pb2}
  Writers = {wr1, wr2}
  Approvals = {ap1, ap2}
  Deletions = {dl1, dl2}
  Stars = {3, 5}
  Asks = {as1, as2}
  Accepts = {ac1, ac2}
  Removals = {rm1, rm2}
  BlockCalls = {bl1, bl2}
  NoFriend = NoFriend
  People = {fo, pe1, pe2, pe3}
  Founder = fo
  Directs = {di1, di2}
  Entries = {en1}
  Exits = {ex1, ex2}
  Posts = {po1, po2, po3}
  po1 = po1
  po2 = po2
  po3 = po3
  Readings = {rd1}
  Receipts = {rp1}
  PageLimit = 2
  LastStamp = 3
  NoPost = NoPost
  ChatCasts = {{di1, di2}, {en1, ex1, ex2, po1}, {po1, po2, po3, rd1},
               {po1, rd1, rp1, ex1}}
  Sockets = {so1}
  OwnerOf <- SocketOwner
  NoPerson = NoPerson
  pe1 = pe1
  pe3 = pe3
  Venues = {vn1, vn2}
  VenueCalls = {vc1, vc2}
  KycCalls = {kc1}
  BaseRule = ru0
  RuleCalls = {ru1, ru2}
  PricedHolds = {ph1}
  PricedWalkIns = {pw1}
  Amounts = {150}
  NoRule = NoRule
  PriceCasts = {{ru1, ru2}, {ru1, ph1}, {ru1, pw1}}
  Changes = {gb1, gb2}
  OwnerChanges = {gw1}
  Viewers = {vw1}
  OwnerViewers = {vw2}
  GridCasts = {{gb1, gb2, gw1, vw1}, {gb1, gw1, vw2}}
  Threshold = 2
  Hours <- DayHours
  DayLength = 10
  Notices = {no1}
  OwnerNotices = {on1}
  Texts = {tx1}
  Mails = {ml1}
  Audits = {au1}
  Incidents = {in1}
  JobTries = 3
  MaxStalls = 1
  NoWorker = NoWorker
  JobCasts = {{no1, tx1}, {on1, tx1}, {ml1}, {au1, in1}}
  Arrivals = {x1, x2, x3, x4}
  x1 = x1
  x2 = x2
  x3 = x3
  x4 = x4
  MaxRequests = 1
  MaxWindows = 1
  Suspensions = {su1, su2, su3}
  Overrides = {ov1, ov2}
  NoPenalty = NoPenalty
  api = api
  console = console
  admin = admin
  sv1 = sv1
  Procs = {api, console, admin}
  Papers = {pp1}
  TypeOf <- OneType
  Sheets = {sh1}
  Pictures = {cv1}
  PaperLists = {li1, li2}
  PaperViews = {pv1}
  SheetViews = {sv1, sv2}
  PictureViews = {iv1, iv2}
  Erasures = {er1}
  HostOf <- SigningHost
  CacheTtl = 3
  DocumentLife = 2
  PictureLife = 1
  LastTick = 3
  UrlCasts = {{pp1, li1, li2, er1}, {pp1, pv1, er1}, {iv1, iv2, er1},
              {sh1, sv1, sv2, er1}}
  Generations = {ge1, ge2}
  Followers = {fl1}
  LinkLife = 2
  LastHour = 4
  NoLink = NoLink
  m1 = m1
  m2 = m2
  me = me
  mate = mate
  OpenMatches = {m1, m2}
  MatchDay <- FeedDays
  StartTick <- FeedStarts
  Appeal <- FeedAppeal
  Guests = {me, mate}
  Me = me
  Mates = {mate}
  Spots <- FeedSpots
  PageSize = 1
  DayTicks = 4
  NepalAhead = 1
  Cutoff = 2
  Lead = 1
  MaxSittings <- FeedSittings
  LastFeedTick = 7
SPECIFICATION ServicesSpec
INVARIANTS
  FitsUnlessRaced OneSeatUnlessRaced JoinsFit JoinsSeatOnce AcceptedGotSeat
  CodesHoldUnlessRaced TokenUsedOnceUnlessRaced
  ResetEndsSessionsUnlessRaced CountedOnceUnlessRetried
  RatingIsCurrentUnlessRaced BlockHoldsUnlessRaced
  ChatsHoldUnlessRaced ListedOwnerApprovedUnlessRaced PriceIsDetermined
  GridIsFreshUnlessRaced DoneHadEffect BurstsAreHeld HistoryAgrees
  HandedUrlsFitUnlessRaced LinksWorkUnlessRaced
  FeedsHoldUnlessSkewed
CHECK_DEADLOCK FALSE
