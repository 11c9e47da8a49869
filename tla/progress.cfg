\* Scenes of images, of processes, of a court's locks, and of a match.
CONSTANTS
  Covers = {co1, co2}
  Galleries = {ga1, ga2}
  Avatars = {av1, av2}
  Documents = {do1}
  Webps = {ga2}
  Confirms = {cf1, cf2}
  Polls = {po1}
  Readers = {rd1}
  Deletions = {de1}
  Attempts = 2
  Nothing = Nothing
  MediaCasts = {{co1, co2, cf1, cf2}, {av1, av2, cf1, cf2},
                {ga1, ga2, cf1, cf2}, {ga1, cf1, cf2, "worker"},
                {ga1, cf1, rd1, de1, "worker"}, {ga1, cf1, po1, "worker"},
                {do1, cf1, po1, de1}, {co1, cf1, de1},
                {ga2, cf1, de1, "worker"}}
  Environments <- SomeKeys
  Programs = {"player", "playerWorker", "owner", "ownerWorker", "admin",
              "adminWorker", "chat"}
  Jobs = {jb1}
  ServerOf <- PlayerServes
  MaxRetries = 1
  MaxOutages = 2
  MaxSignals = 1
  NoProgram = NoProgram
  LifeCasts = {{"player", "playerWorker"}, {"owner"}, {"ownerWorker"},
               {"admin"}, {"adminWorker"}, {"chat"}}
  Holds = {h1, h2}
  Offlines = {}
  Blocks = {}
  StartTimes <- GridStarts
  Layouts <- GridLayouts
  DayLength = 10
  Free = Free
  Players = {o, f, p}
  Organiser = o
  SlotJoins = {s1}
  Additions = {d1}
  Nobody = Nobody
SPECIFICATION ProgressSpec
INVARIANTS  LinksAgreeUnlessRaced
PROPERTIES UploadsSettle CachesCatchUp LockIsReleased CallsEnd
  JobsRunUnlessGivenUp
CHECK_DEADLOCK FALSE
