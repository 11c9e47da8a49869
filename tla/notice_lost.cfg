\* One notice to a player, and one to an owner.
CONSTANTS
  Notices = {no1}
  OwnerNotices = {on1}
  Texts = {tx1}
  Mails = {}
  Audits = {}
  Incidents = {}
  JobTries = 3
  MaxStalls = 1
  NoWorker = NoWorker
SPECIFICATION DeliveriesSpec
INVARIANT DoneIsInInbox
CHECK_DEADLOCK FALSE
