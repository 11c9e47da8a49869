\* One mail, of any of the three APIs.
CONSTANTS
  Notices = {}
  OwnerNotices = {}
  Texts = {}
  Mails = {ml1}
  Audits = {}
  Incidents = {}
  JobTries = 3
  MaxStalls = 1
  NoWorker = NoWorker
SPECIFICATION DeliveriesSpec
INVARIANT VerdictsAreMailed
CHECK_DEADLOCK FALSE
