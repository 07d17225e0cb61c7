SPECIFICATION FairSpec
CONSTANTS
  Tenants = {"T1"}
  Areas = {"X"}
  Agents = {"a", "root"}
  Blobs = {}
  NoAgent = "-"
  NoBlob = "-"
  Beating = {"a"}
  Owner = "root"
  LeaseTTL = 1
  RetainN = 0
  RetainAge = 0
  PresenceStale = 1
  Posts <- TaskPosts
  MaxClock = 3
  MaxJournal = 2
  MaxCalls = 1

PROPERTIES FreshPresenceSurvives HungTaskMoves
