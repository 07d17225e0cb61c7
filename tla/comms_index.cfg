SPECIFICATION Spec
CONSTANTS
  Tenants = {"T1", "T2"}
  Areas = {"X", "Y"}
  Agents = {}
  Blobs = {"B1"}
  NoAgent = "-"
  NoBlob = "-"
  Beating = {}
  Owner = "-"
  LeaseTTL = 1
  RetainN = 1
  RetainAge = 1
  PresenceStale = 0
  Posts <- NotePosts
  MaxClock = 3
  MaxJournal = 4
  MaxCalls = 0
INVARIANTS TypeOK  LiveTaskHasState
PROPERTIES PostSparesOthers RestartKeepsLive
