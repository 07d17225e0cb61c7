SPECIFICATION Spec
CONSTANTS
  Tenants = {"T1"}
  Areas = {"X"}
  Agents = {"a", "root"}
  Blobs = {}
  NoAgent = "-"
  NoBlob = "-"
  Beating = {}
  Owner = "root"
  LeaseTTL = 1
  RetainN = 0
  RetainAge = 0
  PresenceStale = 0
  Posts <- TaskPosts
  MaxClock = 3
  MaxJournal = 3
  MaxCalls = 1
INVARIANTS  TerminalIsForever
PROPERTIES LeaseHonoured ImplementsTaskLease
