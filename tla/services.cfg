SPECIFICATION MCSpec
CONSTANTS
  ta = ta
  tb = tb
  tc = tc
  MemTenants = {1, 2}
  Texts = {ta, tb, tc}
  Dist <- MCDist
  Tau = 1
  Gap = 2
  RawTags <- MCRawTags
  Canon <- MCCanon
  Dims = {3}
  Ks = {2}
  MaxRecords = 3
  MaxStarts = 2
  MaxRefused = 1
  Users = {"u", "v"}
  RedirectURI <- MCRedirect
  ExtraHosts = {"grok.com"}
  Requests = {1, 2}
  Secrets = {"s1", "s2"}
  Registries <- MCRegistries
  DefaultTenant = 1
  CodeTTL = 0
  AccessTTL = 1
  RefreshTTL = 2
  MaxTime = 1
  MaxCodes = 2
  MaxBoots = 2
  AccTenants = {1, 2}
  Paths = {"A", "B"}
  Tools <- MCTools
  FileOf <- MCFileOf
  NoFile = "none"
  MaxLog = 4
  MaxServers = 2
  MaxRefusals = 1
  Items = {0, 1, 2}
  Capacity = 2
  MaxStream = 6
  Hashes = {1, 2, 3, 5}
  Point <- MCPoint
  Subspaces = 2
  Quantizers <- MCQuantizers
  Queries <- MCQueries
  Wanted = {1, 2, 4}
  MaxBatch = 2
  K = 2
  MaxLines = 4
  MaxFaults = 1
INVARIANTS TruthKept RecallIsNearest RedeemedAsAgreed SpeaksFor IdsKeepTheirPath ReportsHold IndexSound ReflectSpaced
CHECK_DEADLOCK FALSE
