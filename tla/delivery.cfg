SPECIFICATION FairSpec
CONSTANTS
  t1 = t1
  me = me
  home = home
  other = other
  Tenants = {t1}
  Labels = {me}
  Areas = {home, other}
  NoLabel = NoLabel
  Clients = {c1}
  Filter <- MCFilter
  Posts <- MCPosts
  Agent = me
  AgentTenant = t1
  AgentArea = home
  MaxPosts = 2
  MaxFaults = 1
  MaxSessions = 2
  MaxSaveFailures = 1
INVARIANTS NothingMissed 
PROPERTIES WokenOnce ReadInTheEnd 
