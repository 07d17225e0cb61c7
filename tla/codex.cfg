SPECIFICATION MCSpec
CONSTANTS
  r1 = r1
  r2 = r2
  r3 = r3
  Requests = {r1, r2, r3}
  Asks <- MCAsks
  MaxProcs = 2
  MaxLogins = 2
  Invocations = {1, 2}
  MaxOutput = 1
  EventCap = 1
  Clients = {c1, c2}
  TenantIds = {1, 2}
  Monitored = TRUE
INVARIANTS PendingIsOpen OneProcess  TextOnly 
CHECK_DEADLOCK FALSE
