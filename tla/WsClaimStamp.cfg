SPECIFICATION WsSpec
CONSTANTS
  Users = {u1, u2}
  Tenants = {t1, t2}
  IgUsers = {g1}
  Requests = {r1, r2}
  MaxClock = 2
  NoTenant = NoTenant
  WsScenarios <- MCScenarios
PROPERTIES OriginalRequestStays
CHECK_DEADLOCK FALSE
