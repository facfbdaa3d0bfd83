SPECIFICATION WsSpec
CONSTANTS
  Users = {u1, u2}
  Tenants = {t1, t2}
  IgUsers = {g1}
  Requests = {r1, r2}
  MaxClock = 2
  NoTenant = NoTenant
  WsScenarios <- MCScenarios
INVARIANTS WsTypeOK OneWorkspaceEach DeletionNotPostponed DeletionCutsAccounts DeletedIsInvisible
PROPERTIES PagesSettle
CHECK_DEADLOCK FALSE
