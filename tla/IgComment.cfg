SPECIFICATION Spec
CONSTANTS
  Workers = {w1}
  a1 = a1
  comment = comment
  dm = dm
  story = story
  cAuto = cAuto
  nAuto = nAuto
  rAuto = rAuto
  dAuto = dAuto
  sAuto = sAuto
  tAuto = tAuto
  uAuto = uAuto
  Messages = {comment}
  Accounts = {a1}
  Automations = {cAuto}
  MaxJobs = 3
  MaxSends = 2
  MaxStalledCount = 1
  None = None
  Intents = {"buy"}
  Message <- MCMessage
  Config <- MCConfig
  Hits <- MCHits
  Env = {"crash", "throw", "reject", "timeout", "server", "gates", "status", "delete", "disconnect"}
INVARIANTS NothingIsForgotten DeliveriesAddUp
CHECK_DEADLOCK FALSE
