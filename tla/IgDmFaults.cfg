SPECIFICATION Spec
CONSTANTS
  Workers = {w1}
  a1 = a1
  comment = comment
  dm = dm
  story = story
  cAuto = cAuto
  nAuto = nAuto
  rAuto = rAuto
  dAuto = dAuto
  sAuto = sAuto
  tAuto = tAuto
  uAuto = uAuto
  Messages = {dm}
  Accounts = {a1}
  Automations = {dAuto}
  MaxJobs = 4
  MaxSends = 1
  MaxStalledCount = 1
  None = None
  Intents = {"buy", "other"}
  Message <- MCMessage
  Config <- MCConfig
  Hits <- MCHits
  Env = {"crash", "throw", "timeout", "server", "flagged", "addFails", "blank"}
INVARIANTS TypeOK ProcessedIsCaptured NothingIsForgotten NeverEchoesInbound
PROPERTIES IntentIsStable DmsFollowLifecycle
CHECK_DEADLOCK FALSE
