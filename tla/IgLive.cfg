SPECIFICATION FairSpec
CONSTANTS
  Workers = {w1, w2}
  a1 = a1
  comment = comment
  dm = dm
  story = story
  cAuto = cAuto
  nAuto = nAuto
  rAuto = rAuto
  dAuto = dAuto
  sAuto = sAuto
  tAuto = tAuto
  uAuto = uAuto
  Messages = {dm}
  Accounts = {a1}
  Automations = {tAuto}
  MaxJobs = 3
  MaxSends = 2
  MaxStalledCount = 1
  None = None
  Intents = {"buy"}
  Message <- MCMessage
  Config <- MCConfig
  Hits <- MCHits
  Env = {"crash", "throw", "server", "disconnect"}
INVARIANTS DmEventAnsweredOnce
PROPERTIES JobsSettle EventsGetProcessed SendsGetResolved
CHECK_DEADLOCK FALSE
