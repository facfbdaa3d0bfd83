SPECIFICATION FairSpec
CONSTANTS
  Workers = {w1}
  a1 = a1
  comment = comment
  dm = dm
  story = story
  cAuto = cAuto
  nAuto = nAuto
  rAuto = rAuto
  dAuto = dAuto
  sAuto = sAuto
  tAuto = tAuto
  uAuto = uAuto
  Messages = {story}
  Accounts = {a1}
  Automations = {sAuto}
  MaxJobs = 2
  MaxSends = 1
  MaxStalledCount = 1
  None = None
  Intents = {"buy"}
  Message <- MCMessage
  Config <- MCConfig
  Hits <- MCHits
  Env = {"gates", "server"}
PROPERTIES RetryableErrorsAreRetried
CHECK_DEADLOCK FALSE
