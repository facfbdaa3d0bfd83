SPECIFICATION Spec
CONSTANTS
  Workers = {w1}
  shop = shop
  phone = phone
  hello = hello
  stop = stop
  photo = photo
  receipt = receipt
  approved = approved
  tAuto = tAuto
  uAuto = uAuto
  fAuto = fAuto
  aAuto = aAuto
  template = template
  Messages = {hello, photo, receipt, stop}
  Accounts = {shop}
  Phones = {phone}
  Templates = {template}
  Approved = {template}
  Automations = {tAuto, fAuto, aAuto}
  MaxJobs = 5
  MaxSends = 2
  MaxStalledCount = 1
  None = None
  Cap = 1
  Setups <- FaultSetups
  Message <- MCMessage
  Config <- MCConfig
  Hits <- MCHits
  Env = {"crash", "throw", "swallowed", "addFails", "timeout", "reject", "server", "gates", "time", "billing"}
INVARIANTS  TypeOK AnsweredOnce CostsAreBacked QueuedSendAccountedFor DuplicatesNeedCrashes
PROPERTIES SendsFollowLifecycle
CHECK_DEADLOCK FALSE
