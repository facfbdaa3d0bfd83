SPECIFICATION Spec
CONSTANTS
  Workers = {w1}
  shop = shop
  phone = phone
  hello = hello
  stop = stop
  photo = photo
  receipt = receipt
  approved = approved
  tAuto = tAuto
  uAuto = uAuto
  fAuto = fAuto
  aAuto = aAuto
  template = template
  Messages = {hello, stop}
  Accounts = {shop}
  Phones = {phone}
  Templates = {template}
  Approved = {}
  Automations = {fAuto, aAuto}
  MaxJobs = 3
  MaxSends = 1
  MaxStalledCount = 1
  None = None
  Cap = 1
  Setups <- ClaimSetups
  Message <- MCMessage
  Config <- MCConfig
  Hits <- MCHits
  Env = {}
INVARIANTS AiRepliesGoToSendWhatsapp
CHECK_DEADLOCK FALSE
