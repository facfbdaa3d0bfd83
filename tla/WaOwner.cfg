SPECIFICATION Spec
CONSTANTS
  Workers = {w1}
  shop = shop
  phone = phone
  hello = hello
  stop = stop
  photo = photo
  receipt = receipt
  approved = approved
  tAuto = tAuto
  uAuto = uAuto
  fAuto = fAuto
  aAuto = aAuto
  template = template
  Messages = {hello, stop, approved}
  Accounts = {shop}
  Phones = {phone}
  Templates = {template}
  Approved = {}
  Automations = {tAuto, uAuto}
  MaxJobs = 5
  MaxSends = 2
  MaxStalledCount = 1
  None = None
  Cap = 1
  Setups <- OwnerSetups
  Message <- MCMessage
  Config <- MCConfig
  Hits <- MCHits
  Env = {"owner", "templates", "billing"}
INVARIANTS CapHolds TemplateWasApproved
PROPERTIES NoPostAfterOptOut
CHECK_DEADLOCK FALSE
