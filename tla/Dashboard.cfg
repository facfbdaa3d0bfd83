\* The budget for model calls, the sliding window, the paged lists, the tags of a
\* lead, the form and the rows of automations, the modal that tries one out,
\* and the numbers and templates of WhatsApp.
SPECIFICATION MCSpec
CONSTANTS
  \* the budget
  Calls = {c1, c2}
  Cap = 202
  Usages <- MCUsages
  MaxMonth = 1
  MaxBegun = 3
  NoRow = NoRow
  \* the sliding window
  Callers = {c1, c2}
  RateCap = 1
  Window = 2
  MaxTime = 4
  \* the paged lists
  MaxRows = 4
  PageSize = 2
  MaxChanges = 3
  \* the tags
  Editors = {e1, e2}
  Words = {"a", "b"}
  LongWords = {"b"}
  MaxTags = 2
  ApiLists <- MCApiLists
  MaxEdits = 2
  \* the form
  IgIds = {"ig1", "ig2"}
  WaIds = {"wa1", "wa2"}
  Posts = {"p1", "p2"}
  PostOwner <- MCPostOwner
  TplOwner <- MCTplOwner
  MaxLoads = 2
  MaxMade = 2
  FormScenarios <- MCFormScenarios
  NoAccount = NoAccount
  NoTpl = NoTpl
  NoLoad = NoLoad
  \* the rows
  AutoIds = {1, 2}
  Channels <- MCChannels
  Clients = {c1, c2}
  MaxVersion = 2
  NoAuto = NoAuto
  \* the modal
  MaxFires = 2
  \* numbers and templates of WhatsApp
  Owners = {"o1", "o2"}
  Phones = {"n1"}
  Names = {"m1"}
  Pages = {"p1", "p2"}
  Slots = {c1, c2}
  SetupScenarios <- MCSetupScenarios
  MaxSent = 3
  NoOwner = NoOwner
  NoPage = NoPage
  NoSetupRow = NoSetupRow
INVARIANTS DashboardTypeOK CardIsTrue OvershootIsBounded WindowHolds MissedOnlyIfMoved EditsAreTrue ChoicesBelong OneSubmitOneAutomation RowsBelongTogether ResultIsOfThisOpening SubmissionsAreTrue
PROPERTIES NumberKeepsItsWorkspace
CHECK_DEADLOCK FALSE
