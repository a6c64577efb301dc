SPECIFICATION PagesSpec
CONSTANTS
  keyA = keyA
  keyB = keyB
  gpt5 = gpt5
  gpt4 = gpt4
  embedding = embedding
  none = none
  medium = medium
  ApiKey = {keyA, keyB}
  Revocable = {keyA}
  Offered <- TwoAccounts
  ModelsByRank <- TwoModels
  Efforts <- ReasoningEfforts
  Effort = {none, medium}
  DefaultModel = gpt5
  DefaultEffort = medium
  MediumEffort = medium
  SettingsPage = {p1}
  OtherTab = {t1}
  Nothing = Nothing
  MaxAttempts = 2
  MaxCredentials = 2
  MaxFaults = 1
  Run = {1}
  Stream = {s1}
  Limit = 1
  PageSize = 2
  Lifetime = 1
  Lease = 2
  MaxLog = 7
  MaxDeaths = 0
  MaxLoads = 2
  MaxOvertakes = 0
  MaxErrors = 1
  MaxReloads = 1
  None = None
INVARIANTS
  PreferenceFits
  InvalidForCause
  SelectionOffered
  SettledPageIsTrue
PROPERTIES
  EventsOnceInOrder
CHECK_DEADLOCK FALSE
