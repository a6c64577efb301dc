SPECIFICATION Spec
CONSTANTS
  None = None
  v1 = v1
  v2 = v2
  net = net
  usd = usd
  sales = sales
  other = other
  free = free
  Version = {v1, v2}
  Columns <- TwoVersions
  Revenue = {net, usd, sales}
  Concept = {other}
  Words = {free}
  LabelWithin <- UsdContainsNet
  Question <- Prompts
  PlanDraft <- Plans
  OptionDraft <- OptionLists
  MaxPrompts = 1
  MaxOptions = 3
  MaxSteps = 20
  MaxRepairs = 1
  MaxToolCalls = 5
  ProfiledColumn <- Profiles
  PlanAggregation = {"count", "sum", "minimum", "null_count", "value"}
  MaxWidth = 4
  MaxPlanWidth = 2
INVARIANTS
  SelectedColumnBound
CHECK_DEADLOCK FALSE
