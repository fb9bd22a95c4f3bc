SPECIFICATION Spec
CONSTANTS
  h1 = h1
  h2 = h2
  o1 = o1
  l1 = l1
  l2 = l2
  c1 = c1
  p1 = p1
  Handles = {h1, h2}
  Objects = {o1}
  Key <- OneKey
  Customers = {c1}
  ProviderSets = {p1}
  Labels = {l1, l2}
  Configs <- MovedConfigs
  None = None
  MaxSubmits = 2
  MaxEdits = 0
  MaxCrashes = 0
CHECK_DEADLOCK FALSE
INVARIANT BlocksReplay
