SPECIFICATION Spec
CONSTANTS
  None = None
  Managed = {"arin_net", "arin_org", "arin_rpki_bundle", "arin_roa", "arin_aspa",
             "arin_report_request", "arin_ticket_status"}
  n1 = n1
  n2 = n2
  o1 = o1
  o2 = o2
  o3 = o3
  l1 = l1
  l2 = l2
  c1 = c1
  p1 = p1
  p2 = p2
  Handles = {g1, g2}
  Foreign = foreign
  Names = {n1, n2}
  ROAHandles = {h1, h2, h3}
  Contents = {o1, o2, o3}
  KeyOf <- KeyOfContents
  Labels = {l1, l2}
  Customers = {c1}
  ProviderSets = {p1, p2}
  Configs <- ThreeConfigs
  Authorizations = {o1, o2}
  AuthorizationKey <- OneKey
  Customer = c1
  Reports = {associations, reassignment}
  Types = {associations, reassignment}
  Type <- TypeOfReport
  Numbers = {h1, h2, h3}
  Clients = {n1, n2}
  Registrants = {own, foreign}
  OwnOrg = own
  Texts = {x, y}
  LinkROAs = {x, y}
  RouteTexts = {empty, other}
  Default = empty
  Elements = {x, y}
  Values = {empty, x, y}
  EmptyValue = empty
  MaxSubmits = 3
  MaxTransactions = 2
  MaxTickets = 2
  MaxPuts = 2
  MaxEdits = 1
  MaxCrashes = 1
  MaxWrites = 4
  MaxMutations = 2
  MaxRequests = 3
SYMMETRY Symmetry
CONSTRAINT HostedBound
CHECK_DEADLOCK FALSE
INVARIANTS TypeOK SubmittedOnce NothingForgotten
PROPERTIES TakesOnlyItsOwn
