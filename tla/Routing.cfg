SPECIFICATION FairSpec
CONSTANTS
  g = g
  p1 = p1
  p2 = p2
  p3 = p3
  d = d
  q = q
  a1 = a1
  a2 = a2
  s1 = s1
  s2 = s2
  sG = sG
  sD = sD
  sQ = sQ
  None = None
  Nodes <- MCNodes
  KeySets = {s1, s2, sG, sD, sQ}
  Indices = {0, 1, 2}
  Members <- MCMembers
  Holder = "NodeKeypairs"
  Threshold = 1
  Clients = {"owner", "app", "stranger"}
  ClientKey <- MCClientKey
  Owners = {"owner"}
  AppPermissions <- MCAppPermissions
  Elders <- MCElders
  SectionOf <- MCSectionOf
  FirstKeys = {s1, sG, sD, sQ}
  Changing = {p1, p2, p3}
  Scenarios <- MCScenarios
INVARIANTS
  RoutingTypeOK
  SignMatchesPublicKey
  IndexLocatesShare
  VerifiedChains
  HandledAtHome
  
  AnswersConvert
  CreditNeedsDebit
PROPERTIES
  NoUnauthorisedEffect
  ImplementsCommandPath
  RequestsComplete
CHECK_DEADLOCK FALSE
