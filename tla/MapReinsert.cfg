SPECIFICATION Spec
CONSTANTS
  Workloads <- Reinsertion
  ForcedVersions = {}
  U64 = 6
  Keys = {k1, k2}
  Contents = {c1, c2}
  Users = {alice, bob}
  PermissionSets <- MCSets
  MaxRequests = 3
  MaxLives = 2
  alice = alice
  bob = bob
  k1 = k1
  k2 = k2
  c1 = c1
  c2 = c2
CHECK_DEADLOCK FALSE
PROPERTIES InsertContinuesVersions
