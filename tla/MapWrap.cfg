SPECIFICATION Spec
CONSTANTS
  Workloads <- OwnerChangesOnly
  ForcedVersions = {1, 2, 3}
  U64 = 4
  Keys = {k1, k2}
  Contents = {c1, c2}
  Users = {alice, bob}
  PermissionSets <- MCSets
  MaxRequests = 3
  MaxLives = 2
  alice = alice
  bob = bob
  k1 = k1
  k2 = k2
  c1 = c1
  c2 = c2
CHECK_DEADLOCK FALSE
PROPERTIES ShellChangesIncreaseVersion
