SPECIFICATION Spec
CONSTANTS
  Replicas = {1, 2}
  Writers = {1, 2}
  Kind = "Public"
  Entries = {}
  Keys = {alice, bob}
  PubMaps <- MCPubMaps
  PrivMaps = {}
  Positions = {1, 2, 3}
  MaxOps = 3
  Deletes = FALSE
  Anyone = Anyone
  e1 = e1
  e2 = e2
  alice = alice
  bob = bob
CHECK_DEADLOCK FALSE
INVARIANTS AccessIsDecidedByNewestWrites
PROPERTIES StaleOpsNeverChangeAccess
