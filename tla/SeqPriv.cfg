SPECIFICATION FairSpec
CONSTANTS
  Replicas = {1, 2, 3}
  Writers = {1, 2}
  Kind = "Private"
  Entries = {}
  Keys = {alice, bob}
  PubMaps = {}
  PrivMaps <- MCPrivMaps
  Positions = {1, 2}
  MaxOps = 3
  Deletes = FALSE
  Anyone = Anyone
  e1 = e1
  e2 = e2
  alice = alice
  bob = bob
CHECK_DEADLOCK FALSE
INVARIANTS AccessIsDecidedByNewestWrites
PROPERTIES EventuallyEqual StaleOpsNeverChangeAccess
