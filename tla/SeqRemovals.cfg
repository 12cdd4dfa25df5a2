SPECIFICATION Spec
CONSTANTS
  Replicas = {1, 2}
  Writers = {1, 2}
  Kind = "Public"
  Entries = {e1}
  Keys = {}
  PubMaps <- MCOnePubMap
  PrivMaps = {}
  Positions = {1, 2, 3}
  MaxOps = 4
  Deletes = TRUE
  Anyone = Anyone
  e1 = e1
  e2 = e2
  alice = alice
  bob = bob
CHECK_DEADLOCK FALSE
INVARIANTS ReadsFollowTheOrder EntriesOnlyLeaveByDelete
PROPERTIES PublicPermissionsOnlyGrow
