SPECIFICATION Spec
CONSTANTS
  Replicas = {1, 2, 3}
  Writers = {1, 2}
  Kind = "Public"
  Entries = {e1}
  Keys = {alice, bob}
  PubMaps <- MCOnePubMap
  PrivMaps = {}
  Positions = {1, 2, 3}
  MaxOps = 3
  Deletes = FALSE
  Anyone = Anyone
  e1 = e1
  e2 = e2
  alice = alice
  bob = bob
CHECK_DEADLOCK FALSE
INVARIANTS TypeOK UniqueIds OwnWritesAreApplied StateIsAppliedOps Convergence RecordedIndicesResolve
PROPERTIES ImplementsLog
