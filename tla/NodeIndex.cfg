SPECIFICATION KeysSpec
CONSTANTS
  Nodes = {n1, n2, n3}
  KeySets = {s1, s2}
  Indices = {0, 1, 2}
  Threshold = 1
  Members <- MCMembers
  Holder = "FullId"
  None = None
  n1 = n1
  n2 = n2
  n3 = n3
  s1 = s1
  s2 = s2
INVARIANTS IndexLocatesShare
