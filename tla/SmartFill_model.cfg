SPECIFICATION Spec
CONSTANTS
  None = None
  Absent = Absent
  Unreadable = Unreadable
  Torn = Torn
  Nodes = {n1}
  Inputs = {i1}
  Models = {m1, m2}
  BumpsRevision = TRUE
INVARIANT ServesOwnModel
