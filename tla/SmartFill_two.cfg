SYMMETRY NodeSymmetry
SPECIFICATION Spec
CONSTANTS
  None = None
  Absent = Absent
  Unreadable = Unreadable
  Torn = Torn
  Nodes = {n1, n2}
  Inputs = {i1}
  Models = {m1}
  BumpsRevision = TRUE
INVARIANTS
  ServesOwnInput
