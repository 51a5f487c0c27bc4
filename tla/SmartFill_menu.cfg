SPECIFICATION Spec
CONSTANTS
  None = None
  Absent = Absent
  Unreadable = Unreadable
  Torn = Torn
  Nodes = {n1}
  BumpsRevision = FALSE
  Inputs = {i1}
  Models = {m1}
PROPERTIES
  PollKeepsUp
