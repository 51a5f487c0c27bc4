SPECIFICATION Spec
CONSTANTS
  None = None
  Absent = Absent
  Unreadable = Unreadable
  Torn = Torn
  Nodes = {n1}
  BumpsRevision = TRUE
  Inputs = {i1, i2}
  Models = {m1}
INVARIANTS
  ServesOwnInput
  SessionOutlivesJob
PROPERTIES
  ConsumedIsServed
  WorkersKeepPhases
  PollKeepsUp
