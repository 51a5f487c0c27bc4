SPECIFICATION Spec
CONSTANTS
  Keys = {k1, k2, k3}
  Foreign = {other}
  Callers = {c1, c2}
  AgeLimits = {0, 1}
  EntryLimits = {0, 1}
  MaxTime = 2
  MaxWrites = 1
  MaxFaults = 1
INVARIANT TypeOK
PROPERTIES PruneLeavesNewest ClearLeavesForeignOnly
SYMMETRY Symmetry
