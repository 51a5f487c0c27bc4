SPECIFICATION SessionSpec
CONSTANTS
  Callers = {c1, c2}
  Paths = {p1, p2}
  Steps = 2
  NoPaths = NoPaths
  NoCaller = NoCaller
INVARIANTS
  ImageOfOwnPaths
  NoForeignCancel
  CancelSeenHonoured
  ContextAlive
