SPECIFICATION Spec
CONSTANTS
  Callers = {n1, n2}
  Prompts = {a}
  Seeds = {0}
  Paths = {m1}
  Loras = {}
  MaxEdits = 0
  BumpsRevision = TRUE
  Steps = 1
  NoPaths = NoPaths
  NoCaller = NoCaller
  Random = Random
  NoLora = NoLora
  None = None
  Absent = Absent
  Unreadable = Unreadable
  Torn = Torn
INVARIANT ContextAlive
