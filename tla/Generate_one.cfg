SPECIFICATION FirstSpec
CONSTANTS
  Callers = {n1}
  Prompts = {a}
  Seeds = {0, 1}
  Paths = {m1, m2}
  Loras = {l1}
  MaxEdits = 1
  BumpsRevision = FALSE
  Steps = 1
  NoPaths = NoPaths
  NoCaller = NoCaller
  Random = Random
  NoLora = NoLora
  None = None
  Absent = Absent
  Unreadable = Unreadable
  Torn = Torn
INVARIANTS
  PixelsOfLoadedKey
  FilesOfOwnModel
PROPERTIES
  WorkersKeepPhases
  PollKeepsUp
  HandlersReturn
