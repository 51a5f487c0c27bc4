SPECIFICATION Spec
CONSTANTS
  MaxRuns = 3
  MaxProgress = 2
INVARIANTS
  TypeOK
  IdleIsQuiescent
  OneThread
  NoUseAfterFree
  ErrorPublished
  NoStaleCancel
  CancelHonoured
PROPERTIES
  CallsReturn
  ImplementsJob
