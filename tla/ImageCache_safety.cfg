SPECIFICATION Spec
CONSTANTS
  Writers = {w1}
  Readers = {r1, r2}
  NBlocks = 3
  MaxWrites = 3
  MaxCrashes = 1
INVARIANTS
  PublishedWhole
  ReadOkIsWhole
PROPERTIES
  TrueMeansPublished
  OldGoesForWhole
