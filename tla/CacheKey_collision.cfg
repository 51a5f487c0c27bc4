SPECIFICATION Spec
CONSTANTS
  ChunkLen = 8
  LengthLen = 2
  ByteBits = 3
  WordLen = 1
  Backslash = 5
  Slash = 6
  Blanks = {3}
  Texts <- MCTexts
  Numbers = {0, 1}
  Hashes = {1, 8}
  LoraStacks <- MCLoraStacks
  GenerateStates <- MCGenerateStates
  FieldLists <- MCFieldLists
  MaxKeys = 2
INVARIANTS TypeOK DigestIsStandard KeysTellApart
CHECK_DEADLOCK FALSE
