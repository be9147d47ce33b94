SPECIFICATION Spec
CONSTANTS
  Capacity = 18
  NestingLimit = 3
  DefaultBufferSize = 16
  MaxIndex = 3
  Starts <- MCStarts
  Texts <- MCTexts
  NewItems <- MCNewItems
  Names <- MCNames
  PatchSet <- MCPatches
CHECK_DEADLOCK FALSE
INVARIANTS
  TreesIntact
  OutputInRoom
PROPERTY
  ImplementsDocuments
