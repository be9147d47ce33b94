SPECIFICATION FairSpec
CONSTANTS
  Size = 2
  Reader = {r1}
  Writer = {w1}
  Length = {1, 2}
  Threshold = {0, 2, 3}
  Bytes = 3
INVARIANTS
  TypeOK
  NoLostWakeUp
  NotBothStuck
PROPERTIES
  ImplementsStream
  StoppedCallsEnd
