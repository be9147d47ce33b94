SPECIFICATION Spec
CONSTANTS
  t1 = t1
  t2 = t2
  a1 = a1
  a2 = a2
  a3 = a3
  None = None
  Thread = {t1, t2}
  Addr = {a1, a2, a3}
  Size = {1, 2}
  NodeSize = 1
  MaxCalls = 5
SYMMETRY Alike
CHECK_DEADLOCK FALSE
INVARIANTS
  OwnedIntact
  ListAccounts
