SPECIFICATION Spec
CONSTANTS
  q1 = q1
  q2 = q2
  s1 = s1
  s2 = s2
  c1 = c1
  c2 = c2
  a1 = a1
  a2 = a2
  p1 = p1
  p2 = p2
  None = None
  Queue = {q1}
  Set = {s1, s2}
  Sender = {p1}
  Consumer = {c1, c2}
  Admin = {a1, a2}
  Value = {1}
  Length <- MCOneSlot
  Resets = {q1}
  Teardown = {}
INVARIANTS
  AtMostOneSet
