SPECIFICATION Spec
CONSTANTS
  c1 = c1
  c2 = c2
  m1 = m1
  m2 = m2
  m3 = m3
  Client = {c1}
  Looper = Looper
  None = None
  Msg = {m1, m2, m3}
  What = {1, 2}
  WhatOf <- MCWhatOf
  TimeoutOf <- MCTimeoutOf
  Handled <- MCHandled
  Delay = {0, 1}
  MaxTime = 1
  MaxRemoves = 1
  MaxStarts = 1
INVARIANTS
  InOrder
  CallbackProtocol
