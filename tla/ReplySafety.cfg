\* Three callbacks contend for one message.
CONSTANTS
  Messages = {m1}
  Callbacks = {c1, c2, c3}
  MaxAttempts = 2
  Lease = 1
  Delays = {0, 1}
  MaxTime = 3
  None = None
SPECIFICATION Spec
SYMMETRY Symmetry
CHECK_DEADLOCK FALSE
INVARIANTS
  ReplyInv
PROPERTIES
  ClosedIsFinal
