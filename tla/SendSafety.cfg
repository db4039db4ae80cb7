\* One request, two worker incarnations, two approvals; a lock is stale at the next tick.
CONSTANTS
  Sends = {s1}
  Workers = {w1, w2}
  Approvers = {h1, h2}
  MaxAttempts = 3
  LockTTL = 0
  MaxTime = 1
  BridgeMayDie = TRUE
  None = None
SPECIFICATION FairSpec
INVARIANTS
  SendInv
  NoDoublePost
PROPERTIES
  ImplementsContract
  DueSendIsTaken
CHECK_DEADLOCK FALSE
