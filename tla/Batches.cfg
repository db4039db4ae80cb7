\* One batch, its callbacks delayed into each other, its group moved in and out.
CONSTANTS
  Batches = {1}
  Groups = {family}
  GroupOf <- OneGroup
  MaxAttempts = 2
  MaxVersion = 2
  family = family
SPECIFICATION FairSpec
CHECK_DEADLOCK FALSE
INVARIANTS
  BatchInv
PROPERTIES
  ConsentCoversTheModelCall
  BatchesImplementMemory
  OutstandingIsResolved
