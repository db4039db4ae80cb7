\* A pass of the timer, one of the console and a repair over two groups.
CONSTANTS
  Groups = {family, sports}
  Former = {sports}
  Names = {old, new}
  Out = Out
  NoName = NoName
  Timer = timer
  Manual = {asked}
  Readers = {viewer}
  Prune = TRUE
  RingMax = 1
  MaxMoves = 1
  MaxErrors = 1
SPECIFICATION FairSpec
CHECK_DEADLOCK FALSE
INVARIANTS
  SyncInv
PROPERTIES
  SyncSettles
