\* Two builders over five messages that arrive in any order.
CONSTANTS
  Messages = {1, 2, 3, 4, 5}
  TimeOf <- TimesOf
  Builders = {this, other}
  Limit = 2
  EqualLimit = 3
  Window = 4
  TextOf <- TextsOf
  TextCap = 3
  PromptRoom = 15
  Envelope = 3
  Mark = 1
  ModelClaims <- AllClaims
SPECIFICATION RangesFairSpec
CHECK_DEADLOCK FALSE
INVARIANTS
  RangeInv
  BatchesAreRead
  NothingSkipped
  EqualRowsTogether
PROPERTIES
  RangesImplementMemory
  EveryMessageIsBatched
