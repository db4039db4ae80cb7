\* A photograph delivered twice and two texts, a queue of one, through a shutdown.
CONSTANTS
  Deliveries = {first, again, other, last}
  Messages = {photo, text, more}
  MessageOf <- Posts
  WithMedia = {photo}
  Size = 1
  FlushMax = 2
  photo = photo
  text = text
  more = more
  first = first
  again = again
  other = other
  last = last
SPECIFICATION FairSpec
CHECK_DEADLOCK FALSE
INVARIANTS
  QueueInv
  EffectsFollowTheRow
PROPERTIES
  HandedIsSettled
