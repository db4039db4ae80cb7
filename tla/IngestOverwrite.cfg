\* A redelivery whose attachment could not be stored.
CONSTANTS
  Deliveries = {first, again, other}
  Messages = {photo, text, more}
  MessageOf <- Posts
  WithMedia = {photo}
  Size = 1
  FlushMax = 2
  photo = photo
  text = text
  more = more
  first = first
  again = again
  other = other
  last = last
SPECIFICATION Spec
PROPERTY StoredMediaIsKept
CHECK_DEADLOCK FALSE
