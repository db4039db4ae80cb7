\* Three requests, of either kind, over a group that two accounts share.
CONSTANTS
  Instances = {home, work}
  Jids = {family, sports}
  Rows <- Memberships
  Handlers = {h1, h2, h3}
  Patches <- Requests
  Edits <- Lists
  None = None
  home = home
  work = work
  family = family
  sports = sports
SPECIFICATION Spec
SYMMETRY Symmetry
CHECK_DEADLOCK FALSE
INVARIANTS
  ScopeInv
PROPERTIES
  EligibilityIsVersioned
  MovesAreRecorded
