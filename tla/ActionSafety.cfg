\* An action for the owner, a low-risk change and a message, through every door.
CONSTANTS
  Actions = {kick, rename, post}
  Autonomous = {rename, post}
  Messages = {post}
  Handlers = {console1, console2, dm1, tool1}
  Door <- AllDoors
  None = None
  CallsOf <- AllCalls
  Accounts = {ann, bob}
  Results <- AllResults
  Most <- AllMost
  MembersMax = 2
  Ahead = 2
  NameLength = 2
  kick = kick
  rename = rename
  post = post
  ann = ann
  bob = bob
  console1 = console1
  console2 = console2
  dm1 = dm1
  tool1 = tool1
SPECIFICATION Spec
SYMMETRY Symmetry
CHECK_DEADLOCK FALSE
INVARIANTS
  
  AuditTellsTheStory
PROPERTIES
  OutcomeIsFinal
