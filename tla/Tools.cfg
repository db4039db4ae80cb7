SPECIFICATION ToolsFairSpec
CONSTANTS
  Ceiling = 25
  OutputReserve = 2
  SchemaReserve = 1
  ResultReserve = 3
  HistoryReserve = 4
  StructuralReserve = 1
  MessagesMax = 6
  SummariesMax = 4
  FactsMax = 3
  HeaderCost = 1
  MandatoryCost = 2
  SummaryLimit = 1
  TextFactLimit = 2
  RecentFactLimit = 2
  HistoryLimit = 2
  first = first
  second = second
  ours = ours
  theirs = theirs
  work = work
  Calls = {first, second}
  ToolsOf <- MCToolsOf
  Groups = {ours, theirs}
  Own = ours
  Names = {work}
  Subject <- MCSubject
  Summaries <- MCSummaries
  Facts <- MCFacts
  Before <- MCBefore
  Histories <- MCHistories
  Outputs = {2}
  Sizes = {2}
  MaxSteps = 2
  Attempts = 2
  RecapLimit = 2
  Heard = {0, 1, 2}
  EntryCost = 1
  ListRoom = 1
  MaxMoves = 1
  Characters <- MCCharacters
  MaxRows = 2
  MaxColumns = 2
  CellMax = 2
  TableRoom = 3
  Tables <- MCTables
  LineEnds <- MCLineEnds
  Marks <- MCMarks
CHECK_DEADLOCK FALSE
INVARIANTS
  ContextInv
  
  CallsAreRecorded
  DoneIsDone
  
  PromptIsSound
PROPERTIES
  ReplyIsSettled
