----------------------------- MODULE ReplyTools -----------------------------
(***************************************************************************)
(* One automatic reply between the lease it runs under and the text it     *)
(* sends: recall, prompt, the model's generations and the tools it calls   *)
(* (replies/generate.ts, mcp/agent-tools.ts, mcp/group-tools.ts,           *)
(* mcp/media-tools.ts).  The calls of one generation run concurrently, and *)
(* with the owner, the dispatcher and the memory job.  Tokens are counted  *)
(* in units of the constants of ReplyContext.                              *)
(***************************************************************************)
EXTENDS ReplyContext, MediaText

CONSTANTS
  Calls,            \* the calls one generation may make at once
  ToolsOf,          \* the tools a call may be of, by call
  Groups, Own,      \* groups of the instance; the chat's own one
  Names, Subject,   \* what groups are called
  Summaries, Facts, \* what the memory job stores, as in ReplyContext
  Before,           \* what it had stored before
  Histories,        \* the lines a chat may hold, as sets [at, cost]
  Outputs, Sizes,   \* lengths of a generation, of a tool result
  MaxSteps, Attempts,
  RecapLimit, Heard,       \* lines of a recap, bound on lines in scope
  EntryCost, ListRoom,     \* a listing's entries and room
  Tables, LineEnds, Marks, \* CSV files as written: table, line end, byte order mark
  MaxMoves                 \* bound: scope changes

Tools == {"group_read", "group_messages", "monitored_groups", "scheduled_sends",
          "cancel_scheduled", "autonomous", "staged", "media"}

ASSUME ToolsAssumption == ToolsOf \in [Calls -> SUBSET Tools]
ASSUME ScopeAssumption == /\ Own \in Groups /\ Subject \in [Groups -> Names]
                          /\ Groups \cap Names = {} /\ IsFiniteSet(Groups)
ASSUME SizesAssumption ==
  /\ {Ceiling, OutputReserve, SchemaReserve, ResultReserve, HistoryReserve, StructuralReserve,
      MandatoryCost, HeaderCost, MessagesMax, SummariesMax, FactsMax, HistoryLimit, SummaryLimit,
      TextFactLimit, RecentFactLimit, MaxSteps, RecapLimit, MaxMoves} \subseteq Nat
  /\ Attempts \in Nat \ {0}
  /\ Outputs \subseteq 0 .. OutputReserve /\ Sizes \subseteq Nat /\ Heard \subseteq Nat
  /\ HistoryReserve >= MaxSteps * OutputReserve
  /\ Reserves <= Ceiling
ASSUME MemoryAssumption ==
  /\ Before \subseteq Summaries /\ IsFiniteSet(Summaries) /\ IsFiniteSet(Facts)
  /\ \A s \in Summaries : {s.at, s.cost} \subseteq Nat
  /\ \A f \in Facts : {f.id, f.base, f.hit, f.at, f.cost} \subseteq Nat
  /\ \A f, g \in Facts : f.id = g.id => f = g
ASSUME HistoryAssumption ==
  \A h \in Histories : /\ IsFiniteSet(h.said) /\ IsFiniteSet(h.sent)
                       /\ \A line \in h.said \cup h.sent : line.cost \in Nat
\* A row has a cell, and a file's mark is no part of its first one.
ASSUME TablesAssumption ==
  /\ {MaxRows, MaxColumns, CellMax, TableRoom} \subseteq Nat
  /\ {Bom, Comma, Quote, CR, LF} \subseteq Characters
  /\ Tables \subseteq Seq(Seq(Seq(Characters)) \ {<<>>})
  /\ \A table \in Tables : table # <<>> /\ table[1][1] # <<>> => table[1][1][1] # Bom
  /\ LineEnds \subseteq {<<LF>>, <<CR, LF>>, <<CR>>} /\ Marks \subseteq {<<>>, <<Bom>>}

VARIABLES
  kind,       \* the chat: a group's or the owner's own ("user")
  monitored,  \* groups assigned and whitelisted
  moves,      \* scope changes so far
  stored,     \* summaries and facts the memory job has stored
  queued,     \* a queued send of the instance
  phase,      \* where the reply stands
  recalled,   \* what the recall branches returned so far, by branch
  prompt,     \* the assembled prompt
  attempt, step, history, results,  \* the generation and its request so far
  remaining,  \* tool-result tokens left for the whole reply
  call        \* the calls of the generation, by slot

world     == <<monitored, moves, stored, queued>>
reply     == <<kind, phase, recalled, prompt, attempt, step, history, results>>
toolsVars == <<world, reply, remaining, call>>

Nothing == "none"
NoRequest == [tool |-> Nothing, ref |-> Nothing]

Idle ==
  [at |-> "idle", tool |-> Nothing, ref |-> Nothing, about |-> {}, within |-> {},
   told |-> Nothing, short |-> FALSE, flagged |-> FALSE, row |-> Nothing, performed |-> FALSE,
   kind |-> Nothing, stage |-> Nothing, got |-> FALSE, child |-> FALSE, dir |-> FALSE,
   blank |-> FALSE, read |-> 0, staged |-> 0, lost |-> FALSE]

NoPrompt == [used |-> 0, batches |-> {}]

ToolsInit ==
  /\ kind \in {"group", "user"}
  /\ monitored = Groups /\ moves = 0
  /\ stored = Before
  /\ queued = [status |-> "scheduled", posted |-> FALSE]
  /\ phase = "recall"
  /\ recalled = <<>>
  /\ prompt = NoPrompt
  /\ attempt = 1 /\ step = 0 /\ history = 0 /\ results = 0
  /\ remaining = ResultReserve
  /\ call = [c \in Calls |-> Idle]

(***************************************************************************)
(* What goes on around the reply                                           *)
(***************************************************************************)
\* The owner moves a group out of the scope or back into it; no step looks
\* before the first call.
Move(g) ==
  /\ phase \notin {"recall", "assembled"} /\ moves < MaxMoves
  /\ moves' = moves + 1
  /\ monitored' = IF g \in monitored THEN monitored \ {g} ELSE monitored \cup {g}
  /\ call' = [c \in Calls |-> IF call[c].at \in {"idle", "answer", "done"} THEN call[c]
                              ELSE [call[c] EXCEPT !.within = @ \cup monitored']]
  /\ UNCHANGED <<stored, queued, reply, remaining>>

\* A batch is stored in one transaction, its facts with its summary.
StoreBatch(s) ==
  /\ phase = "recall" /\ s \notin stored
  /\ stored' = stored \cup {s}
  /\ UNCHANGED <<monitored, moves, queued, reply, remaining, call>>

FactsStored == {f \in Facts : \E s \in stored : s.batch = f.batch}

\* The dispatcher claims the queued send and posts it; again nothing looks
\* before the first call.
Dispatch ==
  /\ phase \notin {"recall", "assembled"}
  /\ queued.status = "scheduled"
  /\ queued' = [status |-> "dispatching", posted |-> TRUE]
  /\ UNCHANGED <<monitored, moves, stored, reply, remaining, call>>

\* The owner decides, from the console, an action the policy has not decided.
OwnerDecides(c) ==
  /\ call[c].at = "decide" /\ call[c].row = "pending"
  /\ \E decision \in {"approved", "rejected"} : call' = [call EXCEPT ![c].row = decision]
  /\ UNCHANGED <<world, reply, remaining>>

(***************************************************************************)
(* The prompt                                                              *)
(***************************************************************************)
RecallBranches == {"summaries", "hits", "recent"}

Branch(b) == CASE b = "summaries" -> RecentSummaries(stored)
               [] b = "hits"      -> TextMatchingFacts(FactsStored)
               [] b = "recent"    -> RecentFacts(FactsStored)

RecallMemory ==
  /\ phase = "recall"
  /\ \E b \in RecallBranches \ DOMAIN recalled :
     \E answer \in Branch(b) :
       recalled' = [x \in DOMAIN recalled \cup {b} |-> IF x = b THEN answer ELSE recalled[x]]
  /\ UNCHANGED <<world, kind, phase, prompt, attempt, step, history, results, remaining, call>>

\* No prompt is made where what is mandatory is already too large.
Assemble(lines) ==
  /\ phase = "recall" /\ DOMAIN recalled = RecallBranches
  /\ IF MandatoryCost > Content
     THEN phase' = "failed" /\ UNCHANGED prompt
     ELSE /\ phase' = "assembled"
          /\ \E facts \in RankFacts(recalled.hits, recalled.recent), m, s, f \in 0 .. Most :
               /\ Assembled(lines, recalled.summaries, facts, m, s, f)
               /\ prompt' = AssembledPrompt(lines, recalled.summaries, facts, m, s, f)
  /\ UNCHANGED <<world, kind, recalled, attempt, step, history, results, remaining, call>>

\* The sessions of the tools open: from here on only the prompt's size counts.
Connect ==
  /\ phase = "assembled"
  /\ phase' = "asking"
  /\ prompt' = [NoPrompt EXCEPT !.used = prompt.used]
  /\ recalled' = <<>>
  /\ stored' = {}
  /\ UNCHANGED <<monitored, moves, queued, kind, attempt, step, history, results, remaining, call>>

(***************************************************************************)
(* The generations                                                         *)
(***************************************************************************)
\* The model asks for tools: its turn becomes history of the next request.
CallTools(turn, o) ==
  /\ phase = "asking" /\ step < MaxSteps
  /\ \E c \in Calls : turn[c] # NoRequest
  /\ phase' = "tools" /\ step' = step + 1
  /\ history' = history + o
  /\ call' = [c \in Calls |->
       IF turn[c] = NoRequest THEN Idle
       ELSE [Idle EXCEPT !.at = "called", !.tool = turn[c].tool, !.ref = turn[c].ref,
                         !.within = monitored]]
  /\ UNCHANGED <<world, kind, recalled, prompt, attempt, results, remaining>>

\* Every result is in: the next generation, or the closing one without tools
\* where this was the last step.
Continue ==
  /\ phase = "tools"
  /\ \A c \in Calls : call[c].at \in {"idle", "done"}
  /\ phase' = IF step < MaxSteps THEN "asking" ELSE "closing"
  /\ call' = [c \in Calls |-> Idle]
  /\ UNCHANGED <<world, kind, recalled, prompt, attempt, step, history, results, remaining>>

\* The model answers, and the answer is sanitized: sent, refused for the
\* owner's review, or asked once more where it was a tool call written as text.
AnswerOwner ==
  /\ phase \in {"asking", "closing"}
  /\ phase' \in {"replied", "refused"}
  /\ UNCHANGED <<world, kind, recalled, prompt, attempt, step, history, results, remaining, call>>

\* Mutant: a second attempt keeps the first one's turns.
AskAgainInPlace ==
  /\ phase \in {"asking", "closing"} /\ attempt < Attempts
  /\ attempt' = attempt + 1
  /\ phase' = "asking" /\ step' = 0
  /\ UNCHANGED <<world, kind, recalled, prompt, history, results, remaining, call>>

\* The answer was markup, or the endpoint's response had no usable shape: the
\* question is asked again from the prompt, with what is left of the budget.
AskAgain ==
  /\ phase \in {"asking", "closing"} /\ attempt < Attempts
  /\ attempt' = attempt + 1
  /\ phase' = "asking" /\ step' = 0 /\ history' = 0 /\ results' = 0
  /\ UNCHANGED <<world, kind, recalled, prompt, remaining, call>>

\* The generation throws, or the lease's heartbeat finds the run reclaimed and
\* aborts it; calls already under way run on, and nobody reads their results.
Abandon ==
  /\ phase \in {"asking", "tools", "closing"}
  /\ phase' = "failed"
  /\ UNCHANGED <<world, kind, recalled, prompt, attempt, step, history, results, remaining, call>>

(***************************************************************************)
(* One call                                                                *)
(***************************************************************************)
Does(c, from, step1) == call[c].at = from /\ call' = [call EXCEPT ![c] = step1]

Rest == UNCHANGED <<world, reply, remaining>>

\* On its way back to the model: what it was about no longer matters.
Heeded(c) == [call[c] EXCEPT !.at = "answer", !.about = {}, !.within = {},
                             !.short = FALSE, !.flagged = FALSE, !.blank = FALSE]

\* An answered call; of one that did something it is kept what it did.
Settled(c, told) ==
  IF told # "done" THEN [Idle EXCEPT !.at = "done"]
  ELSE [Idle EXCEPT !.at = "done", !.tool = call[c].tool, !.told = told,
                    !.row = call[c].row, !.performed = call[c].performed]

\* A call is not made once the allowance is spent, and without a database
\* nothing can be read or recorded.
Refuse(c) ==
  /\ \/ /\ remaining = 0
        /\ Does(c, "called", Settled(c, "spent"))
     \/ /\ remaining > 0
        /\ Does(c, "called", [Heeded(c) EXCEPT !.told = "not_available", !.lost = TRUE])
  /\ Rest

\* Mutant: an address is taken as it is.
ScopedGroupAsNamed(ref) ==
  IF kind = "group" THEN {Own} \cap monitored
  ELSE IF ref \in Groups THEN {ref}
  ELSE LET named == {g \in monitored : Subject[g] = ref}
       IN IF Cardinality(named) = 1 THEN named ELSE {}

\* A group's chat is about that group; the owner's chat names one, by address
\* or by a name only one monitored group has.
ScopedGroup(ref) ==
  IF kind = "group" THEN {Own} \cap monitored
  ELSE IF ref \in Groups THEN {ref} \cap monitored
  ELSE LET named == {g \in monitored : Subject[g] = ref}
       IN IF Cardinality(named) = 1 THEN named ELSE {}

Scoped == {"group_read", "group_messages", "autonomous", "staged"}

Record(c, told) == [call[c] EXCEPT !.at = "record", !.told = told]

NotAvailable(c) == [Record(c, "not_available") EXCEPT !.ref = Nothing]

\* The scope is checked once, before the call does anything.
Resolve(c) ==
  /\ remaining > 0 /\ call[c].tool \in Scoped
  /\ LET scope == ScopedGroup(call[c].ref)
     IN Does(c, "called", IF scope = {} THEN NotAvailable(c)
                          ELSE [call[c] EXCEPT !.at = call[c].tool, !.ref = Nothing, !.about = scope])
  /\ Rest

\* The worker answers for the group, or does not.
ReadGroup(c) ==
  /\ \E step1 \in {Record(c, "ok"), NotAvailable(c)} : Does(c, "group_read", step1)
  /\ Rest

\* What a recap may come to.  Both sides of the conversation are read, newest
\* first, and counted after they were read; heard and said count the lines in
\* scope as the call begins, is read, is counted: more arrive, none go.
Growing == {h \in [1 .. 3 -> Heard] : h[1] <= h[2] /\ h[2] <= h[3]}

\* Mutant: what the assistant said is not part of the total.
RecapsHeardOnly ==
  {LET rows     == Least(heard[2], RecapLimit)
       spoken   == Least(said[2], RecapLimit)
       windowed == Least(rows + spoken, RecapLimit)
   IN [short   |-> clipped \/ windowed < heard[1] + said[1],
       flagged |-> clipped \/ rows < heard[3]] :
     heard \in Growing, said \in Growing, clipped \in BOOLEAN}

Recaps ==
  {LET rows     == Least(heard[2], RecapLimit)
       spoken   == Least(said[2], RecapLimit)
       windowed == Least(rows + spoken, RecapLimit)
   IN [short   |-> clipped \/ windowed < heard[1] + said[1],
       flagged |-> clipped \/ rows < heard[3] + said[3]] :
     heard \in Growing, said \in Growing, clipped \in BOOLEAN}

ReadGroupMessages(c) ==
  /\ \E recap \in Recaps :
       Does(c, "group_messages", [Record(c, "ok") EXCEPT !.short   = recap.short,
                                                         !.flagged = recap.flagged])
  /\ Rest

\* The list of what is monitored, as many as there is room for.  A group's
\* chat must itself be monitored to ask.
ListMonitoredGroups(c) ==
  /\ remaining > 0 /\ call[c].tool = "monitored_groups"
  /\ \/ /\ kind = "group" /\ Own \notin monitored
        /\ Does(c, "called", NotAvailable(c))
     \/ /\ kind = "group" => Own \in monitored
        /\ \E listed \in SUBSET monitored :
             /\ Cardinality(listed) = Least(Cardinality(monitored), ListRoom \div EntryCost)
             /\ Does(c, "called", [Record(c, "ok") EXCEPT !.about   = listed,
                                                          !.short   = listed # monitored,
                                                          !.flagged = listed # monitored])
  /\ Rest

\* What is queued for the instance, whichever group it is for.
ListScheduledSends(c) ==
  /\ remaining > 0 /\ call[c].tool = "scheduled_sends"
  /\ Does(c, "called", Record(c, "ok"))
  /\ Rest

\* The send is read for its instance and its words, then withdrawn by the
\* transition the owner's own cancellation takes.
FindSend(c) ==
  /\ remaining > 0 /\ call[c].tool = "cancel_scheduled"
  /\ \E step1 \in {[call[c] EXCEPT !.at = "cancel"], NotAvailable(c)} : Does(c, "called", step1)
  /\ Rest

\* Mutant: the send that was found is withdrawn whatever became of it.
CancelScheduledSendBlind(c) ==
  /\ queued' = [queued EXCEPT !.status = "cancelled"]
  /\ Does(c, "cancel", Record(c, "done"))
  /\ UNCHANGED <<monitored, moves, stored, reply, remaining>>

CancelScheduledSend(c) ==
  /\ \/ /\ queued.status = "scheduled"
        /\ queued' = [queued EXCEPT !.status = "cancelled"]
        /\ Does(c, "cancel", Record(c, "done"))
     \/ /\ queued.status # "scheduled"
        /\ Does(c, "cancel", Record(c, "action_failed"))
        /\ UNCHANGED queued
  /\ UNCHANGED <<monitored, moves, stored, reply, remaining>>

\* A change is staged in the queue, which records it.  Of a kind the policy
\* may decide the call goes on, of any other it waits for the owner.
StageGroupAction(c) ==
  /\ \/ \E tool \in {"autonomous", "staged"} : Does(c, tool, NotAvailable(c))
     \/ Does(c, "autonomous", [call[c] EXCEPT !.at = "decide", !.row = "pending", !.staged = 1])
     \/ Does(c, "staged", [Heeded(c) EXCEPT !.told = "staged", !.row = "pending", !.staged = 1])
  /\ Rest

\* The policy decides, unless the owner was faster.
DecideAsPolicy(c) ==
  /\ Does(c, "decide", IF call[c].row = "pending"
                       THEN [call[c] EXCEPT !.at = "execute", !.row = "approved"]
                       ELSE NotAvailable(c))
  /\ Rest

\* The executor says what became of the change, or throws on its way there.
Execute(c) ==
  /\ \/ Does(c, "execute", [Record(c, "done") EXCEPT !.performed = TRUE, !.row = "executed"])
     \/ \E performed \in BOOLEAN, told \in {"action_failed", "not_available"} :
          Does(c, "execute", [Record(c, told) EXCEPT !.performed = performed, !.row = "failed"])
  /\ Rest

\* Attachments a call can reach: a group's chat those of its own group, the
\* owner's chat its own and those of monitored groups.
Reachable == IF kind = "group" THEN {{g} : g \in {Own} \cap monitored}
             ELSE {{}} \cup {{g} : g \in monitored}

\* No such message in reach, an attachment that was not stored or is of
\* another type, or one the tool can read.
LoadScopedMedia(c) ==
  /\ remaining > 0 /\ call[c].tool = "media"
  /\ \/ Does(c, "called", NotAvailable(c))
     \/ \E scope \in Reachable, told \in {"not_stored", "unsupported_type"} :
          Does(c, "called", [Record(c, told) EXCEPT !.about = scope])
     \/ \E scope \in Reachable :
          Does(c, "called", [call[c] EXCEPT !.at = "object", !.about = scope])
  /\ Rest

\* What reading a stored table may come to.
CsvReadings == {CsvReading(table, lineEnd, mark) : table \in Tables, lineEnd \in LineEnds, mark \in Marks}

\* The object is gone or too large, or no audio can be heard or JSON parsed; a
\* table or a text is read here, and for the rest programs run, for some kinds
\* on a file of their own.
ReadObject(c) ==
  /\ \/ Does(c, "object", NotAvailable(c))
     \/ \E csv \in CsvReadings :
          Does(c, "object", IF csv.ok THEN [Record(c, "ok") EXCEPT !.short   = csv.short,
                                                                  !.flagged = csv.flagged]
                            ELSE NotAvailable(c))
     \/ \E cut \in BOOLEAN : Does(c, "object", [Record(c, "ok") EXCEPT !.short = cut, !.flagged = cut])
     \/ \E kind1 \in Extracted :
          Does(c, "object", [call[c] EXCEPT !.at = "extract", !.dir = kind1 \in InFile,
                                            !.kind = kind1, !.stage = FirstRun[kind1]])
  /\ Rest

RunExtractor(c) ==
  /\ ~call[c].child /\ call[c].stage \in Stages
  /\ Does(c, "extract", [call[c] EXCEPT !.child = TRUE])
  /\ Rest

\* What the read does once a program has given something, or nothing.
Afterwards(c, good) ==
  {[call[c] EXCEPT !.child = FALSE, !.stage = after.to, !.got = after.got] :
     after \in AfterRun(call[c].kind, call[c].stage, call[c].got, good)}

\* The program ends with its output, or fails, or writes more than is read.
Finish(c) ==
  /\ call[c].at = "extract" /\ call[c].child
  /\ \E good \in BOOLEAN : \E step1 \in Afterwards(c, good) : Does(c, "extract", step1)
  /\ Rest

\* Mutant: only a program that reads a file is timed.
TimesOutWithFile(c) ==
  /\ call[c].at = "extract" /\ call[c].child /\ call[c].dir
  /\ \E step1 \in Afterwards(c, FALSE) : Does(c, "extract", step1)
  /\ Rest

\* The program hangs and the timer kills it: it has given nothing.
TimesOut(c) ==
  /\ call[c].at = "extract" /\ call[c].child
  /\ \E step1 \in Afterwards(c, FALSE) : Does(c, "extract", step1)
  /\ Rest

\* What the programs gave is cut to the room a result has, or is of no use; the
\* file goes either way.  Of a clip the frames that fit are given, and a
\* workbook without its strings is given with those cells blank.
ReadCapability(c) ==
  /\ call[c].at = "extract" /\ call[c].stage \in Ends
  /\ LET useless == NotAvailable(c)
         given   == {[Record(c, "ok") EXCEPT !.short = cut, !.flagged = cut,
                                            !.blank = call[c].stage = "text" /\ ~call[c].got] :
                      cut \in IF call[c].stage = "text" THEN BOOLEAN ELSE {FALSE}}
     IN \E step1 \in {useless} \cup (IF call[c].stage = "refused" THEN {} ELSE given) :
          Does(c, "extract", [step1 EXCEPT !.dir = FALSE, !.kind = Nothing, !.stage = Nothing, !.got = FALSE])
  /\ Rest

ReadTools == {"group_read", "group_messages", "monitored_groups", "scheduled_sends", "media"}

\* The row of a call says what it was told; the answer stands where the row
\* cannot be written.
Recorded(c) ==
  {[Heeded(c) EXCEPT !.lost = TRUE],
   IF call[c].tool \in ReadTools THEN [Heeded(c) EXCEPT !.read = @ + 1]
   ELSE [Heeded(c) EXCEPT !.staged = @ + 1]}

\* Mutant: a refused call leaves no row.
RecordToolCallAnswered(c) ==
  /\ call[c].tool # "media"
  /\ \E step1 \in IF call[c].told \in {"ok", "done"} THEN Recorded(c) ELSE {Heeded(c)} :
       Does(c, "record", step1)
  /\ Rest

\* One row of the audit log for what the queue does not record.
RecordToolCall(c) ==
  /\ call[c].tool # "media"
  /\ \E step1 \in Recorded(c) : Does(c, "record", step1)
  /\ Rest

RecordMediaRead(c) ==
  /\ call[c].tool = "media"
  /\ \E step1 \in Recorded(c) : Does(c, "record", step1)
  /\ Rest

\* The result, clipped to what is left of the reply's one allowance.  Where
\* not even its first character fits the allowance counts as spent.
Clip(c, size, given) ==
  /\ call[c].at = "answer"
  /\ IF size <= remaining THEN given = size ELSE given \in 0 .. remaining
  /\ remaining' = IF given = 0 /\ size > 0 THEN 0 ELSE remaining - given
  /\ results' = IF phase = "tools" THEN results + given ELSE results
  /\ Does(c, "answer", Settled(c, IF given = 0 /\ size > 0 THEN "spent" ELSE call[c].told))
  /\ UNCHANGED <<world, kind, phase, recalled, prompt, attempt, step, history>>

RunGroupTool(c) ==
  \/ Resolve(c) \/ ReadGroup(c) \/ ReadGroupMessages(c) \/ ListMonitoredGroups(c)
  \/ ListScheduledSends(c) \/ FindSend(c) \/ CancelScheduledSend(c)
  \/ StageGroupAction(c) \/ DecideAsPolicy(c) \/ Execute(c) \/ RecordToolCall(c)

RunMediaTool(c) ==
  \/ LoadScopedMedia(c) \/ ReadObject(c) \/ RunExtractor(c) \/ TimesOut(c)
  \/ ReadCapability(c) \/ RecordMediaRead(c)

Run(c) ==
  \/ Refuse(c) \/ RunGroupTool(c) \/ RunMediaTool(c)
  \/ \E size \in Sizes, given \in 0 .. ResultReserve : Clip(c, size, given)

(***************************************************************************)
(* Specification                                                           *)
(***************************************************************************)
\* A call names a group only where the chat is not a group's own.
Refs(tool) == IF kind = "user" /\ tool \in Scoped THEN Groups \cup Names ELSE {Nothing}

Requests(c) == {NoRequest} \cup
  UNION {{[tool |-> tool, ref |-> ref] : ref \in Refs(tool)} : tool \in ToolsOf[c]}

Generate ==
  \/ phase = "asking" /\ \E turn \in [Calls -> UNION {Requests(c) : c \in Calls}], o \in Outputs :
       /\ \A c \in Calls : turn[c] \in Requests(c)
       /\ CallTools(turn, o)
  \/ AnswerOwner
  \/ AskAgain

Prepare ==
  \/ RecallMemory \/ Connect
  \/ \E h \in Histories : \E lines \in ContextMessages(h.said, h.sent) : Assemble(CostsOf(lines))

ToolsNext ==
  \/ Prepare \/ Generate \/ Continue \/ Abandon
  \/ \E c \in Calls : Run(c) \/ Finish(c) \/ OwnerDecides(c)
  \/ \E g \in Groups : Move(g)
  \/ \E s \in Summaries : StoreBatch(s)
  \/ Dispatch

ToolsSpec == ToolsInit /\ [][ToolsNext]_toolsVars

\* The web process runs, its database and the endpoint answer or fail, and a
\* timer fires; nothing makes the owner, the dispatcher, the memory job or an
\* extractor move.
ToolsFairness ==
  /\ WF_toolsVars(Prepare) /\ WF_toolsVars(Generate) /\ WF_toolsVars(Continue)
  /\ \A c \in Calls : WF_toolsVars(Run(c))

ToolsFairSpec == ToolsSpec /\ ToolsFairness

(***************************************************************************)
(* Properties                                                              *)
(***************************************************************************)
CallRecords ==
  [at : {"idle", "called", "group_read", "group_messages", "autonomous", "staged", "decide",
         "execute", "cancel", "object", "extract", "record", "answer", "done"},
   tool : Tools \cup {Nothing}, ref : Groups \cup Names \cup {Nothing},
   about : SUBSET Groups, within : SUBSET Groups,
   told : {Nothing, "ok", "done", "staged", "spent", "not_available", "not_stored",
           "unsupported_type", "action_failed"},
   short : BOOLEAN, flagged : BOOLEAN,
   row : {Nothing, "pending", "approved", "rejected", "executed", "failed"}, performed : BOOLEAN,
   kind : Extracted \cup {Nothing}, stage : Stages \cup Ends \cup {Nothing}, got : BOOLEAN,
   child : BOOLEAN, dir : BOOLEAN, blank : BOOLEAN,
   read : 0 .. 1, staged : 0 .. 2, lost : BOOLEAN]

\* Type invariant.
ToolsTypeOK ==
  /\ kind \in {"group", "user"}
  /\ monitored \in SUBSET Groups /\ moves \in 0 .. MaxMoves /\ stored \in SUBSET Summaries
  /\ queued \in [status : {"scheduled", "dispatching", "cancelled"}, posted : BOOLEAN]
  /\ phase \in {"recall", "assembled", "asking", "tools", "closing", "replied", "refused", "failed"}
  /\ prompt.used \in Nat
  /\ attempt \in 1 .. Attempts /\ step \in 0 .. MaxSteps
  /\ history \in Nat /\ results \in Nat /\ remaining \in Nat
  /\ call \in [Calls -> CallRecords]

\* Every generation of a reply adds at most its own reserve to the history.
HistoryIsReserved == history <= step * OutputReserve

\* However many results arrive at once, in whichever order and over however
\* many attempts, together they stay within the reply's one allowance
\* (tokenResultBudget).
ResultsAreReserved == results + remaining <= ResultReserve

BudgetInv == ToolsTypeOK /\ HistoryIsReserved /\ ResultsAreReserved

\* Every request the model is sent, the closing one included, leaves room for
\* its answer under the ceiling (REPLY_PROMPT_CEILING): what the assembler
\* held back covers what the tool loop adds.  Counted is what the code counts;
\* the note that replaces a result that was not made, and images, are not.
ContextFits ==
  phase \in {"asking", "tools", "closing"} =>
    prompt.used + SchemaReserve + StructuralReserve + history + results
      + (IF phase = "tools" THEN 0 ELSE OutputReserve) <= Ceiling

\* The reply's sums and the requests they are for.
ContextInv == BudgetInv /\ ContextFits

\* What a call answers about, or acts on, was in scope at some instant of that
\* very call, whoever narrows the scope meanwhile; and a group's chat reaches
\* no other group, except that it may list their names.
AnswersWereAuthorised ==
  \A c \in Calls :
    /\ call[c].about \subseteq call[c].within
    /\ kind = "group" /\ call[c].tool # "monitored_groups" => call[c].about \subseteq {Own}

\* Unless the log could not be written, every call that was made left its row:
\* a read exactly one of a read, a change at least the one of its stage, and a
\* refused change one all the same.
CallsAreRecorded ==
  \A c \in Calls : call[c].at = "answer" /\ ~call[c].lost =>
    IF call[c].tool \in ReadTools THEN call[c].read = 1 /\ call[c].staged = 0
    ELSE call[c].read = 0 /\ call[c].staged >= 1

\* The model is told that something was done only where it was: a change that
\* was carried out under a decision, a queued send that was withdrawn and that
\* no dispatcher has claimed before or claims later.
DoneIsDone ==
  \A c \in Calls : call[c].told = "done" =>
    /\ call[c].tool = "autonomous" => call[c].performed /\ call[c].row = "executed"
    /\ call[c].tool = "cancel_scheduled" => queued = [status |-> "cancelled", posted |-> FALSE]

\* A result that holds less than what was in scope when the call began says
\* so, however much arrives while it is being read; and a table that is not
\* said to be cut is, cell for cell, the one that was written.
CutIsTold ==
  \A c \in Calls : call[c].told = "ok" /\ call[c].short => call[c].flagged

\* What media-tools.ts says of a workbook: a program that failed, or gave more
\* than is read of it, leaves nothing to read.  The one that reads its strings
\* leaves their cells blank.
WorkbookIsWhole == \A c \in Calls : ~call[c].blank

\* Whichever branch saw which batch: no two facts say the same, whatever was
\* recalled is there in its best wording unless the list is full, and the
\* prompt stays within the content's share of the ceiling and cites only
\* batches that are stored.
PromptIsSound ==
  phase = "assembled" =>
    /\ \A facts \in RankFacts(recalled.hits, recalled.recent) :
         /\ \A i, j \in DOMAIN facts : i # j => facts[i].text # facts[j].text
         /\ Len(facts) < TextFactLimit + RecentFactLimit =>
              \A f \in recalled.hits \cup recalled.recent : \E i \in DOMAIN facts :
                /\ facts[i].text = f.text
                /\ FactScore(facts[i], recalled.hits) >= FactScore(f, recalled.hits)
    /\ prompt.used \in 0 .. Content
    /\ prompt.batches \subseteq {s.batch : s \in stored}

\* A reply ends, and so does every call it made, though extractors may hang
\* and the reply may be abandoned with calls under way; and no process and no
\* file of a call is left behind.
ReplyIsSettled ==
  <>[](/\ phase \in {"replied", "refused", "failed"}
       /\ \A c \in Calls : /\ call[c].at \in {"idle", "done"}
                            /\ ~call[c].child /\ ~call[c].dir)

\* What group-tools.ts says of its audit rows: a stage is never recorded
\* twice.  A change the policy performs is, once by the queue and once by the
\* tool.
StagedOnce == \A c \in Calls : call[c].staged <= 1
=============================================================================
