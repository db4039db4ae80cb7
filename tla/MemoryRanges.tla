---------------------------- MODULE MemoryRanges ----------------------------
(***************************************************************************)
(* How a group's messages are cut into memory batches (memory_batches.go,  *)
(* buildGroup). A builder looks for an outstanding batch, reads the        *)
(* watermark of the completed ones, reads the messages after it and        *)
(* inserts the range they make: four operations of the database, without a *)
(* transaction, that builders of several workers interleave. What keeps    *)
(* them apart is a unique index on the range's predecessor.                *)
(*                                                                         *)
(* Messages arrive in any order: those of a history sync are older than    *)
(* what is already summarised, and timestamps are whole seconds. A batch   *)
(* is completed or given up by the protocol of MemoryBatches.              *)
(***************************************************************************)
EXTENDS Integers, FiniteSets, MemoryPrompt

CONSTANTS
  Messages,   (* keys, numbered in the order of (timestamp, waMessageId)    *)
  TimeOf,     (* the timestamp of each                                      *)
  Builders,   (* passes of buildGroup that run at the same time             *)
  Limit,      (* memoryBatchLimit                                           *)
  EqualLimit, (* memoryBatchEqualLimit                                      *)
  Window,     (* memoryBatchWindow                                          *)
  ModelClaims (* what a model may claim, [says, cites], as a sequence       *)

Origin == 0

ASSUME RangesAssumption ==
  /\ Messages \subseteq Nat \ {Origin}
  /\ TimeOf \in [Messages -> Nat]
  /\ \A m, n \in Messages : m < n => TimeOf[m] <= TimeOf[n]
  /\ {Limit, EqualLimit, Window} \subseteq Nat \ {0}
  /\ Limit <= EqualLimit
  /\ DOMAIN TextOf = Messages
  /\ Len(ModelClaims) \in Nat /\ DOMAIN ModelClaims = 1 .. Len(ModelClaims)

VARIABLES
  stored,   (* the messages in the database                                *)
  batches,  (* the batches: predecessor, source messages and state         *)
  at,       (* per builder: where it stands                                *)
  mark,     (* per builder: the watermark it read                          *)
  rows,     (* per builder: the messages it read                           *)
  late,     (* stored after a builder read beyond them                     *)
  tied      (* stored after a builder read up to their timestamp           *)

rangesVars == <<stored, batches, at, mark, rows, late, tied>>

First(S) == CHOOSE m \in S : \A n \in S : m <= n
Last(S) == CHOOSE m \in S : \A n \in S : n <= m
Rank(S, m) == Cardinality({n \in S : n <= m})

RangesInit ==
  /\ stored = {}
  /\ batches = {}
  /\ at = [w \in Builders |-> "idle"]
  /\ mark = [w \in Builders |-> Origin]
  /\ rows = [w \in Builders |-> {}]
  /\ late = {}
  /\ tied = {}

-----------------------------------------------------------------------------
(* nextMessages.                                                           *)

After(mk) == {m \in stored : m > mk}

Scan(mk) == {m \in After(mk) : Rank(After(mk), m) <= EqualLimit + 1}

Bounded(mk) ==
  {m \in Scan(mk) : TimeOf[m] <= TimeOf[First(Scan(mk))] + Window}

(* Mutants of NextMessages: no extension; paging by the timestamp alone.   *)
NextMessagesUnextended(mk) == {m \in Bounded(mk) : Rank(Bounded(mk), m) <= Limit}

NextMessagesByTime(mk) ==
  {m \in Bounded(mk) :
     /\ Rank(Bounded(mk), m) <= EqualLimit
     /\ mk # Origin => TimeOf[m] > TimeOf[mk]}

(* The first Limit, and those of the last one's timestamp up to EqualLimit. *)
NextMessages(mk) ==
  {m \in Bounded(mk) :
     \/ Rank(Bounded(mk), m) <= Limit
     \/ /\ Rank(Bounded(mk), m) <= EqualLimit
        /\ \E n \in Bounded(mk) : Rank(Bounded(mk), n) = Limit /\ TimeOf[n] = TimeOf[m]}

-----------------------------------------------------------------------------
(* Read by somebody already: a batch or a builder has messages beyond.     *)
ReadBeyond(m) ==
  \/ \E b \in batches : m < Last(b.sources)
  \/ \E w \in Builders : at[w] = "insert" /\ m < Last(rows[w])

ReadUpTo(m) ==
  \/ \E b \in batches : TimeOf[m] <= TimeOf[Last(b.sources)]
  \/ \E w \in Builders : at[w] = "insert" /\ TimeOf[m] <= TimeOf[Last(rows[w])]

Store(m) ==
  /\ m \notin stored
  /\ stored' = stored \cup {m}
  /\ late' = IF ReadBeyond(m) THEN late \cup {m} ELSE late
  /\ tied' = IF ReadUpTo(m) THEN tied \cup {m} ELSE tied
  /\ UNCHANGED <<batches, at, mark, rows>>

(* hasOutstandingRange: anything that is not complete, dead ones as well.  *)
HasOutstanding == \E b \in batches : b.state # "complete"

CheckOutstanding(w) ==
  /\ at[w] = "idle"
  /\ ~HasOutstanding
  /\ at' = [at EXCEPT ![w] = "watermark"]
  /\ UNCHANGED <<stored, batches, mark, rows, late, tied>>

RangeStates == {"ready", "complete", "dead"}

Lasts(state) == {Last(b.sources) : b \in {o \in batches : o.state \in state}}

(* Mutant of Watermark: of the oldest.                                     *)
WatermarkOfOldest == LET L == Lasts({"complete"}) IN IF L = {} THEN Origin ELSE First(L)

(* Mutant of Watermark: of any batch, whatever became of it.               *)
WatermarkOfAny == LET L == Lasts(RangeStates) IN IF L = {} THEN Origin ELSE Last(L)

(* completedWatermark.                                                     *)
Watermark == LET L == Lasts({"complete"}) IN IF L = {} THEN Origin ELSE Last(L)

ReadWatermark(w) ==
  /\ at[w] = "watermark"
  /\ mark' = [mark EXCEPT ![w] = Watermark]
  /\ at' = [at EXCEPT ![w] = "messages"]
  /\ UNCHANGED <<stored, batches, rows, late, tied>>

ReadMessages(w) ==
  /\ at[w] = "messages"
  /\ rows' = [rows EXCEPT ![w] = NextMessages(mark[w])]
  /\ at' = [at EXCEPT ![w] = IF NextMessages(mark[w]) = {} THEN "idle" ELSE "insert"]
  /\ UNCHANGED <<stored, batches, mark, late, tied>>

SameRange(S, T) == First(S) = First(T) /\ Last(S) = Last(T)

(* Mutant of Duplicate: without the index on the predecessor.              *)
DuplicateRange(w) == \E b \in batches : SameRange(b.sources, rows[w])

(* uniq_memory_batch_predecessor and uniq_memory_batch_range.              *)
Duplicate(w) ==
  \E b \in batches : b.pred = mark[w] \/ SameRange(b.sources, rows[w])

(* A duplicate key is another builder's success.                           *)
Materialize(w) ==
  /\ at[w] = "insert"
  /\ batches' = IF Duplicate(w) THEN batches
       ELSE batches \cup {[pred |-> mark[w], sources |-> rows[w], state |-> "ready"]}
  /\ at' = [at EXCEPT ![w] = "idle"]
  /\ rows' = [rows EXCEPT ![w] = {}]
  /\ UNCHANGED <<stored, mark, late, tied>>

(* An error of the database, or the worker dies.                           *)
Abandon(w) ==
  /\ at[w] # "idle"
  /\ at' = [at EXCEPT ![w] = "idle"]
  /\ rows' = [rows EXCEPT ![w] = {}]
  /\ UNCHANGED <<stored, batches, mark, late, tied>>

(* MemoryBatches: every batch ends one way or the other.                   *)
Resolve(b, state) ==
  /\ b.state = "ready"
  /\ batches' = (batches \ {b}) \cup {[b EXCEPT !.state = state]}
  /\ UNCHANGED <<stored, at, mark, rows, late, tied>>

BuildRange(w) ==
  \/ CheckOutstanding(w) \/ ReadWatermark(w) \/ ReadMessages(w) \/ Materialize(w)

RangesNext ==
  \/ \E m \in Messages : Store(m)
  \/ \E w \in Builders : BuildRange(w) \/ Abandon(w)
  \/ \E b \in batches : Resolve(b, "complete") \/ Resolve(b, "dead")

RangesSpec == RangesInit /\ [][RangesNext]_rangesVars

(* The worker looks every 30 seconds, no step fails every time a builder   *)
(* tries it (hence strong fairness), and a batch is resolved               *)
(* (MemoryBatches).                                                        *)
RangesFairness ==
  /\ WF_rangesVars(\E w \in Builders : CheckOutstanding(w))
  /\ SF_rangesVars(\E w \in Builders : ReadWatermark(w))
  /\ SF_rangesVars(\E w \in Builders : ReadMessages(w))
  /\ SF_rangesVars(\E w \in Builders : Materialize(w))
  /\ WF_rangesVars(\E b \in batches : Resolve(b, "complete") \/ Resolve(b, "dead"))

RangesFairSpec == RangesSpec /\ RangesFairness

-----------------------------------------------------------------------------
(* Types, and the size of a range.                                         *)
RangesTypeOK ==
  /\ stored \subseteq Messages
  /\ late \subseteq stored /\ tied \subseteq stored
  /\ batches \subseteq [pred : Messages \cup {Origin}, sources : SUBSET stored, state : RangeStates]
  /\ \A b \in batches : b.sources # {} /\ Cardinality(b.sources) <= EqualLimit
  /\ at \in [Builders -> {"idle", "watermark", "messages", "insert"}]
  /\ mark \in [Builders -> Messages \cup {Origin}]
  /\ rows \in [Builders -> SUBSET stored]

(* The ranges follow each other: each begins after its predecessor, which  *)
(* is the end of another one, and no two overlap, whatever builders ran at *)
(* the same time. So no message is summarised twice.                       *)
RangesFollowEachOther ==
  \A b \in batches :
    /\ b.pred # Origin => \E o \in batches : b.pred = Last(o.sources)
    /\ b.pred < First(b.sources)
    /\ \A o \in batches \ {b} :
         Last(b.sources) < First(o.sources) \/ Last(o.sources) < First(b.sources)

(* A group has one outstanding batch at most, so its ranges complete in    *)
(* the order of the messages.                                              *)
OneOutstanding ==
  /\ \A b, o \in batches : b.state # "complete" /\ o.state # "complete" => b = o
  /\ \A b, o \in batches : b.state # "complete" => Last(o.sources) <= Last(b.sources)

(* The batches of a group are one chain, of which the last may be open.    *)
RangeInv == RangesTypeOK /\ RangesFollowEachOther /\ OneOutstanding

(* The messages of the ranges, as MemoryContract sees them.                *)
SourcesIn(state) == UNION {b.sources : b \in {o \in batches : o.state = state}}

RangeContract == INSTANCE MemoryContract WITH
  Groups <- {"group"},
  open <- [g \in {"group"} |-> SourcesIn("ready")],
  done <- [g \in {"group"} |-> SourcesIn("complete")],
  lost <- [g \in {"group"} |-> SourcesIn("dead")]

(* Whatever builders read and when, the group's messages are summarised in *)
(* order, one range at a time and each once (MemoryContract): a builder    *)
(* that checked, read and waited never opens a range beside an open or a   *)
(* dead one, nor one that overlaps what is done.                           *)
RangesImplementMemory == RangeContract!Spec

(* loadMemoryBatch: the messages of a batch, oldest first.                 *)
Loaded(sources) ==
  [i \in 1 .. Cardinality(sources) |-> CHOOSE m \in sources : Rank(sources, m) = i]

(* What becomes of a batch's messages: the prompt shows them in order and  *)
(* within its room, and what is remembered rests on what it showed.        *)
BatchesAreRead ==
  \A b \in batches :
    /\ PromptIsFaithful(Loaded(b.sources))
    /\ FactsAreSupported(Loaded(b.sources), ModelClaims)


(* Every message up to the watermark is in a batch, unless it was stored   *)
(* after somebody had read beyond it: boundaries of windows, limits and    *)
(* runs of equal timestamps lose nothing.                                  *)
NothingSkipped ==
  \A m \in stored \ late : \A b \in batches :
    m <= Last(b.sources) => \E o \in batches : m \in o.sources

(* Messages of one second stay in one batch if they were all there when it *)
(* was read and there is room (the extension up to EqualLimit).            *)
EqualRowsTogether ==
  \A b \in batches : \A m \in stored \ tied :
    TimeOf[m] = TimeOf[Last(b.sources)] /\ Last(b.sources) < m =>
      Cardinality(b.sources) >= EqualLimit

(* No message waits for ever: again and again, every one is in a batch, or *)
(* was stored late, or an earlier batch of the group is dead: a dead one   *)
(* is outstanding for ever.                                                *)
EveryMessageIsBatched ==
  []<>(\A m \in stored : \/ m \in late
                         \/ \E b \in batches : m \in b.sources \/ b.state = "dead")
=============================================================================
