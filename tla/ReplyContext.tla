---------------------------- MODULE ReplyContext ----------------------------
(***************************************************************************)
(* What one reply puts before the model: the recalled facts and summaries, *)
(* the recent history, and how much of each fits                           *)
(* (memory/recall.ts, api/internal/reply-jobs/route.ts).  Pure operators;  *)
(* ReplyTools is the system that uses them.  A text is its cost in the     *)
(* deployment's token counter; a fact is a record                          *)
(*   [id, batch, text, base, hit, at]                                      *)
(* with base its recency and kind score, hit its text score (0: no match)  *)
(* and at the instant it occurred.                                         *)
(***************************************************************************)
EXTENDS Naturals, Sequences, FiniteSets, SequencesExt

CONSTANTS
  Ceiling,            \* tokens of one model request, its output included
  OutputReserve,      \* the longest output of one generation
  SchemaReserve,      \* tool descriptions
  ResultReserve,      \* all tool results of one reply
  HistoryReserve,     \* the reply's own earlier generations
  StructuralReserve,  \* what a tokenizer does not count
  MessagesMax, SummariesMax, FactsMax,   \* the segments' own maxima
  HeaderCost,         \* the heading of a segment
  MandatoryCost,      \* system prompt and owner request, after clipping
  SummaryLimit, TextFactLimit, RecentFactLimit, HistoryLimit

Least(a, b) == IF a < b THEN a ELSE b

(***************************************************************************)
(* Recall                                                                  *)
(***************************************************************************)
\* What a query that sorts by better(_, _) and returns at most n may return:
\* what is equally good comes in any order.
FirstOf(S, n, better(_, _)) ==
  {q \in [1 .. Least(n, Cardinality(S)) -> S] :
     /\ \A i, j \in DOMAIN q : i < j => q[i] # q[j] /\ ~better(q[j], q[i])
     /\ \A x \in S \ ToSet(q), i \in DOMAIN q : ~better(x, q[i])}

\* Three queries with the same scope; each sees what is stored when it runs.
RecentSummaries(summaries) ==
  FirstOf(summaries, SummaryLimit, LAMBDA s, t : s.at > t.at)
TextMatchingFacts(facts) ==
  {ToSet(q) : q \in FirstOf({f \in facts : f.hit > 0}, TextFactLimit, LAMBDA f, g : f.hit > g.hit)}
RecentFacts(facts) ==
  {ToSet(q) : q \in FirstOf(facts, RecentFactLimit, LAMBDA f, g : f.at > g.at)}

\* A fact only the recent branch found carries no text score.
FactScore(f, hits) == f.base + (IF f \in hits THEN f.hit ELSE 0)

\* By score, equal scores by id.
RanksAbove(f, g, hits) ==
  \/ FactScore(f, hits) > FactScore(g, hits)
  \/ FactScore(f, hits) = FactScore(g, hits) /\ f.id < g.id

\* Mutant: a text is only compared with the fact ranked just before it.
RankFactsAdjacent(hits, recent) ==
  LET better(f, g) == RanksAbove(f, g, hits)
      all          == hits \cup recent
      kept         == {f \in all : \A g \in all :
                         g.text = f.text /\ better(g, f) => \E h \in all : better(g, h) /\ better(h, f)}
  IN FirstOf(kept, TextFactLimit + RecentFactLimit, better)

\* The union in the order of rank; of equal texts only the best.
RankFacts(hits, recent) ==
  LET better(f, g) == RanksAbove(f, g, hits)
      all          == hits \cup recent
      kept         == {f \in all : \A g \in all : g.text = f.text => ~better(g, f)}
  IN FirstOf(kept, TextFactLimit + RecentFactLimit, better)

(***************************************************************************)
(* Assembly                                                                *)
(***************************************************************************)
Reserves == SchemaReserve + ResultReserve + HistoryReserve
            + StructuralReserve + OutputReserve

Content == Ceiling - Reserves

\* Every retained item costs one token more, for its line end.
Total(costs) == Cardinality(UNION {{i} \X (0 .. costs[i]) : i \in DOMAIN costs})

Spent(costs, n) == IF n = 0 THEN 0 ELSE HeaderCost + Total(SubSeq(costs, 1, n))

\* n is how many items one segment takes: the first that fits neither its own
\* maximum nor the rest of the content's share ends it, whatever comes after;
\* none where not even the heading fits.
Fills(n, costs, segmentMax, used) ==
  LET fits(k) == HeaderCost + Total(SubSeq(costs, 1, k))
                   <= Least(HeaderCost + segmentMax, Content - used)
  IN /\ n \in 0 .. Len(costs)
     /\ \A k \in 1 .. n : fits(k)
     /\ n < Len(costs) => ~fits(n + 1)

Most == HistoryLimit + SummaryLimit + TextFactLimit + RecentFactLimit

CostsOf(items) == [i \in DOMAIN items |-> items[i].cost]

\* Messages first, newest first, then summaries, then facts, m, s and f of
\* them.  The segment for tool results is left out: its only caller passes none.
Assembled(history, summaries, facts, m, s, f) ==
  LET newest == Reverse(history)
      withM  == MandatoryCost + Spent(newest, m)
      withS  == withM + Spent(CostsOf(summaries), s)
  IN /\ Fills(m, newest, MessagesMax, MandatoryCost)
     /\ Fills(s, CostsOf(summaries), SummariesMax, withM)
     /\ Fills(f, CostsOf(facts), FactsMax, withS)

\* What the prompt then costs, and the batches it cites.
AssembledPrompt(history, summaries, facts, m, s, f) ==
  [used    |-> MandatoryCost + Spent(Reverse(history), m)
               + Spent(CostsOf(summaries), s) + Spent(CostsOf(facts), f),
   batches |-> {summaries[i].batch : i \in 1 .. s} \cup {facts[i].batch : i \in 1 .. f}]

\* The messages of the chat and what was sent into it, newest last: the newest
\* of each, merged by time, and of those the newest again.  A line is a record
\* [at, cost].
NewestLines(lines) == FirstOf(lines, HistoryLimit, LAMBDA a, b : a.at > b.at)

ContextMessages(said, sent) ==
  UNION {{Reverse(q) : q \in NewestLines(ToSet(a) \cup ToSet(b))} :
           a \in NewestLines(said), b \in NewestLines(sent)}
=============================================================================
