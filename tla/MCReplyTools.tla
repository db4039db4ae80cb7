---------------------------- MODULE MCReplyTools ----------------------------
EXTENDS ReplyTools
CONSTANTS first, second, ours, theirs, work

\* The second call is one of those that share state with the first.
MCToolsOf == [c \in {first, second} |->
  IF c = first THEN Tools ELSE {"cancel_scheduled"}]
MCSubject == [g \in {ours, theirs} |-> work]

MCSummaries == {[batch |-> 1, at |-> 1, cost |-> 2], [batch |-> 2, at |-> 2, cost |-> 2]}
MCFacts ==
  {[id |-> 1, batch |-> 1, text |-> "venue", base |-> 1, hit |-> 3, at |-> 1, cost |-> 1],
   [id |-> 2, batch |-> 2, text |-> "venue", base |-> 2, hit |-> 1, at |-> 3, cost |-> 2],
   [id |-> 3, batch |-> 2, text |-> "date",  base |-> 3, hit |-> 0, at |-> 2, cost |-> 1]}
MCBefore == {s \in MCSummaries : s.batch = 1}
MCHistories ==
  {[said |-> {[at |-> 1, cost |-> 1], [at |-> 3, cost |-> 3]}, sent |-> t] :
     t \in {{[at |-> 2, cost |-> 2]}}}

\* Every table of up to two rows and two columns over these cells, and one of
\* more rows and columns than are given.
MCCharacters == {"x", Bom, Comma, Quote, CR, LF}
MCCells == {<<>>, <<"x">>, <<Comma>>, <<Quote>>, <<LF>>, <<Quote, Comma>>, <<"x", Quote, "x">>}
MCRows == {<<a>> : a \in MCCells} \cup {<<a, b>> : a \in MCCells, b \in MCCells}
MCTables == {<<r>> : r \in MCRows} \cup {<<r, t>> : r \in MCRows, t \in MCRows}
            \cup {[i \in 1 .. 4 |-> << <<"x">> >>], << [i \in 1 .. 3 |-> <<"x">>] >>}
MCLineEnds == {<<LF>>, <<CR, LF>>, <<CR>>}
MCMarks == {<<>>, <<Bom>>}
=============================================================================
