------------------------------- MODULE MediaText -------------------------------
(***************************************************************************)
(* How a stored attachment becomes text or an image for the model          *)
(* (mcp/media-tools.ts): the table of a CSV file, and the runs of local    *)
(* programs a document, a picture or a clip takes.  Pure operators;        *)
(* ReplyTools is the system that uses them.  A text is a sequence of       *)
(* characters of which only those the CSV grammar names are told apart.    *)
(***************************************************************************)
EXTENDS Naturals, Sequences, FiniteSets, SequencesExt

CONSTANTS
  Characters,                   \* those a text is made of
  MaxRows, MaxColumns, CellMax, \* bounds on a table: rows after the header
  TableRoom                     \* cells one result has room for

Bom == "bom"
Comma == ","
Quote == "\""
CR == "\r"
LF == "\n"

(***************************************************************************)
(* CSV                                                                     *)
(***************************************************************************)
Added(s, character) == [s EXCEPT !.field = Append(@, character)]

Clipped(cell) == IF Len(cell) > CellMax THEN SubSeq(cell, 1, CellMax) ELSE cell

\* A cell past its length, or past the last column, is cut and said to be.
EndField(s) ==
  [s EXCEPT !.field = <<>>,
            !.row = IF Len(@) < MaxColumns
                    THEN Append(@, Clipped(s.field)) ELSE @,
            !.truncated = @ \/ Len(s.row) >= MaxColumns \/ Len(s.field) > CellMax]

EndRecord(s) ==
  LET ended == EndField(s)
  IN [ended EXCEPT !.row = <<>>,
                   !.records = IF Len(@) < MaxRows + 1 THEN Append(@, ended.row) ELSE @,
                   !.truncated = @ \/ Len(ended.records) >= MaxRows + 1]

\* One character, with the one after it: inside quotes only a quote is
\* special, outside a quote, a comma and the line ends.
NextCharacter(s, character, following) ==
  CASE s.skip -> [s EXCEPT !.skip = FALSE]
    [] ~s.skip /\ s.quoted ->
         CASE character # Quote                        -> Added(s, character)
           [] character = Quote /\ following = Quote -> [Added(s, Quote) EXCEPT !.skip = TRUE]
           [] OTHER                                    -> [s EXCEPT !.quoted = FALSE]
    [] ~s.skip /\ ~s.quoted ->
         CASE character = Quote -> [s EXCEPT !.quoted = TRUE]
           [] character = Comma -> EndField(s)
           [] character \in {CR, LF} ->
                [EndRecord(s) EXCEPT !.skip = character = CR /\ following = LF]
           [] OTHER -> Added(s, character)

\* The reader in state s, after a text; after is the character behind it.
Reading(text, s, after) ==
  LET read[i \in 0 .. Len(text)] ==
        IF i = 0 THEN s
        ELSE NextCharacter(read[i - 1], text[i], IF i < Len(text) THEN text[i + 1] ELSE after)
  IN read[Len(text)]

Between(row, records, truncated) ==
  [field |-> <<>>, row |-> row, records |-> records,
   quoted |-> FALSE, skip |-> FALSE, truncated |-> truncated]

ParseCsv(text) ==
  LET source == IF text # <<>> /\ Head(text) = Bom THEN Tail(text) ELSE text
      read   == Reading(source, Between(<<>>, <<>>, FALSE), Bom)
      last   == IF read.field # <<>> \/ read.row # <<>> THEN EndRecord(read) ELSE read
  IN [records |-> last.records, truncated |-> last.truncated \/ read.quoted]

\* Whole rows go from the end, never the header, until the rest has room.
Cells(records) == FoldLeft(LAMBDA n, row : n + Len(row), 0, records)
FittingTable(table) ==
  LET fitting == {n \in 1 .. Len(table.records) : Cells(SubSeq(table.records, 1, n)) <= TableRoom}
      most    == CHOOSE n \in fitting : \A k \in fitting : k <= n
  IN [ok        |-> table.records = <<>> \/ fitting # {},
      records   |-> IF fitting = {} THEN <<>> ELSE SubSeq(table.records, 1, most),
      truncated |-> table.truncated \/ (fitting # {} /\ most < Len(table.records))]

\* The reference: how a table is written, each cell quoted where it must be,
\* and followed by what separates it from the next or ends its row.
Joined(texts) ==
  LET upto[n \in 0 .. Len(texts)] == IF n = 0 THEN <<>> ELSE upto[n - 1] \o texts[n]
  IN upto[Len(texts)]

Doubled(cell) ==
  [i \in 1 .. Len(cell) |-> IF cell[i] = Quote THEN <<Quote, Quote>> ELSE <<cell[i]>>]

Written(cell) ==
  IF \E i \in 1 .. Len(cell) : cell[i] \in {Comma, Quote, CR, LF}
  THEN <<Quote>> \o Joined(Doubled(cell)) \o <<Quote>> ELSE cell

WrittenRow(row, lineEnd) ==
  Joined([i \in 1 .. Len(row) |-> Written(row[i]) \o (IF i < Len(row) THEN <<Comma>> ELSE lineEnd)])

WrittenTable(table, lineEnd) == Joined([i \in 1 .. Len(table) |-> WrittenRow(table[i], lineEnd)])

\* What reading a table as a file gives: whether it is all there, and what the
\* result says of it.
CsvReading(table, lineEnd, mark) ==
  LET given == FittingTable(ParseCsv(mark \o WrittenTable(table, lineEnd)))
  IN [ok |-> given.ok, short |-> given.records # table, flagged |-> given.truncated]

(***************************************************************************)
(* Programs                                                                *)
(***************************************************************************)
Documents == {"pdf", "docx", "xlsx", "zip"}
Extracted == Documents \cup {"image", "video"}

\* Kinds whose bytes a program reads from a file of its own.
InFile == {"docx", "xlsx", "zip", "video"}

FirstRun == [pdf |-> "pdftotext", docx |-> "body", xlsx |-> "manifest", zip |-> "manifest",
             image |-> "magick", video |-> "probe"]

Stages == {"pdftotext", "body", "manifest", "relations", "sheet", "strings", "magick", "convert",
           "magick jpeg", "convert jpeg", "probe", "frame 1", "frame 2"}
Ends == {"text", "image", "frames", "refused"}

\* What follows the run of one program, by whether it gave anything: another
\* run, or what the read comes to.  got is whether an earlier run of the read
\* gave what is needed.
NextRuns == [to : Stages \cup Ends, got : BOOLEAN]
NextRun(next, stage, got) == next.to = stage /\ next.got = got

\* A workbook's sheet is found through its manifest and its relations, both
\* read before either is looked at; a container without one may hold a document.
NoWorkbook(next, kind) == NextRun(next, IF kind = "zip" THEN "body" ELSE "refused", FALSE)

AfterWorkbook(next, kind, stage, got, good) ==
  \/ stage = "manifest" /\ NextRun(next, "relations", good)
  \/ stage = "relations" /\ got /\ good /\ NextRun(next, "sheet", FALSE)
  \/ stage = "sheet" /\ good /\ NextRun(next, "strings", FALSE)
  \/ stage = "strings" /\ NextRun(next, "text", good)
  \/ /\ stage \in {"relations", "strings"} \/ (stage = "sheet" /\ ~good)
     /\ NoWorkbook(next, kind)

\* The format it is stored in, then one made to fit, each by either program;
\* then the stored bytes, if those fit.
AfterPicture(next, stage, good) ==
  \/ (good \/ stage = "convert jpeg") /\ NextRun(next, "image", TRUE)
  \/ stage = "magick" /\ ~good /\ NextRun(next, "convert", FALSE)
  \/ ((stage = "magick" /\ good) \/ stage = "convert") /\ NextRun(next, "magick jpeg", FALSE)
  \/ stage = "magick jpeg" /\ ~good /\ NextRun(next, "convert jpeg", FALSE)
  \/ ((stage = "magick jpeg" /\ good) \/ stage = "convert jpeg") /\ NextRun(next, "refused", FALSE)

\* The duration, with which or without which frames are taken, one by one.
AfterClip(next, stage, got, good) ==
  \/ stage = "probe" /\ NextRun(next, "frame 1", FALSE)
  \/ stage = "frame 1" /\ NextRun(next, "frame 2", good)
  \/ stage = "frame 2" /\ (got \/ good) /\ NextRun(next, "frames", FALSE)
  \/ stage = "frame 2" /\ NextRun(next, "refused", FALSE)

AfterRun(kind, stage, got, good) ==
  {next \in NextRuns :
     \/ /\ stage \in {"pdftotext", "body"}
        /\ NextRun(next, IF good THEN "text" ELSE "refused", TRUE)
     \/ kind = "image" /\ AfterPicture(next, stage, good)
     \/ kind = "video" /\ AfterClip(next, stage, got, good)
     \/ kind \in {"xlsx", "zip"} /\ AfterWorkbook(next, kind, stage, got, good)}
=============================================================================
