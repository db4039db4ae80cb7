---------------------------- MODULE MemoryPrompt ----------------------------
(***************************************************************************)
(* What the model is shown of a batch, and what is kept of its answer      *)
(* (memory/summarize.ts, completeMemoryBatch). A text is the sequence of   *)
(* the lengths its scalars have once they are escaped; a message is shown  *)
(* in an envelope of a length of its own. Pure operators.                  *)
(***************************************************************************)
EXTENDS Integers, Sequences

CONSTANTS
  TextOf,     (* the text of each message                                  *)
  TextCap,    (* MAX_MESSAGE_SCALARS                                       *)
  PromptRoom, (* MAX_BATCH_SCALARS                                         *)
  Envelope,   (* the length of an envelope without text                    *)
  Mark        (* the length of the mark of one that was cut                *)

ASSUME PromptAssumption ==
  /\ {TextCap, PromptRoom, Envelope, Mark} \subseteq Nat
  /\ \A m \in DOMAIN TextOf : TextOf[m] \in Seq(Nat)

Smaller(a, b) == IF a < b THEN a ELSE b

SumOf(numbers) ==
  LET upto[k \in 0 .. Len(numbers)] == IF k = 0 THEN 0 ELSE upto[k - 1] + numbers[k]
  IN upto[Len(numbers)]

(* truncateScalars                                                         *)
TruncateScalars(text, most) == SubSeq(text, 1, Smaller(Len(text), most))

(* formatUntrustedEnvelope                                                 *)
Length(text, cut) == Envelope + SumOf(text) + (IF cut THEN Mark ELSE 0)

(* One message: its text, cut to what one may have, then once more to what *)
(* is left if its envelope is too long for that. The first one that does   *)
(* not fit all the same ends the prompt.                                   *)
WithMessage(sofar, m) ==
  LET separator == IF sofar.rows = <<>> THEN 0 ELSE 1
      room      == sofar.remaining - separator
      capped    == TruncateScalars(TextOf[m], Smaller(TextCap, sofar.remaining))
      isCut     == capped # TextOf[m]
      excess    == Length(capped, TRUE) - room
      fits      == Length(capped, isCut) <= room
      text      == IF fits THEN capped
                   ELSE TruncateScalars(capped, Len(capped) - Smaller(excess, Len(capped)))
      cut       == isCut \/ ~fits
      left      == room - Length(text, cut)
  IN IF sofar.full \/ sofar.remaining <= 0 \/ left < 0
     THEN [sofar EXCEPT !.full = TRUE]
     ELSE [sofar EXCEPT !.rows = Append(@, [of |-> m, text |-> text, cut |-> cut]),
                        !.remaining = left]

(* buildMemoryEnvelopes                                                    *)
NoEnvelopes == [rows |-> <<>>, remaining |-> PromptRoom, full |-> FALSE]

Envelopes(messages) ==
  LET upto[k \in 0 .. Len(messages)] ==
        IF k = 0 THEN NoEnvelopes ELSE WithMessage(upto[k - 1], messages[k])
  IN upto[Len(messages)].rows

LengthOfRow(rows, i) ==
  Length(rows[i].text, rows[i].cut) + (IF i = 1 THEN 0 ELSE 1)

PromptLength(rows) == SumOf([i \in 1 .. Len(rows) |-> LengthOfRow(rows, i)])

Shown(rows) == {rows[i].of : i \in DOMAIN rows}

(* Mutant of ValidCitations: one citation that was shown is enough.        *)
ValidCitationsAny(claims, ids) == {k \in DOMAIN claims : claims[k].cites \cap ids # {}}

(* validCitations: the places of the claims that are kept.                 *)
ValidCitations(claims, ids) == {k \in DOMAIN claims : claims[k].cites \subseteq ids}

(* The places of the facts that are stored: of those kept that say the     *)
(* same, the first.                                                        *)
StoredFacts(claims, kept) ==
  {k \in kept : \A j \in kept : j < k => claims[j].says # claims[k].says}

-----------------------------------------------------------------------------
(* The prompt keeps to its room however texts escape, shows the batch from *)
(* its beginning and without a gap, and says of every text whether it is   *)
(* all there.                                                              *)
PromptIsFaithful(messages) ==
  LET rows == Envelopes(messages) IN
  /\ PromptLength(rows) <= PromptRoom
  /\ Len(rows) <= Len(messages)
  /\ \A i \in DOMAIN rows :
       /\ rows[i].of = messages[i]
       /\ rows[i].cut <=> rows[i].text # TextOf[messages[i]]
       /\ rows[i].text = TruncateScalars(TextOf[messages[i]], Len(rows[i].text))

(* Whatever the model claims, a fact is stored once, and only on messages  *)
(* the model was shown; one that was claimed on those is not lost.         *)
FactsAreSupported(messages, claims) ==
  LET shown == Shown(Envelopes(messages))
      facts == StoredFacts(claims, ValidCitations(claims, shown))
  IN /\ \A k \in facts : claims[k].cites \subseteq shown
     /\ \A i, j \in facts : claims[i].says = claims[j].says => i = j
     /\ \A k \in DOMAIN claims : claims[k].cites \subseteq shown =>
          \E i \in facts : claims[i].says = claims[k].says
=============================================================================
