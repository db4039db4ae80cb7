--------------------------- MODULE MCIngestQueue ---------------------------
(* Small instances of IngestQueue for TLC.                                 *)
EXTENDS IngestQueue

CONSTANTS photo, text, more, first, again, other, last

(* A photograph that is delivered twice, and two texts.                    *)
Posts == [d \in Deliveries |-> IF d \in {first, again} THEN photo
                              ELSE IF d = other THEN text ELSE more]
=============================================================================
