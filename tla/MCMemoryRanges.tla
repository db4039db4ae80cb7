--------------------------- MODULE MCMemoryRanges ---------------------------
(* Small instances of MemoryRanges for TLC.                                *)
EXTENDS MemoryRanges

(* A run of three in one second, and one a window later.                   *)
Timestamps == <<1, 2, 2, 2, 6>>
TimesOf == [m \in Messages |-> Timestamps[m]]

(* Texts of one to four scalars, some of which escape to more than one:    *)
(* with the room of the cfg, batches that fit, that are cut and that end   *)
(* early.                                                                  *)
Texts == << <<1, 1, 1, 1>>, <<6, 1>>, <<1, 6, 1>>, <<>>, <<1, 1>> >>
TextsOf == [m \in Messages |-> Texts[m]]

(* The same fact twice, on one message and on two, and one on all.         *)
AllClaims == << [says |-> "rent", cites |-> {1, 2}], [says |-> "rent", cites |-> {2}],
                [says |-> "trip", cites |-> {3, 4}], [says |-> "trip", cites |-> {5}],
                [says |-> "deal", cites |-> Messages] >>
=============================================================================
