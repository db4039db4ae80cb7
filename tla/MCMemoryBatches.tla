-------------------------- MODULE MCMemoryBatches --------------------------
(* Small instances of MemoryBatches for TLC.                               *)
EXTENDS MemoryBatches

CONSTANT family

(* Batches of one group follow each other.                                 *)
OneGroup == [b \in Batches |-> family]
=============================================================================
