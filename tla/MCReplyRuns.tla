----------------------------- MODULE MCReplyRuns -----------------------------
(* Small instances of ReplyRuns for TLC.                                   *)
EXTENDS ReplyRuns, TLC

Symmetry == Permutations(Callbacks)
=============================================================================
