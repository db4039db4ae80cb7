----------------------------- MODULE MCGroupSync -----------------------------
(* Small instances of GroupSync for TLC.                                   *)
EXTENDS GroupSync
=============================================================================
