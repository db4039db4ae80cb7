--------------------------- MODULE MCSendRequests ---------------------------
(* Small instances of SendRequests for TLC.                                *)
EXTENDS SendRequests, TLC

(* Requests, processes and approval handlers are interchangeable.          *)
Symmetry == Permutations(Sends) \cup Permutations(Workers)
              \cup Permutations(Approvers)
=============================================================================
