------------------------------ MODULE MCPairing ------------------------------
(* Pairing on a small instance: two wizards, one panel, and the console in containers
   next to Hermes's (docker-compose.yml) or on the host with Hermes's data directory. *)
EXTENDS Pairing

MCDeployments == {[url |-> TRUE, dataDir |-> TRUE], [url |-> FALSE, dataDir |-> TRUE]}
=============================================================================
