------------------------- MODULE MCDedicatedWorker -------------------------
(* DedicatedWorker for TLC: as in MCCdpServer, liveness properties are       *)
(* checked, and the .cfg files say all there is to say.                      *)
EXTENDS DedicatedWorker
=============================================================================
