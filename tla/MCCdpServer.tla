----------------------------- MODULE MCCdpServer -----------------------------
(* CdpServer for TLC.  Its runs check liveness properties, for which symmetry *)
(* would be unsound, so the .cfg files say all there is to say.               *)
EXTENDS CdpServer
=============================================================================
