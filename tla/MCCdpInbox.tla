----------------------------- MODULE MCCdpInbox -----------------------------
(* CdpInbox for TLC.  Its run checks liveness properties, for which symmetry  *)
(* would be unsound, so the .cfg files say all there is to say.               *)
EXTENDS CdpInbox
=============================================================================
