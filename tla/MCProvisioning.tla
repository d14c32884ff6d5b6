--------------------------- MODULE MCProvisioning ---------------------------
(* A small instance of Provisioning: three calls over two channels, enough *)
(* for a call to be superseded twice, for a superseded call to remove the  *)
(* entry of its successor, and for the channels to interfere if they could.*)
EXTENDS Provisioning, TLC

CONSTANTS r1, r2, r3, c1, c2

MCRequests == {r1, r2, r3}
MCChannels == {c1, c2}
=============================================================================
