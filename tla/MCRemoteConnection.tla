------------------------- MODULE MCRemoteConnection -------------------------
(* A window with its two connections; three sockets: an old one that lingers, *)
(* one of an attempt that is given up, and the one of the next attempt.       *)
EXTENDS RemoteConnection
=============================================================================
