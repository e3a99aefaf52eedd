--------------------------- MODULE MCPeerSession ---------------------------
(***************************************************************************)
(* Instances of PeerSession for TLC.                                       *)
(***************************************************************************)
EXTENDS PeerSession
=============================================================================
