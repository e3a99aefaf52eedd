---------------------------- MODULE MCMediaSend ----------------------------
(***************************************************************************)
(* Instances of MediaSend for TLC.                                         *)
(***************************************************************************)
EXTENDS MediaSend
=============================================================================
