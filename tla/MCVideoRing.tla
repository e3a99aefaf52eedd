---------------------------- MODULE MCVideoRing ----------------------------
(***************************************************************************)
(* VideoRing for TLC.  MaxSeq bounds the frames the encoder offers and     *)
(* MaxSession the sessions; neither stands for anything in the code.       *)
(***************************************************************************)
EXTENDS VideoRing
=============================================================================
