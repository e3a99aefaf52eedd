---------------------------- MODULE MCDetection ----------------------------
(***************************************************************************)
(* Instances of Detection for TLC.                                         *)
(***************************************************************************)
EXTENDS Detection
=============================================================================
