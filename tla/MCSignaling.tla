---------------------------- MODULE MCSignaling ----------------------------
(***************************************************************************)
(* Instances of Signaling for TLC.                                         *)
(***************************************************************************)
EXTENDS Signaling, TLC

Symmetry == Permutations(Viewers)
=============================================================================
