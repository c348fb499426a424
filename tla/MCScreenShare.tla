--------------------------- MODULE MCScreenShare ---------------------------
(***************************************************************************)
(* ScreenShare on small instances.                                         *)
(***************************************************************************)
EXTENDS ScreenShare, TLC

Symmetry == Permutations(RoomIds)
=============================================================================
