------------------------- MODULE MCSignalingServer -------------------------
(***************************************************************************)
(* SignalingServer on small instances: symmetry sets for the safety runs.  *)
(***************************************************************************)
EXTENDS SignalingServer, TLC

Symmetry == Permutations(Sessions) \union Permutations(RoomIds)
=============================================================================
