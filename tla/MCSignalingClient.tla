------------------------- MODULE MCSignalingClient -------------------------
(***************************************************************************)
(* SignalingClient on small instances.                                     *)
(***************************************************************************)
EXTENDS SignalingClient
=============================================================================
