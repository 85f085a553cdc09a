------------------------- MODULE MCGatewayApprovals -------------------------
(***************************************************************************)
(* Instances of GatewayApprovals for TLC.                                  *)
(***************************************************************************)
EXTENDS GatewayApprovals, TLC

HandlerSymmetry == Permutations(Handlers)
=============================================================================
