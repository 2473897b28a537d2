------------------------------ MODULE MCBridge ------------------------------
(***************************************************************************)
(* Instances of the bridge for TLC.  Wire ids are interchangeable.         *)
(***************************************************************************)
EXTENDS BridgeRefinement, TLC

SymmetricIds == Permutations(Ids)

=============================================================================
