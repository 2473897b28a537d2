-------------------------- MODULE BridgeRefinement --------------------------
(***************************************************************************)
(* The bridge implements CallContract: what is owed is what the tracker    *)
(* holds, and everything the lanes, readers and timers do between taking a *)
(* call and settling it is invisible to the client.                        *)
(***************************************************************************)
EXTENDS BridgeProps

Contract == INSTANCE CallContract WITH
  Calls <- Tokens,
  open <- session # "closed",
  wire <- idOf,
  owed <- {awaiting[i].tok : i \in Outstanding},
  replies <- answers

\* Every step of the session is a step of the contract or invisible in it: no
\* call is accepted under an id that is owed, settled twice, or dropped before
\* the session closes.
ContractKept == Contract!Spec
=============================================================================
