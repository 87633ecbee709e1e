--------------------------- MODULE MCBridgeClient ---------------------------
(***************************************************************************)
(* TLC instance of the companion client: the bridge, and the sample ring   *)
(* between two of its threads.  The two modules share no state, so that    *)
(* their product shows nothing that each does not show alone: one moves    *)
(* only while the other is in its initial state.                           *)
(***************************************************************************)
EXTENDS BridgeClient, AudioRing

MCInit == Init /\ RingInit

BridgeMoves == RingInit /\ Next /\ UNCHANGED ringVars

RingMoves == Init /\ RingNext /\ UNCHANGED vars

MCSpec ==
  /\ MCInit
  /\ [][BridgeMoves \/ RingMoves]_<<vars, ringVars>>
  /\ Fairness
=============================================================================
