----------------------------- MODULE MCTxAudio ------------------------------
(* TLC instance of TxAudio. *)
EXTENDS TxAudio
=============================================================================
