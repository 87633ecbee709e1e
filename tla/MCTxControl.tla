---------------------------- MODULE MCTxControl ----------------------------
(***************************************************************************)
(* TLC instance of TxPolicy, and so of TxControl: two maximum-key times, a *)
(* loop of 2 units, and dials below, at and above what the rules for raw   *)
(* I/Q, AM and the sidebands turn on.                                      *)
(***************************************************************************)
EXTENDS TxPolicy

MCTimeouts == {3, 5}

(* Out of range; a 60 m channel; of 40 m the lower edge, the lowest AM     *)
(* carrier and the highest raw I/Q centre; a frequency in no allocation.   *)
MCRequested == {54000001, 5346500, 7000000, 7003000, 7276000, 10000000}

MCTxSettings == {50, 100}
=============================================================================
