------------------------------ MODULE MCUsbTx ------------------------------
(* TLC instance of UsbTx: two dial frequencies in different PA bands. *)
EXTENDS UsbTx, BandPlan

MCFreqs == {7024000, 14100000}

MCPaFilter == [f \in MCFreqs |-> PaFilterFor(f)]

MCRxFilter == [f \in MCFreqs |-> RxFilterFor(f)]

MCGains == {10, 20}
=============================================================================
