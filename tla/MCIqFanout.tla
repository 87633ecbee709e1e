----------------------------- MODULE MCIqFanout -----------------------------
(* TLC instance of IqFanout: two IQ clients and the rtl_tcp client. *)
EXTENDS IqFanout

MCClients == {1, 2}
=============================================================================
