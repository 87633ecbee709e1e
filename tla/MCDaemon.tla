------------------------------ MODULE MCDaemon ------------------------------
(* TLC instance of Daemon.  A Tune is timed out first by its lease, by the *)
(* maximum-key time or by its hard limit, as the time is configured.       *)
EXTENDS Daemon

MCTimeouts == {HardMs - 1, HardMs + 1}
=============================================================================
