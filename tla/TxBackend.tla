----------------------------- MODULE TxBackend -----------------------------
(***************************************************************************)
(* What flex1500_tx_control may rely on when it calls its start and stop   *)
(* callbacks (include/flex1500/tx_control.h): the contract TxControlOps    *)
(* states as StartOutcomes, StopOutcomes and RollbackOutcomes, unfolded    *)
(* into the course of one call.  UsbTx implements it.                      *)
(*                                                                         *)
(*   REST      the controller may start an owner                           *)
(*   STARTING  inside the start callback                                   *)
(*   OWNED     the start callback returned success                         *)
(*   STOPPING  inside the stop callback of an owner                        *)
(*   FAILED    the start callback failed; the rollback stop is still due   *)
(*   DOWN      faulted, or the USB device is closed                        *)
(***************************************************************************)
VARIABLES
  key,     \* the transmitter is on the air
  call

vars == <<key, call>>

Init == key = FALSE /\ call = "DOWN"

(* Only a start raises the key. *)
Falls == key' \in BOOLEAN /\ (key' => key)

Recover == call = "DOWN" /\ call' = "REST" /\ key' = key

BeginStart == call = "REST" /\ call' = "STARTING" /\ key' = key

Starting == call = "STARTING" /\ call' = "STARTING" /\ key' \in BOOLEAN

Started == call = "STARTING" /\ call' = "OWNED" /\ key /\ key'

StartFailed == call \in {"REST", "STARTING"} /\ call' = "FAILED" /\ key' = key

RolledBack == call = "FAILED" /\ call' = "DOWN" /\ Falls

BeginStop == call = "OWNED" /\ call' = "STOPPING" /\ key' = key

Stopping == call = "STOPPING" /\ call' = "STOPPING" /\ Falls

Stopped == call = "STOPPING" /\ call' = "REST" /\ ~key /\ ~key'

StopFailed == call = "STOPPING" /\ call' = "DOWN" /\ key' = key

(* The device goes away between two calls. *)
Close == call \in {"REST", "DOWN"} /\ call' = "DOWN" /\ key' = key

(* The radio is switched off and on while nobody uses it. *)
PowerCycle == call = "DOWN" /\ call' = "DOWN" /\ key' = FALSE

Next ==
  \/ Recover \/ BeginStart \/ Starting \/ Started \/ StartFailed
  \/ RolledBack \/ BeginStop \/ Stopping \/ Stopped \/ StopFailed \/ Close
  \/ PowerCycle

Spec == Init /\ [][Next]_vars
=============================================================================
