--------------------------- MODULE TxControlOps ---------------------------
(***************************************************************************)
(* The exclusive transmitter-ownership controller of src/src/tx_control.c, *)
(* as operators on the value of its struct.                                *)
(*                                                                         *)
(* An operation takes the controller record c and the radio record and     *)
(* returns the SET of its possible outcomes [c, radio, r]: the start and   *)
(* stop callbacks drive hardware that may refuse, so one call has several  *)
(* outcomes.  r is the flex1500_tx_control_result of the call.             *)
(*                                                                         *)
(* The code only ever uses now_ms - started_ms, so the record keeps that   *)
(* difference (key_ms, the time on the air) in place of started_ms.        *)
(***************************************************************************)
EXTENDS Naturals

Owners == {"TUNE", "PHYSICAL_MIC", "HTTP", "SOAPY"}

States == {"STARTUP_INHIBIT", "RX", "PREPARING", "TRANSMITTING", "UNKEYING",
           "RECOVERING", "FAULTED"}

(* struct flex1500_tx_control *)
Control ==
  [enabled : BOOLEAN, physical_ptt_armed : BOOLEAN,
   physical_ptt_pressed : BOOLEAN, cleanup_failed : BOOLEAN,
   owner : Owners \cup {"NONE"}, state : States,
   key_ms : Nat, maximum_key_ms : Nat]

(***************************************************************************)
(* The radio as the controller's callbacks leave it.  key: the last        *)
(* SET_TR that took effect was SET_TR(1).  overlap (history, for checking  *)
(* only): a start callback was once entered while the radio was keyed.     *)
(***************************************************************************)
Radio == [key : BOOLEAN, overlap : BOOLEAN]

(***************************************************************************)
(* The callback contract, from daemon_tx_owner_start, daemon_tx_owner_stop *)
(* and the usb_rx.c entry points they call.  A start that succeeds leaves  *)
(* the radio keyed; one that fails has already run its own clean-up, whose *)
(* SET_TR(0) may itself have failed.  A stop that succeeds has confirmed   *)
(* SET_TR(0); one that fails may or may not have unkeyed.  The stop that   *)
(* follows a failed start finds the attempt flags already cleared: it may  *)
(* report success without having sent anything.                            *)
(***************************************************************************)
CallbackOutcome == [radio : Radio, ok : BOOLEAN]

StartOutcomes(radio) ==
  {o \in CallbackOutcome :
     /\ o.ok => o.radio.key
     /\ o.radio.overlap = (radio.overlap \/ radio.key)}

StopOutcomes(radio) ==
  {o \in CallbackOutcome :
     /\ o.ok => ~o.radio.key
     /\ o.radio.key => radio.key
     /\ o.radio.overlap = radio.overlap}

RollbackOutcomes(radio) ==
  {o \in CallbackOutcome :
     /\ o.radio.key => radio.key
     /\ o.radio.overlap = radio.overlap}

Outcome(c, radio, r) == [c |-> c, radio |-> radio, r |-> r]

Unchanged(c, radio, r) == {Outcome(c, radio, r)}

-----------------------------------------------------------------------------
(* flex1500_tx_control_init *)
Fresh(enabled, maximum_key_ms) ==
  [enabled |-> enabled,
   physical_ptt_armed |-> FALSE,
   physical_ptt_pressed |-> FALSE,
   cleanup_failed |-> FALSE,
   owner |-> "NONE",
   state |-> IF enabled THEN "STARTUP_INHIBIT" ELSE "RX",
   key_ms |-> 0,
   maximum_key_ms |-> maximum_key_ms]

(* flex1500_tx_control_arm_physical_ptt *)
ArmPhysicalPtt(c) ==
  IF ~c.enabled \/ c.owner # "NONE"
  THEN c
  ELSE [c EXCEPT !.physical_ptt_armed = TRUE,
                 !.state = IF @ = "STARTUP_INHIBIT" THEN "RX" ELSE @]

(* Mutant: a failed stop is taken for a success. *)
StopOwner_Unconfirmed(c, radio) ==
  IF c.owner = "NONE"
  THEN Unchanged(c, radio, "OK")
  ELSE {Outcome([c EXCEPT !.cleanup_failed = ~o.ok, !.owner = "NONE",
                          !.key_ms = 0, !.state = "RX"],
                o.radio, IF o.ok THEN "OK" ELSE "HARDWARE_ERROR") :
          o \in StopOutcomes(radio)}

(* stop_owner: the owner is dropped whatever the stop callback reports. *)
StopOwner(c, radio) ==
  IF c.owner = "NONE"
  THEN Unchanged(c, radio, "OK")
  ELSE {Outcome([c EXCEPT !.cleanup_failed = ~o.ok,
                          !.owner = "NONE",
                          !.key_ms = 0,
                          !.state = IF o.ok THEN "RX" ELSE "FAULTED"],
                o.radio,
                IF o.ok THEN "OK" ELSE "HARDWARE_ERROR") :
          o \in StopOutcomes(radio)}

(* Mutant: the test for FAULTED and RECOVERING is missing. *)
RequestRefusal_Faulted(c, owner) ==
  IF ~c.enabled THEN "DISABLED"
  ELSE IF owner \notin Owners THEN "INVALID_OWNER"
  ELSE IF owner = "PHYSICAL_MIC" /\ ~c.physical_ptt_armed THEN "INHIBITED"
  ELSE IF c.owner = owner THEN "OK"
  ELSE IF c.owner # "NONE" THEN "BUSY"
  ELSE "START"

(* The refusals of flex1500_tx_control_request, in the order it tests them. *)
RequestRefusal(c, owner) ==
  IF ~c.enabled THEN "DISABLED"
  ELSE IF owner \notin Owners THEN "INVALID_OWNER"
  ELSE IF owner = "PHYSICAL_MIC" /\ ~c.physical_ptt_armed THEN "INHIBITED"
  ELSE IF c.state \in {"FAULTED", "RECOVERING"} THEN "INHIBITED"
  ELSE IF c.owner = owner THEN "OK"
  ELSE IF c.owner # "NONE" THEN "BUSY"
  ELSE "START"

StartSucceeds(c, owner, radio) ==
  Outcome([c EXCEPT !.cleanup_failed = FALSE,
                    !.owner = owner,
                    !.key_ms = 0,
                    !.state = "TRANSMITTING"],
          radio, "OK")

(* A failed start runs the stop callback and always ends faulted. *)
StartFails(c, radio) ==
  {Outcome([c EXCEPT !.cleanup_failed = ~o.ok, !.state = "FAULTED"],
           o.radio, "HARDWARE_ERROR") :
      o \in RollbackOutcomes(radio)}

(* flex1500_tx_control_request *)
Request(c, radio, owner) ==
  LET refusal == RequestRefusal(c, owner)
  IN  IF refusal # "START"
      THEN Unchanged(c, radio, refusal)
      ELSE UNION {IF o.ok THEN {StartSucceeds(c, owner, o.radio)}
                          ELSE StartFails(c, o.radio) :
                    o \in StartOutcomes(radio)}

(* flex1500_tx_control_release and _release_graceful: they differ only in  *)
(* whether the stop callback drains queued audio before it unkeys.         *)
Release(c, radio, owner) ==
  IF ~c.enabled THEN Unchanged(c, radio, "DISABLED")
  ELSE IF owner \notin Owners THEN Unchanged(c, radio, "INVALID_OWNER")
  ELSE IF c.owner # owner THEN Unchanged(c, radio, "BUSY")
  ELSE StopOwner(c, radio)

(* Mutant: the microphone starts also when the other owner's stop failed. *)
Preempt_Unchecked(c, radio) ==
  IF c.owner \in {"NONE", "PHYSICAL_MIC"}
  THEN Request(c, radio, "PHYSICAL_MIC")
  ELSE UNION {Request([o.c EXCEPT !.state = "RX"], o.radio, "PHYSICAL_MIC") :
                o \in StopOwner(c, radio)}

(* A press: another owner is fully stopped first, and only a stop that     *)
(* succeeded lets the microphone request the transmitter.                  *)
Preempt(c, radio) ==
  IF c.owner \in {"NONE", "PHYSICAL_MIC"}
  THEN Request(c, radio, "PHYSICAL_MIC")
  ELSE UNION {IF o.r = "OK" THEN Request(o.c, o.radio, "PHYSICAL_MIC")
                            ELSE {o} :
                o \in StopOwner(c, radio)}

(* Mutant: a release does not stop the microphone. *)
PhysicalPtt_ReleaseLost(c, radio, pressed) ==
  LET p == [c EXCEPT !.physical_ptt_pressed = pressed]
  IN  IF ~c.enabled THEN Unchanged(c, radio, "DISABLED")
      ELSE IF ~c.physical_ptt_armed
      THEN IF pressed
           THEN Unchanged(p, radio, "INHIBITED")
           ELSE Unchanged([p EXCEPT !.physical_ptt_armed = TRUE], radio, "OK")
      ELSE IF pressed THEN Preempt(p, radio)
      ELSE Unchanged(p, radio, "OK")

(* flex1500_tx_control_physical_ptt *)
PhysicalPtt(c, radio, pressed) ==
  LET p == [c EXCEPT !.physical_ptt_pressed = pressed]
  IN  IF ~c.enabled THEN Unchanged(c, radio, "DISABLED")
      ELSE IF ~c.physical_ptt_armed
      THEN IF pressed
           THEN Unchanged(p, radio, "INHIBITED")
           ELSE Unchanged([p EXCEPT !.physical_ptt_armed = TRUE,
                                    !.state = IF @ = "STARTUP_INHIBIT"
                                              THEN "RX" ELSE @],
                          radio, "OK")
      ELSE IF pressed THEN Preempt(p, radio)
      ELSE IF c.owner = "PHYSICAL_MIC" THEN StopOwner(p, radio)
      ELSE Unchanged(p, radio, "OK")

(* Mutants: the limit is off by one; the microphone is not timed. *)
KeyExpired_Late(c) ==
  /\ c.enabled /\ c.owner # "NONE" /\ c.state = "TRANSMITTING"
  /\ c.maximum_key_ms # 0 /\ c.key_ms > c.maximum_key_ms

KeyExpired_NetworkOnly(c) ==
  /\ c.enabled /\ c.owner \in {"TUNE", "HTTP", "SOAPY"}
  /\ c.state = "TRANSMITTING"
  /\ c.maximum_key_ms # 0 /\ c.key_ms >= c.maximum_key_ms

(* flex1500_tx_control_tick: the maximum-key watchdog. *)
KeyExpired(c) ==
  /\ c.enabled
  /\ c.owner # "NONE"
  /\ c.state = "TRANSMITTING"
  /\ c.maximum_key_ms # 0
  /\ c.key_ms >= c.maximum_key_ms

Tick(c, radio) ==
  IF ~c.enabled THEN Unchanged(c, radio, "DISABLED")
  ELSE IF ~KeyExpired(c) THEN Unchanged(c, radio, "OK")
  ELSE {[o EXCEPT !.r = IF @ = "OK" THEN "MAX_KEY" ELSE @] :
          o \in StopOwner(c, radio)}

(* flex1500_tx_control_set_timeout_seconds *)
SetTimeout(c, ms, Timeouts) ==
  IF c.owner # "NONE" \/ ms \notin Timeouts
  THEN c
  ELSE [c EXCEPT !.maximum_key_ms = ms]

(* Time passing: the difference now_ms - started_ms grows while owned. *)
Aged(c, d) ==
  IF c.owner = "NONE" THEN c ELSE [c EXCEPT !.key_ms = @ + d]
=============================================================================
