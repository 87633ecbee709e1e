----------------------------- MODULE TxControl -----------------------------
(***************************************************************************)
(* The ownership controller of src/src/tx_control.c as a state machine:    *)
(* every public operation is one action, called in any order by the two    *)
(* network wrappers (tune_control.c, network_tx.c), by the PTT edges of    *)
(* the radio and by the watchdog tick of the daemon's loop.                *)
(***************************************************************************)
EXTENDS TxControlOps, Integers

CONSTANTS
  Timeouts,         \* maximum-key times set_timeout accepts
  DefaultTimeout,   \* the one the daemon starts with
  LoopMs            \* the longest time between two watchdog ticks

ASSUME TimeoutsAssumption ==
  /\ Timeouts \subseteq Nat \ {0}
  /\ DefaultTimeout \in Timeouts

ASSUME LoopAssumption == LoopMs \in Nat

VARIABLES
  ctl,      \* struct flex1500_tx_control
  radio,    \* what the callbacks left in the hardware
  lag       \* time since the daemon's loop last called tick

vars == <<ctl, radio, lag>>

(* The operations' callers: Tune, general network TX, and the unused owner. *)
NetworkOwners == Owners \ {"PHYSICAL_MIC"}

TypeOK ==
  /\ ctl \in Control /\ ctl.maximum_key_ms \in Timeouts
  /\ radio \in Radio
  /\ lag \in 0..LoopMs

Init ==
  /\ \E enabled \in BOOLEAN : ctl = Fresh(enabled, DefaultTimeout)
  /\ radio = [key |-> FALSE, overlap |-> FALSE]
  /\ lag = 0

(* The step takes one of the outcomes of an operation. *)
Take(outcomes) ==
  \E o \in outcomes : ctl' = o.c /\ radio' = o.radio

(* The header allows arming only once the radio is back in receive. *)
DoArm ==
  /\ ~radio.key
  /\ ctl' = ArmPhysicalPtt(ctl)
  /\ UNCHANGED <<radio, lag>>

DoRequest(owner) == Take(Request(ctl, radio, owner)) /\ UNCHANGED lag

DoRelease(owner) == Take(Release(ctl, radio, owner)) /\ UNCHANGED lag

DoPtt(pressed) == Take(PhysicalPtt(ctl, radio, pressed)) /\ UNCHANGED lag

DoTick == Take(Tick(ctl, radio)) /\ lag' = 0

DoSetTimeout(ms) ==
  /\ ctl' = SetTimeout(ctl, ms, Timeouts)
  /\ UNCHANGED <<radio, lag>>

(* flex1500_tx_control_shutdown *)
DoShutdown == Take(StopOwner(ctl, radio)) /\ UNCHANGED lag

(***************************************************************************)
(* USB recovery in serve_live_rx_at: shut down, reopen and re-initialise   *)
(* the radio, build a fresh controller that keeps the timeout, arm it.     *)
(* INITIALIZE is taken to return the radio to receive.                     *)
(***************************************************************************)
DoRecover ==
  /\ \E o \in StopOwner(ctl, radio) :
        LET fresh == Fresh(o.c.enabled, o.c.maximum_key_ms)
        IN  /\ ctl' = IF o.c.enabled THEN ArmPhysicalPtt(fresh) ELSE fresh
            /\ radio' = [o.radio EXCEPT !.key = FALSE]
  /\ lag' = 0

Elapse(d) ==
  /\ lag + d <= LoopMs
  /\ lag' = lag + d
  /\ ctl' = Aged(ctl, d)
  /\ UNCHANGED radio

Next ==
  \/ DoArm
  \/ \E owner \in NetworkOwners : DoRequest(owner) \/ DoRelease(owner)
  \/ \E pressed \in BOOLEAN : DoPtt(pressed)
  \/ DoTick
  \/ \E ms \in Timeouts : DoSetTimeout(ms)
  \/ DoShutdown
  \/ DoRecover
  \/ \E d \in 1..LoopMs : Elapse(d)

Spec == Init /\ [][Next]_vars

-----------------------------------------------------------------------------
(* A radio left keyed with nobody owning it is never mistaken for receive: *)
(* stop_owner and the rollback of request end FAULTED whenever the         *)
(* callbacks could not confirm SET_TR(0).                                  *)
NoSilentCarrier ==
  radio.key /\ ctl.owner = "NONE" => ctl.state = "FAULTED"

(* No start callback ever runs on a radio that is already keyed: a press   *)
(* of the microphone unkeys the other owner first, and a controller whose  *)
(* clean-up failed starts nothing (physical_ptt and request).              *)
NeverKeyedTwice == ~radio.overlap

(* The maximum-key watchdog: no owner stays on the air longer than the     *)
(* configured maximum plus one turn of the daemon's loop.                  *)
KeyTimeBounded ==
  ctl.owner # "NONE" => ctl.key_ms < ctl.maximum_key_ms + LoopMs

(* The microphone owns the transmitter only while its button is held and   *)
(* after the controller was armed.                                         *)
MicrophoneHeld ==
  ctl.owner = "PHYSICAL_MIC" =>
    ctl.physical_ptt_pressed /\ ctl.physical_ptt_armed

(* FAULTED is left only by a recovery that has unkeyed the radio: no call  *)
(* of a client, PTT edge or timer turns a faulted controller into one that *)
(* transmits or claims to receive.                                         *)
LeavesFault ==
  ctl.state = "FAULTED" /\ ctl'.state # "FAULTED" =>
    ctl'.owner = "NONE" /\ ~radio'.key

FaultLatched == [][LeavesFault]_vars
=============================================================================
