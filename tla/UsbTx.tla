------------------------------- MODULE UsbTx -------------------------------
(***************************************************************************)
(* The transmit half of the USB driver (src/src/usb_rx.c) at the level of  *)
(* single commands to the radio, with the clean-up planner of              *)
(* src/src/tx_lifecycle.c and the order in which tx_control.c and          *)
(* serve_live_rx_at call it.                                               *)
(*                                                                         *)
(* A driver routine is the set `todo` of the steps it has still to take,   *)
(* taken in the order of `Order`.  A command to the radio is delivered,    *)
(* fails without effect, or fails although the radio acted on it (a        *)
(* timeout after the transfer): a start may fail after any prefix.         *)
(***************************************************************************)
EXTENDS Integers, Sequences

CONSTANTS
  Freqs,       \* dial frequencies, in Hz
  Gains,       \* receive gains; the daemon starts with DefaultGain
  DefaultGain,
  PaFilter,    \* flex1500_pa_filter_for_frequency; filter 0 is the bypass
  RxFilter     \* flex1500_rx_filter_for_frequency; filter 0 is the bypass

ASSUME FreqsAssumption == Freqs \subseteq Nat \ {0}

ASSUME GainsAssumption == DefaultGain \in Gains

ASSUME FilterAssumption ==
  PaFilter \in [Freqs -> Nat \ {0}] /\ RxFilter \in [Freqs -> Nat]

VARIABLES
  dev,     \* struct flex1500_usb_rx, its transmit fields
  hw,      \* the radio's registers the commands write
  phase,   \* what tx_control made of the calls so far
  op,      \* the driver routine being executed
  todo,    \* the steps it still has to take
  err,     \* first_error # 0 of flex1500_tx_execute_cleanup
  cleanup_failed,   \* flex1500_tx_control.cleanup_failed
  hist     \* for checking only: commands sent since the last key/amp enable,
           \* whether samples flowed when SET_TR(1) was last sent, and the
           \* dial and gain the user last saw accepted

vars == <<dev, hw, phase, op, todo, err, cleanup_failed, hist>>

-----------------------------------------------------------------------------
StartOrder ==
  <<"PA", "AMP", "STREAM", "PREROLL", "MUTE", "TXFREQ", "KEY", "SETTLE",
    "UNMUTE">>

(* Mutant: the amplifier goes first. *)
CleanupOrder_AmpFirst ==
  <<"C_AMP", "C_MUTE", "C_UNKEY", "C_RESTORE", "C_UNMUTE", "C_PA", "C_STREAM">>

(* The order of flex1500_tx_execute_cleanup. *)
CleanupOrder ==
  <<"C_MUTE", "C_UNKEY", "C_RESTORE", "C_UNMUTE", "C_PA", "C_AMP", "C_STREAM">>

(* Reopening: gain, dial, receive filter, then the transmit preparation.   *)
RestoreOrder ==
  <<"GAIN", "RXFREQ", "RXFILTER", "ANTENNA", "PREP_PA", "PREP_AMP",
    "UNDO_PA", "UNDO_AMP">>

RetuneOrder == <<"T_FREQ", "T_FILTER", "T_PA">>

GainOrder == <<"G_GAIN">>

Order == StartOrder \o CleanupOrder \o RestoreOrder \o RetuneOrder \o GainOrder

Elements(s) == {s[i] : i \in 1..Len(s)}

Steps == Elements(Order)

Rank == [s \in Steps |-> CHOOSE i \in 1..Len(Order) : Order[i] = s]

Now == CHOOSE s \in todo : \A t \in todo : Rank[s] <= Rank[t]

-----------------------------------------------------------------------------
(* What a start is asked to put on the air: the Tune tone, a sideband,     *)
(* amplitude modulation, raw I/Q as it comes, raw I/Q moved off DC.        *)
Emissions == {"TUNE", "LSB", "USB", "AM", "IQ", "IQ_MOVED"}

(* Mutant: translated raw I/Q is forgotten. *)
TxOffset_ForAmOnly(e) == CASE e = "TUNE" -> 600 [] e = "AM" -> 11025 [] OTHER -> 0

(* How far below the dial the start tunes the radio: TUNE_TONE_HZ,         *)
(* FLEX1500_TX_AM_IF_HZ or nothing.                                        *)
TxOffset(e) ==
  CASE e = "TUNE" -> 600
    [] e \in {"AM", "IQ_MOVED"} -> 11025
    [] OTHER -> 0

(* How far above the radio's frequency the samples put the emission: the   *)
(* Tune tone, the AM modulator, the rotation of translated raw I/Q.        *)
StreamShift(e) ==
  CASE e = "TUNE" -> 600
    [] e = "AM" -> 11025
    [] e = "IQ_MOVED" -> 11025
    [] OTHER -> 0

(* tx_stream_present looks at slots; the other flags have the code's names *)
(* without the tune_ prefix.  freq = 0: frequency_known is false.          *)
(* emission is the configuration of the sample stream.  dial and level are *)
(* the arguments of the routine being executed: the frequency and the gain *)
(* a request or the recovery wants.                                        *)
Device ==
  [open : BOOLEAN, running : BOOLEAN, streaming : BOOLEAN, slots : BOOLEAN,
   prepared : BOOLEAN, active : BOOLEAN, keyed : BOOLEAN,
   key_attempted : BOOLEAN, transition_attempted : BOOLEAN,
   frequency_attempted : BOOLEAN, transmit_prepared : BOOLEAN,
   amp_enable_attempted : BOOLEAN, pa_filter_known : BOOLEAN,
   filter_known : BOOLEAN, emission : Emissions \cup {"NONE"}, gain : Gains,
   freq : Freqs \cup {0}, dial : Freqs \cup {0}, level : Gains]

Closed(d) ==
  [open |-> FALSE, running |-> FALSE, streaming |-> FALSE, slots |-> FALSE,
   prepared |-> FALSE, active |-> FALSE, keyed |-> FALSE,
   key_attempted |-> FALSE, transition_attempted |-> FALSE,
   frequency_attempted |-> FALSE, transmit_prepared |-> FALSE,
   amp_enable_attempted |-> FALSE, pa_filter_known |-> FALSE,
   filter_known |-> FALSE, emission |-> "NONE", gain |-> d.gain, freq |-> 0, dial |-> d.dial,
   level |-> d.level]

(* Mutant: only a confirmed key counts. *)
PartialState_ConfirmedKey(d) ==
  {p \in {"PA", "AMP", "STREAM", "TRANSITION", "FREQUENCY", "KEY"} :
     CASE p = "PA" -> d.pa_filter_known
       [] p = "AMP" -> d.amp_enable_attempted \/ d.transmit_prepared
       [] p = "STREAM" -> d.slots
       [] p = "TRANSITION" -> d.transition_attempted
       [] p = "FREQUENCY" -> d.frequency_attempted
       [] p = "KEY" -> d.keyed \/ d.active}

(* tx_partial_state: how far the transmitter may have got. *)
PartialState(d) ==
  {p \in {"PA", "AMP", "STREAM", "TRANSITION", "FREQUENCY", "KEY"} :
     CASE p = "PA" -> d.pa_filter_known
       [] p = "AMP" -> d.amp_enable_attempted \/ d.transmit_prepared
       [] p = "STREAM" -> d.slots
       [] p = "TRANSITION" -> d.transition_attempted
       [] p = "FREQUENCY" -> d.frequency_attempted
       [] p = "KEY" -> d.key_attempted \/ d.keyed \/ d.active}

Undone(partial, steps, by) == IF partial \cap by # {} THEN steps ELSE {}

(* Mutant: a transition is ended only when its mute is still on. *)
CleanupPlan_NoFrequency(d) ==
  LET p == PartialState(d)
  IN  Undone(p, {"C_MUTE", "C_UNKEY"}, {"KEY"})
      \cup Undone(p, {"C_RESTORE", "C_UNMUTE"}, {"TRANSITION"})
      \cup Undone(p, {"C_STREAM"}, {"STREAM"})
      \cup Undone(p, {"C_PA"}, {"PA"}) \cup Undone(p, {"C_AMP"}, {"AMP"})

(* flex1500_tx_cleanup_plan *)
CleanupPlan(d) ==
  LET p == PartialState(d)
  IN  Undone(p, {"C_MUTE", "C_UNKEY"}, {"KEY"})
      \cup Undone(p, {"C_RESTORE", "C_UNMUTE"}, {"TRANSITION", "FREQUENCY"})
      \cup Undone(p, {"C_STREAM"}, {"STREAM"})
      \cup Undone(p, {"C_PA"}, {"PA"}) \cup Undone(p, {"C_AMP"}, {"AMP"})

(* The early return of flex1500_usb_rx_tune_carrier_stop. *)
NothingToStop(d) ==
  ~(\/ d.prepared \/ d.active \/ d.keyed \/ d.key_attempted \/ d.slots
    \/ d.transition_attempted \/ d.frequency_attempted)

(* Mutant: disabling selects the bypass filter and leaves the amplifier. *)
DisablePlan_FilterOnly(d) == CleanupPlan(d) \cap {"C_PA"}

(* The steps of flex1500_usb_rx_disable_transmit_preparation. *)
DisablePlan(d) == CleanupPlan(d) \cap {"C_PA", "C_AMP"}

-----------------------------------------------------------------------------
(* What a command writes when the radio acts on it (external).  The PA     *)
(* filter of a clean-up is the band's one while transmit stays prepared,   *)
(* the bypass when preparation is being disabled.                          *)
Written(h, d, o, s) ==
  CASE s \in {"PA", "PREP_PA", "T_PA"} -> [h EXCEPT !.pa = PaFilter[d.freq]]
    [] s = "C_PA" ->
         [h EXCEPT !.pa = IF o # "DISABLE" /\ d.transmit_prepared /\ d.freq # 0
                          THEN PaFilter[d.freq] ELSE 0]
    [] s = "UNDO_PA" -> [h EXCEPT !.pa = 0]
    [] s \in {"AMP", "PREP_AMP"} -> [h EXCEPT !.amp = TRUE]
    [] s \in {"C_AMP", "UNDO_AMP"} -> [h EXCEPT !.amp = FALSE]
    [] s \in {"MUTE", "C_MUTE"} -> [h EXCEPT !.mute = TRUE]
    [] s \in {"UNMUTE", "C_UNMUTE"} -> [h EXCEPT !.mute = FALSE]
    [] s = "TXFREQ" -> [h EXCEPT !.tuned = d.freq - TxOffset(d.emission)]
    [] s \in {"RXFREQ", "T_FREQ"} -> [h EXCEPT !.tuned = d.dial]
    [] s \in {"RXFILTER", "T_FILTER"} -> [h EXCEPT !.filter = RxFilter[d.freq]]
    [] s = "C_RESTORE" /\ d.freq # 0 -> [h EXCEPT !.tuned = d.freq]
    [] s \in {"GAIN", "G_GAIN"} -> [h EXCEPT !.gain = d.level]
    [] s = "KEY" -> [h EXCEPT !.tr = TRUE]
    [] s = "C_UNKEY" -> [h EXCEPT !.tr = FALSE]
    [] OTHER -> h

(* The flags a routine sets before it sends: what may have been done. *)
Attempted(d, o, s) ==
  CASE s = "MUTE" -> [d EXCEPT !.transition_attempted = TRUE]
    [] s = "TXFREQ" -> [d EXCEPT !.frequency_attempted = TRUE]
    [] s = "KEY" -> [d EXCEPT !.key_attempted = TRUE]
    [] s = "PREP_AMP" -> [d EXCEPT !.amp_enable_attempted = TRUE]
    [] s = "C_PA" -> [d EXCEPT !.pa_filter_known =
                        o # "DISABLE" /\ d.transmit_prepared]
    [] s = "C_STREAM" -> [d EXCEPT !.streaming = FALSE, !.slots = FALSE]
    [] s = "UNDO_PA" -> [d EXCEPT !.pa_filter_known = FALSE]
    [] s = "UNDO_AMP" -> [d EXCEPT !.amp_enable_attempted = FALSE]
    [] OTHER -> d

(* The flags it sets once the step has succeeded. *)
Completed(d, s) ==
  CASE s \in {"PA", "PREP_PA", "T_PA"} -> [d EXCEPT !.pa_filter_known = TRUE]
    [] s = "STREAM" -> [d EXCEPT !.streaming = TRUE, !.slots = TRUE]
    [] s = "KEY" -> [d EXCEPT !.keyed = TRUE]
    [] s = "UNMUTE" -> [d EXCEPT !.transition_attempted = FALSE,
                                 !.active = TRUE]
    [] s \in {"RXFREQ", "T_FREQ"} -> [d EXCEPT !.freq = d.dial,
                                               !.filter_known = FALSE]
    [] s \in {"RXFILTER", "T_FILTER"} -> [d EXCEPT !.filter_known = TRUE]
    [] s \in {"GAIN", "G_GAIN"} -> [d EXCEPT !.gain = d.level]
    [] s = "PREP_AMP" -> [d EXCEPT !.transmit_prepared = TRUE]
    [] OTHER -> d

(* The flags as a failed step leaves them. *)
Failed(d, s) ==
  CASE s = "STREAM" -> [d EXCEPT !.streaming = FALSE, !.slots = FALSE]
    [] s = "T_PA" -> [d EXCEPT !.pa_filter_known = FALSE]
    [] OTHER -> d

Live(d) == d.streaming /\ d.running

(* Mutant: the service of the stream does not look at the flags. *)
CanSucceed_Unchecked(d, s) == s \in {"GAIN", "RXFREQ", "ANTENNA"} => d.running

(* The tests a step makes before it reports success: service_usb_for looks *)
(* at the stream and the device after every round of events; set_gain,     *)
(* tune and enable_transmit_preparation look at the device before they     *)
(* send.  No other step looks, SET_TR(1) included.                         *)
CanSucceed(d, s) ==
  /\ s \in {"PREROLL", "SETTLE"} => Live(d)
  /\ s \in {"GAIN", "RXFREQ", "ANTENNA"} => d.running

(* execute_usb_cleanup_action sends nothing to restore an unknown dial,    *)
(* and stopping the stream cannot fail.                                    *)
CanFail(d, s) == s # "C_STREAM" /\ ~(s = "C_RESTORE" /\ d.freq = 0)

Record(h, s, ok) ==
  CASE s = "KEY" -> [h EXCEPT !.unkey_sent = FALSE, !.unkey_ok = FALSE,
                              !.live = Live(dev)]
    [] s = "C_UNKEY" -> [h EXCEPT !.unkey_sent = TRUE, !.unkey_ok = ok]
    [] s \in {"AMP", "PREP_AMP"} -> [h EXCEPT !.amp_off_sent = FALSE]
    [] s \in {"C_AMP", "UNDO_AMP"} -> [h EXCEPT !.amp_off_sent = TRUE]
    [] s = "T_FREQ" /\ ok -> [h EXCEPT !.dial = dev.dial]
    [] s = "G_GAIN" /\ ok -> [h EXCEPT !.gain = dev.level]
    [] OTHER -> h

-----------------------------------------------------------------------------
(* The registers of a radio that has just been switched on (external). *)
PoweredOn ==
  [tr |-> FALSE, mute |-> FALSE, amp |-> FALSE, pa |-> 0, tuned |-> 0,
   filter |-> 0, gain |-> DefaultGain]

Init ==
  /\ dev = Closed([gain |-> DefaultGain, dial |-> 0, level |-> DefaultGain])
  /\ hw = PoweredOn
  /\ phase = "DOWN"
  /\ op = "IDLE"
  /\ todo = {}
  /\ err = FALSE
  /\ hist = [unkey_sent |-> TRUE, unkey_ok |-> TRUE, amp_off_sent |-> TRUE,
             live |-> FALSE, dial |-> 0, gain |-> DefaultGain]
  /\ cleanup_failed = FALSE

(* Enter a routine with the steps it has to take. *)
Begin(o, steps) == op' = o /\ todo' = steps /\ err' = FALSE

Idle == op' = "IDLE" /\ todo' = {} /\ err' = FALSE

(* A routine that returns to a running receiver forgets its arguments. *)
Settled(d) == [d EXCEPT !.dial = 0, !.level = DefaultGain]

(* flex1500_usb_rx_start, and what the start-up and the recovery of        *)
(* serve_live_rx_at do with the opened device.  No step of it unkeys.      *)
Reopen ==
  /\ op = "IDLE" /\ phase = "DOWN"
  /\ dev' = [dev EXCEPT !.open = TRUE, !.running = TRUE]
  /\ Begin("RESTORE",
           {"GAIN", "ANTENNA", "PREP_AMP"} \cup
           (IF dev.dial # 0 THEN {"RXFREQ", "RXFILTER", "PREP_PA"} ELSE {}))
  /\ UNCHANGED <<hw, phase, cleanup_failed, hist>>

(* Between two attempts the operator switches the radio off and on, as the *)
(* daemon's recovery message asks (external).                              *)
PowerCycle ==
  /\ op = "IDLE" /\ phase = "DOWN"
  /\ hw' = PoweredOn
  /\ hist' = [hist EXCEPT !.unkey_sent = TRUE, !.unkey_ok = TRUE,
                          !.amp_off_sent = TRUE]
  /\ UNCHANGED <<dev, phase, op, todo, err, cleanup_failed>>

Forgotten(h) == [h EXCEPT !.dial = 0, !.gain = DefaultGain]

(* Sixty attempts failed, or the daemon is told to stop between two. *)
GiveUp ==
  /\ op = "IDLE" /\ phase = "DOWN" /\ dev.dial # 0
  /\ dev' = [dev EXCEPT !.dial = 0, !.level = DefaultGain, !.gain = DefaultGain]
  /\ hist' = Forgotten(hist)
  /\ UNCHANGED <<hw, phase, op, todo, err, cleanup_failed>>

(* The policy tests at the head of tune_carrier_start and audio_tx_start.  *)
StartPermitted(d) ==
  /\ d.running /\ d.open /\ d.transmit_prepared
  /\ d.freq # 0
  /\ ~d.active /\ ~d.streaming

(* flex1500_tx_control_request calls the start callback. *)
BeginStart(e) ==
  /\ op = "IDLE" /\ phase = "REST"
  /\ StartPermitted(dev)
  /\ dev' = [dev EXCEPT !.prepared = TRUE, !.emission = e]
  /\ Begin("START", Elements(StartOrder))
  /\ cleanup_failed' = FALSE
  /\ UNCHANGED <<hw, phase, hist>>

(* The callback rejects: unknown dial, device lost, or a band, mode or     *)
(* prebuffer the policies refuse.  Nothing has been sent.                  *)
RejectStart ==
  /\ op = "IDLE" /\ phase = "REST"
  /\ phase' = "ROLLBACK"
  /\ cleanup_failed' = FALSE
  /\ UNCHANGED <<dev, hw, op, todo, err, hist>>

(* The stop callback: of an owner, or of the rollback after a failed start.*)
BeginStop ==
  /\ op = "IDLE" /\ phase \in {"OWNED", "ROLLBACK"}
  /\ ~NothingToStop(dev)
  /\ Begin("STOP", CleanupPlan(dev))
  /\ UNCHANGED <<dev, hw, phase, cleanup_failed, hist>>

(* Nothing is sent and success reported; after a failed start the          *)
(* controller is faulted all the same.                                     *)
StopFindsNothing ==
  /\ op = "IDLE" /\ phase \in {"OWNED", "ROLLBACK"}
  /\ NothingToStop(dev)
  /\ phase' = IF phase = "ROLLBACK" THEN "FAULTED" ELSE "REST"
  /\ cleanup_failed' = FALSE
  /\ UNCHANGED <<dev, hw, op, todo, err, hist>>

(* flex1500_usb_rx_tune: the callers refuse only while the transmitter is  *)
(* owned, the driver while its own flags say keyed.                        *)
Retune(f) ==
  /\ op = "IDLE" /\ phase \in {"REST", "FAULTED"}
  /\ dev.running /\ dev.open /\ ~dev.active /\ ~dev.keyed
  /\ dev' = [dev EXCEPT !.dial = f]
  /\ Begin("RETUNE", {"T_FREQ", "T_FILTER"} \cup
                     (IF dev.transmit_prepared THEN {"T_PA"} ELSE {}))
  /\ UNCHANGED <<hw, phase, cleanup_failed, hist>>

(* flex1500_usb_rx_set_gain *)
SetGain(g) ==
  /\ op = "IDLE" /\ phase \in {"REST", "FAULTED"}
  /\ dev.running /\ dev.open /\ ~dev.active /\ ~dev.keyed
  /\ dev' = [dev EXCEPT !.level = g]
  /\ Begin("GAIN", Elements(GainOrder))
  /\ UNCHANGED <<hw, phase, cleanup_failed, hist>>

(* The transfer callbacks: rx_complete or status_complete loses the        *)
(* device, tune_complete the transmit stream and the device.  They run in  *)
(* every call that handles events, libusb_interrupt_transfer included:     *)
(* between two calls of the driver and between any two steps of one.       *)
LoseDevice ==
  /\ dev.running
  /\ \/ dev' = [dev EXCEPT !.running = FALSE]
     \/ dev' = [dev EXCEPT !.running = FALSE, !.streaming = FALSE]
  /\ UNCHANGED <<hw, phase, op, todo, err, cleanup_failed, hist>>

(* Mutant: the settings are read after the device has been closed. *)
BeginRecovery_ReadsLate ==
  /\ op = "IDLE" /\ phase \in {"REST", "FAULTED"}
  /\ ~dev.running
  /\ dev' = [dev EXCEPT !.dial = 0, !.level = dev.gain]
  /\ Begin("DISABLE", DisablePlan(dev))
  /\ UNCHANGED <<hw, phase, cleanup_failed, hist>>

(* Recovery from a lost device: the controller has been shut down, the     *)
(* dial is remembered, flex1500_usb_rx_stop disables the preparation.      *)
BeginRecovery ==
  /\ op = "IDLE" /\ phase \in {"REST", "FAULTED"}
  /\ ~dev.running
  /\ dev' = [dev EXCEPT !.dial = dev.freq, !.level = dev.gain]
  /\ Begin("DISABLE", DisablePlan(dev))
  /\ UNCHANGED <<hw, phase, cleanup_failed, hist>>

(* The daemon stops: the same clean-up, and the settings are forgotten. *)
BeginExit ==
  /\ op = "IDLE" /\ phase \in {"REST", "FAULTED"}
  /\ dev' = [dev EXCEPT !.dial = 0, !.level = DefaultGain,
                         !.gain = DefaultGain]
  /\ hist' = Forgotten(hist)
  /\ Begin("DISABLE", DisablePlan(dev))
  /\ UNCHANGED <<hw, phase, cleanup_failed>>

-----------------------------------------------------------------------------
StepSucceeds ==
  /\ todo # {}
  /\ CanSucceed(dev, Now)
  /\ LET s == Now
         d == Attempted(dev, op, s)
     IN  /\ dev' = Completed(d, s)
         /\ hw' = Written(hw, dev, op, s)
         /\ hist' = Record(hist, s, TRUE)
         /\ todo' = todo \ {s}
  /\ UNCHANGED <<phase, op, err, cleanup_failed>>

(* A failure ends a start in its rollback, a preparation in its undo, a    *)
(* reopening in a close, a retune at once; a clean-up goes on.             *)
StepFails ==
  /\ todo # {}
  /\ CanFail(dev, Now)
  /\ LET s == Now
         d == Failed(Attempted(dev, op, s), s)
     IN  /\ dev' = IF op \in {"RETUNE", "GAIN"} THEN Settled(d) ELSE d
         /\ \/ hw' = hw
            \/ CanSucceed(dev, s) /\ hw' = Written(hw, dev, op, s)
         /\ hist' = Record(hist, s, FALSE)
         /\ CASE op = "START" -> Begin("ROLLBACK", CleanupPlan(dev'))
              [] op = "RESTORE" /\ s = "PREP_AMP" ->
                   Begin("UNDO", {"UNDO_AMP"} \cup
                         (IF dev'.pa_filter_known THEN {"UNDO_PA"} ELSE {}))
              [] op = "RESTORE" /\ s # "PREP_AMP" ->
                   Begin("DISABLE", DisablePlan(dev'))
              [] op \in {"RETUNE", "GAIN"} -> Idle
              [] OTHER -> op' = op /\ todo' = todo \ {s} /\ err' = TRUE
  /\ UNCHANGED <<phase, cleanup_failed>>

(* The flags flex1500_usb_rx_tune_carrier_stop clears, whatever failed. *)
Stopped(d) ==
  [d EXCEPT !.keyed = FALSE, !.key_attempted = FALSE, !.active = FALSE,
            !.prepared = FALSE, !.transition_attempted = FALSE,
            !.frequency_attempted = FALSE, !.streaming = FALSE,
            !.slots = FALSE, !.emission = "NONE"]

(* The routine returns to its caller, and tx_control draws its conclusion. *)
StartReturns ==
  /\ op = "START" /\ todo = {}
  /\ phase' = "OWNED"
  /\ Idle
  /\ UNCHANGED <<dev, hw, cleanup_failed, hist>>

RollbackReturns ==
  /\ op = "ROLLBACK" /\ todo = {}
  /\ dev' = Stopped(dev)
  /\ phase' = "ROLLBACK"
  /\ Idle
  /\ UNCHANGED <<hw, cleanup_failed, hist>>

(* Mutant: the result of the clean-up is dropped. *)
StopReturns_ErrorLost ==
  /\ op = "STOP" /\ todo = {}
  /\ dev' = Stopped(dev)
  /\ phase' = IF phase = "ROLLBACK" THEN "FAULTED" ELSE "REST"
  /\ cleanup_failed' = FALSE
  /\ Idle
  /\ UNCHANGED <<hw, hist>>

StopReturns ==
  /\ op = "STOP" /\ todo = {}
  /\ dev' = Stopped(dev)
  /\ phase' = IF err \/ phase = "ROLLBACK" THEN "FAULTED" ELSE "REST"
  /\ cleanup_failed' = err
  /\ Idle
  /\ UNCHANGED <<hw, hist>>

SettingReturns ==
  /\ op \in {"RETUNE", "GAIN"} /\ todo = {}
  /\ dev' = Settled(dev)
  /\ Idle
  /\ UNCHANGED <<hw, phase, cleanup_failed, hist>>

(* A fresh controller, armed for the microphone. *)
RestoreReturns ==
  /\ op = "RESTORE" /\ todo = {}
  /\ dev' = Settled(dev)
  /\ phase' = "REST"
  /\ cleanup_failed' = FALSE
  /\ Idle
  /\ UNCHANGED <<hw, hist>>

UndoReturns ==
  /\ op = "UNDO" /\ todo = {}
  /\ Begin("DISABLE", DisablePlan(dev))
  /\ UNCHANGED <<dev, hw, phase, cleanup_failed, hist>>

(* The rest of flex1500_usb_rx_stop: transfers, interface, handle. *)
CloseReturns ==
  /\ op = "DISABLE" /\ todo = {}
  /\ dev' = Closed(dev)
  /\ phase' = "DOWN"
  /\ Idle
  /\ UNCHANGED <<hw, cleanup_failed, hist>>

Next ==
  \/ Reopen \/ PowerCycle \/ GiveUp \/ RejectStart \/ BeginStop \/ StopFindsNothing
  \/ \E e \in Emissions : BeginStart(e)
  \/ \E f \in Freqs : Retune(f)
  \/ \E g \in Gains : SetGain(g)
  \/ LoseDevice \/ BeginRecovery \/ BeginExit
  \/ StepSucceeds \/ StepFails
  \/ StartReturns \/ RollbackReturns \/ StopReturns \/ SettingReturns
  \/ RestoreReturns \/ UndoReturns \/ CloseReturns

Spec == Init /\ [][Next]_vars

-----------------------------------------------------------------------------
Registers ==
  [tr : BOOLEAN, mute : BOOLEAN, amp : BOOLEAN,
   pa : {0} \cup {PaFilter[f] : f \in Freqs}, tuned : Int,
   filter : {0} \cup {RxFilter[f] : f \in Freqs}, gain : Gains]

History ==
  [unkey_sent : BOOLEAN, unkey_ok : BOOLEAN, amp_off_sent : BOOLEAN,
   live : BOOLEAN, dial : Freqs \cup {0}, gain : Gains]

TypeOK ==
  /\ dev \in Device /\ hw \in Registers /\ hist \in History
  /\ phase \in {"DOWN", "REST", "OWNED", "ROLLBACK", "FAULTED"}
  /\ op \in {"IDLE", "RESTORE", "UNDO", "START", "ROLLBACK", "STOP", "RETUNE",
             "GAIN", "DISABLE"}
  /\ todo \subseteq Steps
  /\ err \in BOOLEAN /\ cleanup_failed \in BOOLEAN

(* Whatever step of a start or of a clean-up fails, the driver never       *)
(* returns to an unowned state with a SET_TR(1) it has not answered with a *)
(* SET_TR(0): the attempt flags of usb_rx.c cover every command that may   *)
(* have reached the radio.                                                 *)
KeyAlwaysAnswered ==
  op = "IDLE" /\ phase # "OWNED" => hist.unkey_sent

(* The handle is never closed after an amplifier enable without an         *)
(* amplifier disable having been tried, through failed preparations,       *)
(* starts, stops and recoveries.                                           *)
AmplifierOffAtClose == phase = "DOWN" /\ op = "IDLE" => hist.amp_off_sent

CarrierRises ==
  hw'.tr /\ ~hw.tr =>
    /\ hw.mute /\ hw.amp /\ hw.tuned + StreamShift(dev.emission) = dev.freq
    /\ hw.pa = PaFilter[dev.freq]
    /\ dev.slots

CarrierHandedOver == phase' = "OWNED" /\ phase # "OWNED" => hw.tr /\ hist.live

(* The carrier comes up only on a muted path, behind the amplifier and the *)
(* PA filter of the current dial, on a frequency from which the configured *)
(* samples put the emission on the dial - also when an earlier retune or   *)
(* clean-up lost one of its commands.  The stream may have been lost since *)
(* the pre-roll, inside the mute or the frequency command, and SET_TR(1)   *)
(* is sent all the same; but such a start fails: a carrier is handed to    *)
(* its owner only if samples were flowing when it came up.                 *)
CarrierOnlyWhenReady == [][CarrierRises /\ CarrierHandedOver]_vars

(* The PA relay and the amplifier are never switched under a carrier that  *)
(* nobody has yet tried to take down.                                      *)
Switches ==
  hw.tr /\ (hw'.pa # hw.pa \/ hw'.amp # hw.amp) => hist.unkey_sent

NoHotSwitch == [][Switches]_vars

(* A stop reported to the controller as a success has restored receive     *)
(* completely: unkeyed, unmuted, on the dial, amplifier off, the filter of *)
(* the band selected, no transmit stream left.                             *)
StopSucceeds ==
  phase = "OWNED" /\ phase' = "REST" =>
    /\ hw' = [tr |-> FALSE, mute |-> FALSE, amp |-> FALSE,
              pa |-> PaFilter[dev.freq], tuned |-> dev.freq,
              filter |-> hw.filter, gain |-> hw.gain]
    /\ ~dev'.slots

StopRestoresReceive == [][StopSucceeds]_vars

(* A recovered radio is where its user left it, whatever the last          *)
(* transmission, the failed attempts and the power switch did to it: on    *)
(* the dial and the gain last accepted, behind that dial's receive filter, *)
(* the PA filter of its band selected.                                     *)
Recovers ==
  op = "RESTORE" /\ op' = "IDLE" =>
    /\ hw.gain = hist.gain
    /\ hist.dial # 0 =>
         /\ hw.tuned = hist.dial
         /\ hw.filter = RxFilter[hist.dial] /\ hw.pa = PaFilter[hist.dial]

RecoveryRestores == [][Recovers]_vars

(* The driver keeps the contract its caller relies on. *)
Contract == INSTANCE TxBackend WITH
  key <- hw.tr,
  call <- IF op \in {"START", "ROLLBACK"} THEN "STARTING"
          ELSE IF op = "STOP" /\ phase = "OWNED" THEN "STOPPING"
          ELSE IF phase = "ROLLBACK" THEN "FAILED"
          ELSE IF phase \in {"REST", "OWNED"} /\ op # "DISABLE" THEN phase
          ELSE "DOWN"

(* Every start and stop of the driver is a start or stop of TxBackend: a   *)
(* start that succeeds leaves the carrier up, a stop that succeeds leaves  *)
(* it down, nothing but a start raises it.                                 *)
KeepsContract == Contract!Spec

-----------------------------------------------------------------------------
(* docs/TX_TERMINATION_MATRIX.md: the first clean-up error "is returned to *)
(* the controller", which "exposes the cleanup failure through             *)
(* diagnostics".  A faulted controller whose SET_TR(0) went unconfirmed    *)
(* says so in cleanup_failed.                                              *)
CleanupFailureExposed ==
  phase = "FAULTED" /\ ~hist.unkey_ok => cleanup_failed
=============================================================================
