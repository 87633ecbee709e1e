------------------------------ MODULE TxPolicy ------------------------------
(***************************************************************************)
(* What the daemon lets on the air: the station settings of api.c, the     *)
(* interlocks that api.c and the loop of flex1500d.c apply before they ask *)
(* the controller of TxControl for the transmitter, and the ones its start *)
(* callback daemon_tx_owner_start applies again.                           *)
(*                                                                         *)
(* Every request carries the station lease (Daemon is about leases).  A    *)
(* session and a station lease may end at any time here; Daemon has the    *)
(* clocks.  Requests that are refused change nothing and are no steps.     *)
(***************************************************************************)
EXTENDS TxControl, BandPlan

CONSTANTS
  Requested,    \* the frequencies clients ask for
  TxSettings,   \* drive, microphone gain and compressor, as one value
  DefaultTx     \* the one the daemon starts with

ASSUME RequestedAssumption == Requested \subseteq Nat

ASSUME TxSettingsAssumption ==
  TxSettings \subseteq Nat \ {0} /\ DefaultTx \in TxSettings

VARIABLES
  dial,      \* the driver's frequency_hz; 0 when it is not known
  api,       \* rx_mode and the transmit settings of the API controller
  station,   \* the station lease: free, or held by a (mode-aware) client
  session,   \* the mode of the reserved general TX session, or "NONE"
  air,       \* daemon_tx_context: what the last start was given
  vetoed     \* for checking only: a start callback has refused on policy

policyVars == <<dial, api, station, session, air, vetoed>>

allVars == <<ctl, radio, lag, dial, api, station, session, air, vetoed>>

RxModes == {"am", "fm", "usb", "lsb", "cw"}

SessionModes == {"usb", "lsb", "am", "iq"}

-----------------------------------------------------------------------------
(* The transmit mode of an rx_mode or session mode. *)
ModeEmission(mode) ==
  CASE mode = "usb" -> "USB"
    [] mode = "lsb" -> "LSB"
    [] mode = "am" -> "AM"
    [] mode = "iq" -> "IQ"
    [] OTHER -> "NONE"

(* The mode of resolve_physical_tx_mode: by convention for a client that   *)
(* cannot tell its mode, otherwise the selected one.                       *)
PhysicalEmission(s, mode, f) ==
  IF s = "LEGACY" THEN (IF DefaultUpper(f) THEN "USB" ELSE "LSB")
                  ELSE ModeEmission(mode)

(* Mutant: AM is checked like a sideband. *)
EmissionPermitted_AmAsVoice(e, f) ==
  CASE e = "TUNE" -> TuneAllowed(f)
    [] e \in {"USB", "LSB", "AM"} -> VoiceAllowed(f, e = "USB")
    [] e = "IQ" -> IqAllowed(f)
    [] OTHER -> FALSE

(* frequency_allowed of the start callback. *)
EmissionPermitted(e, f) ==
  CASE e = "TUNE" -> TuneAllowed(f)
    [] e \in {"USB", "LSB"} -> VoiceAllowed(f, e = "USB")
    [] e = "AM" -> AmAllowed(f)
    [] e = "IQ" -> IqAllowed(f)
    [] OTHER -> FALSE

(* What the owner would transmit. *)
EmissionOf(owner) ==
  CASE owner = "TUNE" -> "TUNE"
    [] owner = "HTTP" -> ModeEmission(session)
    [] owner = "PHYSICAL_MIC" -> PhysicalEmission(station, api.rx_mode, dial)
    [] OTHER -> "NONE"

(* daemon_tx_owner_start, before it calls the driver. *)
StartPolicy(owner) == dial # 0 /\ EmissionPermitted(EmissionOf(owner), dial)

(* Mutant: the request does not look at the frequency. *)
SessionPrecheck_ModeOnly == session # "NONE"

(* The test of PUT /v1/tx/ptt/start. *)
SessionPrecheck ==
  /\ dial # 0
  /\ CASE session = "iq" -> IqAllowed(dial)
       [] session = "am" -> AmAllowed(dial)
       [] session \in {"usb", "lsb"} -> VoiceAllowed(dial, session = "usb")
       [] OTHER -> FALSE

(* The test of PUT /v1/radio/tune/start. *)
TunePrecheck == dial # 0 /\ TuneAllowed(dial)

(* The test the loop makes when the button of an armed controller goes     *)
(* down; resolve_physical_tx_mode serves it and the start callback.        *)
PressPrecheck == ctl.physical_ptt_armed => StartPolicy("PHYSICAL_MIC")

-----------------------------------------------------------------------------
NoProfile == [emission |-> "NONE", freq |-> 0, tx |-> 0, default |-> FALSE]

(* "Freeze the complete profile before issuing the first TX command." *)
Profile(owner) ==
  [emission |-> EmissionOf(owner), freq |-> dial, tx |-> api.tx,
   default |-> owner = "PHYSICAL_MIC" /\ station = "LEGACY"]

(* The call enters the start callback of the owner. *)
Starts(owner) ==
  /\ ctl.owner = "NONE" \/ (owner = "PHYSICAL_MIC" /\ ctl.owner # owner)
  /\ RequestRefusal([ctl EXCEPT !.owner = "NONE"], owner) = "START"

(* What a request has put on the air.  A start callback that refuses       *)
(* starts nothing; its refusal is remembered.                              *)
OnAir(owner) ==
  /\ air' = IF ctl'.owner = "NONE" THEN NoProfile
            ELSE IF ctl'.owner = ctl.owner THEN air
            ELSE Profile(owner)
  /\ ctl'.owner = owner /\ ctl.owner # owner => StartPolicy(owner)
  /\ vetoed' = (vetoed \/ (Starts(owner) /\ ~StartPolicy(owner)))

(* What is left on the air by a call that can only stop an owner. *)
OffAir ==
  /\ air' = IF ctl'.owner = "NONE" THEN NoProfile ELSE air
  /\ UNCHANGED vetoed

-----------------------------------------------------------------------------
PolicyInit ==
  /\ Init
  /\ dial = 0
  /\ api = [rx_mode |-> "am", tx |-> DefaultTx]
  /\ station = "FREE"
  /\ session = "NONE"
  /\ air = NoProfile
  /\ vetoed = FALSE

(* POST /v1/control/owner, and DELETE, which is refused while transmitting. *)
AcquireStation(kind) ==
  /\ station = "FREE"
  /\ station' = kind
  /\ UNCHANGED <<ctl, radio, lag, dial, api, session, air, vetoed>>

ReleaseStation ==
  /\ station # "FREE" /\ ctl.owner = "NONE"
  /\ station' = "FREE"
  /\ UNCHANGED <<ctl, radio, lag, dial, api, session, air, vetoed>>

(* The lease runs out: Tune and the session go with it, the microphone     *)
(* keeps the transmitter.                                                  *)
ExpireStation ==
  /\ station # "FREE"
  /\ station' = "FREE"
  /\ session' = "NONE"
  /\ Take(IF ctl.owner \in {"TUNE", "HTTP"} THEN StopOwner(ctl, radio)
                                            ELSE Unchanged(ctl, radio, "OK"))
  /\ OffAir
  /\ UNCHANGED <<lag, dial, api>>

(* transmitter_active is false. *)
Idle == ctl.owner = "NONE"

(* PUT /v1/radio/frequency by the holder of the lease, or SET_FREQUENCY of *)
(* an rtl_tcp client while there is none.  The tune may fail before or     *)
(* after the driver has taken the new frequency over.                      *)
MoveDial(f) ==
  /\ Idle
  /\ Tunable(f)
  /\ dial' \in {dial, f}
  /\ UNCHANGED <<ctl, radio, lag, api, station, session, air, vetoed>>

HttpTune(f) == station # "FREE" /\ MoveDial(f)

RtlTune(f) == station = "FREE" /\ MoveDial(f)

(* Mutant: the mode may be changed at any time. *)
SetMode_Unguarded(mode) ==
  /\ station # "FREE"
  /\ api' = [api EXCEPT !.rx_mode = mode]
  /\ UNCHANGED <<ctl, radio, lag, dial, station, session, air, vetoed>>

(* PUT /v1/radio/mode *)
SetMode(mode) ==
  /\ station # "FREE" /\ Idle
  /\ api' = [api EXCEPT !.rx_mode = mode]
  /\ UNCHANGED <<ctl, radio, lag, dial, station, session, air, vetoed>>

(* PUT /v1/radio/tx-drive, mic-gain, tx-compressor *)
SetTx(v) ==
  /\ station # "FREE" /\ ctl.enabled /\ Idle
  /\ api' = [api EXCEPT !.tx = v]
  /\ UNCHANGED <<ctl, radio, lag, dial, station, session, air, vetoed>>

(* PUT /v1/radio/tx-timeout *)
SetKeyTimeout(ms) ==
  /\ station # "FREE" /\ ctl.enabled /\ Idle
  /\ DoSetTimeout(ms)
  /\ UNCHANGED policyVars

(* POST /v1/tx/sessions *)
OpenSession(mode) ==
  /\ station # "FREE" /\ ctl.enabled
  /\ session = "NONE" /\ ctl.owner = "NONE"
  /\ session' = mode
  /\ UNCHANGED <<ctl, radio, lag, dial, api, station, air, vetoed>>

(* The session is released, times out, or loses its stream. *)
CloseSession ==
  /\ session # "NONE"
  /\ session' = "NONE"
  /\ IF ctl.owner = "HTTP" THEN DoRelease("HTTP") ELSE UNCHANGED vars
  /\ OffAir
  /\ UNCHANGED <<dial, api, station>>

(* PUT /v1/tx/ptt/start and stop *)
KeySession ==
  /\ station # "FREE" /\ SessionPrecheck
  /\ DoRequest("HTTP")
  /\ OnAir("HTTP")
  /\ UNCHANGED <<dial, api, station, session>>

UnkeySession ==
  /\ session # "NONE" /\ ctl.owner = "HTTP"
  /\ DoRelease("HTTP")
  /\ OffAir
  /\ UNCHANGED <<dial, api, station, session>>

(* PUT /v1/radio/tune/start, and its stop, lease expiry or hard limit. *)
StartTune ==
  /\ station # "FREE" /\ TunePrecheck
  /\ DoRequest("TUNE")
  /\ OnAir("TUNE")
  /\ UNCHANGED <<dial, api, station, session>>

StopTune ==
  /\ ctl.owner = "TUNE"
  /\ DoRelease("TUNE")
  /\ OffAir
  /\ UNCHANGED <<dial, api, station, session>>

(* An edge of the microphone button, seen by the loop. *)
Press ==
  /\ PressPrecheck
  /\ DoPtt(TRUE)
  /\ OnAir("PHYSICAL_MIC")
  /\ UNCHANGED <<dial, api, station, session>>

Unpress ==
  /\ DoPtt(FALSE)
  /\ OffAir
  /\ UNCHANGED <<dial, api, station, session>>

(* Start-up arms the microphone once the radio is prepared. *)
Arm == ctl.enabled /\ DoArm /\ UNCHANGED policyVars

Watchdog == DoTick /\ OffAir /\ UNCHANGED <<dial, api, station, session>>

(* The USB device is lost and recovered: the session is released, the dial *)
(* restored; the settings and the station lease stay.                      *)
Recover ==
  /\ DoRecover
  /\ OffAir
  /\ session' = "NONE"
  /\ UNCHANGED <<dial, api, station>>

Pass(d) == Elapse(d) /\ UNCHANGED policyVars

PolicyNext ==
  \/ \E kind \in {"AWARE", "LEGACY"} : AcquireStation(kind)
  \/ ReleaseStation \/ ExpireStation
  \/ \E f \in Requested : HttpTune(f) \/ RtlTune(f)
  \/ \E mode \in RxModes : SetMode(mode)
  \/ \E v \in TxSettings : SetTx(v)
  \/ \E ms \in Timeouts : SetKeyTimeout(ms)
  \/ \E mode \in SessionModes : OpenSession(mode)
  \/ CloseSession \/ KeySession \/ UnkeySession \/ StartTune \/ StopTune
  \/ Press \/ Unpress \/ Arm \/ Watchdog \/ Recover
  \/ \E d \in 1..LoopMs : Pass(d)

PolicySpec == PolicyInit /\ [][PolicyNext]_allVars

-----------------------------------------------------------------------------
(* The frequencies an emission at f reaches: of a carrier or a sideband    *)
(* the daemon only knows the carrier.                                      *)
Reaches(e, f) ==
  CASE e = "AM" -> {f - AmWidth, f + AmWidth}
    [] e = "IQ" -> {f - IqWidth, f + IqWidth}
    [] OTHER -> {f}

(* Whatever retunes, mode changes, preemptions, lapsed leases and          *)
(* recoveries happened before and since the start, a transmission lies     *)
(* with its whole width in one amateur allocation of protocol.c, or is the *)
(* Tune carrier or an upper sideband in the 60 m segment or channels; and  *)
(* the radio is still on the frequency that was checked.                   *)
EmissionAllowed ==
  ctl.owner # "NONE" =>
    /\ air.freq = dial
    /\ \/ \E b \in Allocations : \A x \in Reaches(air.emission, dial) :
            b.low <= x /\ x <= b.high
       \/ air.emission \in {"TUNE", "USB"} /\ SixtyMeters(dial)

(* While the microphone transmits, the settings the API reports are those  *)
(* on the air: no request accepted in the meantime is staged for the next  *)
(* transmission (docs/TX_OPERATOR_GUIDE.md).                               *)
OnAirAsReported ==
  ctl.owner = "PHYSICAL_MIC" =>
    /\ air.tx = api.tx
    /\ air.emission =
         PhysicalEmission(IF air.default THEN "LEGACY" ELSE "AWARE",
                          api.rx_mode, dial)

(* A request outside the band plan is turned away before the controller    *)
(* is asked: the tests of api.c and of the loop are at least as strict as  *)
(* the start callback's, whose refusal would leave the transmitter FAULTED *)
(* until the next recovery.                                                *)
PolicyNeverFaults == ~vetoed
=============================================================================
