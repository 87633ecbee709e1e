--------------------------- MODULE TxPolicyProofs ---------------------------
(***************************************************************************)
(* Proofs about the ownership controller (TxControl), the tables of the    *)
(* band plan (BandPlan) and the interlocks around both (TxPolicy), for     *)
(* every set of timeouts, frequencies and settings and every loop time.    *)
(*                                                                         *)
(* The properties of the controller are not inductive one by one; IInv is  *)
(* their strengthening.  Every step of the daemon in TxPolicy is a step of *)
(* that controller or leaves it alone, so the controller's theorems hold   *)
(* there; PolicyInv is the strengthening of the policy's invariants.  The  *)
(* facts about the tables are a finite case split over the bands and then  *)
(* linear arithmetic.                                                      *)
(***************************************************************************)
EXTENDS TxPolicy, TxControlOpsProofs

(* At the last watchdog tick, l ago, the time on the air was below the     *)
(* maximum.                                                                *)
InTime(c, l) == c.owner # "NONE" => c.key_ms - l < c.maximum_key_ms

(* The inductive strengthening of the module's invariants. *)
IInv ==
  /\ Sound(ctl, radio)
  /\ MicSound(ctl)
  /\ ctl.maximum_key_ms \in Timeouts
  /\ lag \in 0..LoopMs
  /\ InTime(ctl, lag)

-----------------------------------------------------------------------------
(* The controller as flex1500_tx_control_init leaves it. *)
LEMMA InitIInv == Init => IInv
<1> SUFFICES ASSUME Init PROVE IInv
  OBVIOUS
<1>1. PICK enabled \in BOOLEAN : ctl = Fresh(enabled, DefaultTimeout)
  BY DEF Init
<1>2. radio = [key |-> FALSE, overlap |-> FALSE] /\ lag = 0
  BY DEF Init
<1>3. /\ Sound(ctl, radio) /\ ctl.owner = "NONE"
      /\ ctl.maximum_key_ms \in Timeouts
  BY <1>1, <1>2, TimeoutsAssumption
  DEF Fresh, Sound, Control, Radio, States, Owners
<1>4. QED
  BY <1>2, <1>3, LoopAssumption DEF IInv, MicSound, InTime

(* Recovery ends with a controller nobody owns and an unkeyed radio. *)
LEMMA RecoverSound ==
  ASSUME Sound(ctl, radio), DoRecover
  PROVE  /\ Sound(ctl', radio')
         /\ ctl'.owner = "NONE"
         /\ ctl'.maximum_key_ms = ctl.maximum_key_ms
         /\ ~radio'.key
<1>1. PICK o \in StopOwner(ctl, radio) :
        LET fresh == Fresh(o.c.enabled, o.c.maximum_key_ms)
        IN  /\ ctl' = IF o.c.enabled THEN ArmPhysicalPtt(fresh) ELSE fresh
            /\ radio' = [o.radio EXCEPT !.key = FALSE]
  BY DEF DoRecover
<1>2. Sound(o.c, o.radio) /\ o.c.maximum_key_ms = ctl.maximum_key_ms
  BY StopOwnerSound
<1> DEFINE fresh == Fresh(o.c.enabled, o.c.maximum_key_ms)
           rd == [o.radio EXCEPT !.key = FALSE]
<1>3. rd \in Radio /\ ~rd.key /\ ~rd.overlap
  BY <1>2 DEF Sound, Radio
<1>4. /\ Sound(fresh, rd) /\ MicSound(fresh) /\ fresh.owner = "NONE"
      /\ fresh.maximum_key_ms = ctl.maximum_key_ms
  BY <1>2, <1>3 DEF Fresh, Sound, MicSound, Control, States, Owners
<1>5. ctl' = fresh \/ ctl' = ArmPhysicalPtt(fresh)
  BY <1>1
<1>6. radio' = rd
  BY <1>1
<1> HIDE DEF fresh, rd
<1>7. QED
  BY <1>3, <1>4, <1>5, <1>6, ArmSound

(* The fault latch and the invariant, for each operation of the module. *)
LEMMA NextIInv == IInv /\ [Next]_vars => IInv' /\ LeavesFault
<1> SUFFICES ASSUME IInv, [Next]_vars
             PROVE  IInv' /\ LeavesFault
  OBVIOUS
<1>0. /\ Sound(ctl, radio) /\ MicSound(ctl) /\ InTime(ctl, lag)
      /\ lag \in Nat /\ lag <= LoopMs /\ LoopMs \in Nat
      /\ ctl.key_ms \in Nat /\ ctl.maximum_key_ms \in Nat \ {0}
      /\ ctl.maximum_key_ms \in Timeouts /\ Timeouts \in SUBSET Nat
  <2>1. Sound(ctl, radio) /\ MicSound(ctl) /\ InTime(ctl, lag)
    BY DEF IInv
  <2>2. lag \in Nat /\ lag <= LoopMs /\ LoopMs \in Nat
    BY LoopAssumption DEF IInv
  <2>3. /\ ctl.key_ms \in Nat /\ ctl.maximum_key_ms \in Nat \ {0}
        /\ ctl.maximum_key_ms \in Timeouts /\ Timeouts \in SUBSET Nat
    BY <2>1, TimeoutsAssumption DEF IInv, Sound, Control
  <2>4. QED
    BY <2>1, <2>2, <2>3
(* A step that leaves the lag alone keeps InTime when the time on the air *)
(* is unchanged or restarts.                                               *)
<1> DEFINE Kept ==
      /\ Sound(ctl', radio')
      /\ MicSound(ctl')
      /\ ctl'.maximum_key_ms \in Timeouts
      /\ ctl'.owner # "NONE" =>
           /\ ctl'.maximum_key_ms = ctl.maximum_key_ms
           /\ \/ ctl'.key_ms = 0
              \/ ctl'.owner = ctl.owner /\ ctl'.key_ms = ctl.key_ms
<1>k. ASSUME Kept, lag' = lag PROVE IInv'
  BY <1>0, <1>k DEF IInv, InTime
<1>1. CASE DoArm
  <2>1. ctl' = ArmPhysicalPtt(ctl) /\ radio' = radio /\ lag' = lag
    BY <1>1 DEF DoArm
  <2>2. /\ Sound(ctl', radio') /\ MicSound(ctl')
        /\ ctl' = ctl \/ ctl'.owner = "NONE"
        /\ ctl'.maximum_key_ms = ctl.maximum_key_ms
        /\ ctl.state = "FAULTED" => ctl'.state = "FAULTED"
    BY <1>0, <2>1, ArmSound
  <2>3. QED
    BY <1>0, <1>k, <2>1, <2>2 DEF LeavesFault
<1>2. ASSUME NEW owner \in NetworkOwners, DoRequest(owner)
      PROVE  IInv' /\ LeavesFault
  <2>1. PICK o \in Request(ctl, radio, owner) : ctl' = o.c /\ radio' = o.radio
    BY <1>2 DEF DoRequest, Take
  <2>2. owner \in Owners /\ owner # "PHYSICAL_MIC" /\ lag' = lag
    BY <1>2 DEF NetworkOwners, DoRequest
  <2>3. /\ Sound(o.c, o.radio)
        /\ o.c.maximum_key_ms = ctl.maximum_key_ms
        /\ o.c.physical_ptt_armed = ctl.physical_ptt_armed
        /\ o.c.physical_ptt_pressed = ctl.physical_ptt_pressed
        /\ \/ o.c = ctl /\ o.radio = radio
           \/ o.c.owner = "NONE" /\ o.c.state = "FAULTED"
           \/ o.c.owner = owner /\ o.c.key_ms = 0
        /\ ctl.state = "FAULTED" => o.c = ctl /\ o.radio = radio
    BY <1>0, <2>2, RequestSound
  <2>4. Kept
    BY <1>0, <2>1, <2>2, <2>3 DEF MicSound
  <2>5. QED
    BY <1>k, <2>1, <2>2, <2>3, <2>4 DEF LeavesFault
<1>3. ASSUME NEW owner \in NetworkOwners, DoRelease(owner)
      PROVE  IInv' /\ LeavesFault
  <2>1. PICK o \in Release(ctl, radio, owner) : ctl' = o.c /\ radio' = o.radio
    BY <1>3 DEF DoRelease, Take
  <2>2. \/ o.c = ctl /\ o.radio = radio
        \/ o \in StopOwner(ctl, radio) /\ ctl.owner = owner
    BY DEF Release, Unchanged, Outcome
  <2>3. lag' = lag /\ (ctl.owner = owner => ctl.state # "FAULTED")
    BY <1>0, <1>3 DEF DoRelease, Sound, NetworkOwners, Owners
  <2>4. CASE o.c = ctl /\ o.radio = radio
    BY <1>0, <1>k, <2>1, <2>3, <2>4 DEF LeavesFault
  <2>5. CASE o \in StopOwner(ctl, radio) /\ ctl.owner = owner
    <3>1. /\ Sound(o.c, o.radio) /\ o.c.owner = "NONE"
          /\ o.c.maximum_key_ms = ctl.maximum_key_ms
      BY <1>0, <2>5, StopOwnerSound
    <3>2. QED
      BY <1>0, <1>k, <2>1, <2>3, <2>5, <3>1 DEF MicSound, LeavesFault
  <2>6. QED
    BY <2>2, <2>4, <2>5
<1>4. ASSUME NEW pressed \in BOOLEAN, DoPtt(pressed)
      PROVE  IInv' /\ LeavesFault
  <2>1. PICK o \in PhysicalPtt(ctl, radio, pressed) :
          ctl' = o.c /\ radio' = o.radio
    BY <1>4 DEF DoPtt, Take
  <2>2. /\ Sound(o.c, o.radio)
        /\ MicSound(o.c)
        /\ o.c.maximum_key_ms = ctl.maximum_key_ms
        /\ \/ o.c.owner = "NONE"
           \/ o.c.key_ms = 0
           \/ o.c.owner = ctl.owner /\ o.c.key_ms = ctl.key_ms
        /\ ctl.state = "FAULTED" => o.c.state = "FAULTED"
    BY <1>0, PhysicalPttSound
  <2>3. lag' = lag
    BY <1>4 DEF DoPtt
  <2>4. QED
    BY <1>0, <1>k, <2>1, <2>2, <2>3 DEF LeavesFault
<1>5. CASE DoTick
  <2>1. PICK o \in Tick(ctl, radio) : ctl' = o.c /\ radio' = o.radio
    BY <1>5 DEF DoTick, Take
  <2>2. /\ Sound(o.c, o.radio) /\ MicSound(o.c)
        /\ o.c.maximum_key_ms = ctl.maximum_key_ms
        /\ o.c.owner # "NONE" => o.c.key_ms < o.c.maximum_key_ms
        /\ ctl.state = "FAULTED" => o.c = ctl /\ o.radio = radio
    BY <1>0, TickSound
  <2>3. lag' = 0 /\ ctl'.key_ms \in Nat
    BY <1>5, <2>1, <2>2 DEF DoTick, Sound, Control
  <2>4. QED
    BY <1>0, <2>1, <2>2, <2>3 DEF IInv, InTime, LeavesFault
<1>6. ASSUME NEW ms \in Timeouts, DoSetTimeout(ms)
      PROVE  IInv' /\ LeavesFault
  <2>1. ctl' = SetTimeout(ctl, ms, Timeouts) /\ radio' = radio /\ lag' = lag
    BY <1>6 DEF DoSetTimeout
  <2>2. /\ Sound(ctl', radio') /\ MicSound(ctl')
        /\ ctl' = ctl \/ ctl'.owner = "NONE"
        /\ ctl'.maximum_key_ms \in {ctl.maximum_key_ms, ms}
        /\ ctl'.state = ctl.state
    BY <1>0, <2>1, SetTimeoutSound
  <2>3. QED
    BY <1>0, <1>k, <2>1, <2>2 DEF LeavesFault
<1>7. CASE DoShutdown
  <2>1. PICK o \in StopOwner(ctl, radio) : ctl' = o.c /\ radio' = o.radio
    BY <1>7 DEF DoShutdown, Take
  <2>2. /\ Sound(o.c, o.radio) /\ o.c.owner = "NONE"
        /\ o.c.maximum_key_ms = ctl.maximum_key_ms
        /\ ctl.owner = "NONE" => o.c = ctl
    BY <1>0, StopOwnerSound
  <2>3. lag' = lag /\ (ctl.owner # "NONE" => ctl.state # "FAULTED")
    BY <1>0, <1>7 DEF DoShutdown, Sound
  <2>4. QED
    BY <1>0, <1>k, <2>1, <2>2, <2>3 DEF MicSound, LeavesFault
<1>8. CASE DoRecover
  <2>1. /\ Sound(ctl', radio') /\ ctl'.owner = "NONE" /\ ~radio'.key
        /\ ctl'.maximum_key_ms = ctl.maximum_key_ms
    BY <1>0, <1>8, RecoverSound
  <2>2. lag' = 0
    BY <1>8 DEF DoRecover
  <2>3. QED
    BY <1>0, <2>1, <2>2 DEF IInv, MicSound, InTime, LeavesFault
<1>9. ASSUME NEW d \in 1..LoopMs, Elapse(d)
      PROVE  IInv' /\ LeavesFault
  <2>1. /\ lag' = lag + d /\ lag + d <= LoopMs
        /\ radio' = radio
        /\ ctl' = Aged(ctl, d)
        /\ d \in Nat
    BY <1>0, <1>9 DEF Elapse
  <2>2. CASE ctl.owner = "NONE"
    <3>1. ctl' = ctl
      BY <2>1, <2>2 DEF Aged
    <3>2. QED
      BY <1>0, <2>1, <2>2, <3>1 DEF IInv, InTime, LeavesFault
  <2>3. CASE ctl.owner # "NONE"
    <3>1. ctl' = [ctl EXCEPT !.key_ms = ctl.key_ms + d]
      BY <2>1, <2>3 DEF Aged
    <3>2. Sound(ctl', radio') /\ MicSound(ctl')
      BY <1>0, <2>1, <3>1 DEF Sound, MicSound, Control
    <3>3. /\ ctl'.key_ms = ctl.key_ms + d
          /\ ctl'.maximum_key_ms = ctl.maximum_key_ms
          /\ ctl'.owner = ctl.owner
      BY <1>0, <3>1 DEF Sound, Control
    <3>4. ctl.state # "FAULTED"
      BY <1>0, <2>3 DEF Sound
    <3>5. InTime(ctl', lag')
      BY <1>0, <2>1, <3>3 DEF InTime
    <3>6. QED
      BY <1>0, <2>1, <3>2, <3>3, <3>4, <3>5 DEF IInv, LeavesFault
  <2>4. QED
    BY <2>2, <2>3
<1>10. CASE UNCHANGED vars
  BY <1>0, <1>k, <1>10 DEF vars, LeavesFault
<1>11. QED
  BY <1>1, <1>2, <1>3, <1>4, <1>5, <1>6, <1>7, <1>8, <1>9, <1>10 DEF Next

(* IInv holds in every reachable state. *)
THEOREM Invariance == Spec => []IInv
<1>1. Init => IInv
  BY InitIInv
<1>2. IInv /\ [Next]_vars => IInv'
  BY NextIInv
<1>3. QED
  BY <1>1, <1>2, PTL DEF Spec

(* Every reachable state has the types of the code's struct. *)
THEOREM TypeCorrect == Spec => []TypeOK
<1>1. IInv => TypeOK
  BY DEF IInv, Sound, TypeOK
<1>2. QED
  BY <1>1, Invariance, PTL

(* A carrier nobody owns is always reported as a fault: stop_owner and the *)
(* rollback of a failed request never end in RX with the radio keyed.      *)
THEOREM SilentCarrierExcluded == Spec => []NoSilentCarrier
<1>1. IInv => NoSilentCarrier
  BY DEF IInv, Sound, NoSilentCarrier
<1>2. QED
  BY <1>1, Invariance, PTL

(* No sequence of requests, releases, PTT edges, ticks and recoveries      *)
(* enters a start callback with the radio already keyed.                   *)
THEOREM OneTransmitterAtATime == Spec => []NeverKeyedTwice
<1>1. IInv => NeverKeyedTwice
  BY DEF IInv, Sound, NeverKeyedTwice
<1>2. QED
  BY <1>1, Invariance, PTL

(* The watchdog of flex1500_tx_control_tick bounds the time on the air for *)
(* every set of timeouts and every loop time.                              *)
THEOREM WatchdogBound == Spec => []KeyTimeBounded
<1>1. IInv => KeyTimeBounded
  <2> SUFFICES ASSUME IInv, ctl.owner # "NONE"
               PROVE  ctl.key_ms < ctl.maximum_key_ms + LoopMs
    BY DEF KeyTimeBounded
  <2>1. lag \in Nat /\ lag <= LoopMs /\ LoopMs \in Nat
    BY LoopAssumption DEF IInv
  <2>2. ctl.key_ms \in Nat /\ ctl.maximum_key_ms \in Nat
    BY DEF IInv, Sound, Control
  <2>3. ctl.key_ms - lag < ctl.maximum_key_ms
    BY DEF IInv, InTime
  <2>4. QED
    BY <2>1, <2>2, <2>3
<1>2. QED
  BY <1>1, Invariance, PTL

(* The microphone is on the air only while its button is held and armed.   *)
THEOREM MicrophoneNeedsPtt == Spec => []MicrophoneHeld
<1>1. IInv => MicrophoneHeld
  BY DEF IInv, MicSound, MicrophoneHeld
<1>2. QED
  BY <1>1, Invariance, PTL

(* A fault ends only with a recovery that leaves an unowned, unkeyed radio. *)
THEOREM FaultIsLatched == Spec => FaultLatched
<1>1. IInv /\ [Next]_vars => [LeavesFault]_vars
  BY NextIInv
<1>2. QED
  BY <1>1, Invariance, PTL DEF Spec, FaultLatched

-----------------------------------------------------------------------------
(* No bound of the PA filter table lies inside an amateur allocation: all  *)
(* of an allocation, and a transmit frequency up to 11025 Hz below it, is  *)
(* served by one PA filter, so the offset of AM and translated raw I/Q     *)
(* never crosses into another filter than the one the start selects.       *)
THEOREM OneFilterPerAllocation ==
  ASSUME NEW b \in Allocations,
         NEW f \in (b.low - 11025)..b.high, NEW g \in (b.low - 11025)..b.high
  PROVE  PaFilterFor(f) = PaFilterFor(g)
  BY SMTT(60) DEF Allocations, Band, PaFilterFor

(* What flex1500_am_frequency_allowed and                                  *)
(* flex1500_network_iq_frequency_allowed accept for a carrier holds for    *)
(* its whole spectrum: all of it lies in the one allocation and behind the *)
(* one PA filter.                                                          *)
THEOREM WholeSpectrumContained ==
  ASSUME NEW f \in Nat, NEW w \in Nat, Contained(f, w),
         NEW x \in (f - w)..(f + w)
  PROVE  Contained(x, 0) /\ PaFilterFor(x) = PaFilterFor(f)
<1>1. PICK b \in Allocations : b.low + w <= f /\ f <= b.high - w
  BY DEF Contained
<1>2. b.low \in Nat /\ b.high \in Nat
  BY <1>1 DEF Allocations, Band
<1>3. b.low <= x /\ x <= b.high /\ b.low <= f /\ f <= b.high
  BY <1>1, <1>2
<1>4. Contained(x, 0)
  BY <1>1, <1>2, <1>3 DEF Contained
<1>5. f \in (b.low - 11025)..b.high /\ x \in (b.low - 11025)..b.high
  BY <1>2, <1>3
<1>6. QED
  BY <1>1, <1>4, <1>5, OneFilterPerAllocation

(* 60 m is no allocation of the table, whatever the width: there the       *)
(* daemon allows only the carrier and the upper sideband, which is also    *)
(* the default sideband there.                                             *)
THEOREM SixtyMetersUpperOnly ==
  ASSUME NEW f \in Nat, SixtyMeters(f), NEW w \in Nat
  PROVE  /\ ~Contained(f, w)
         /\ ~VoiceAllowed(f, FALSE) /\ ~AmAllowed(f) /\ ~IqAllowed(f)
         /\ TuneAllowed(f) /\ DefaultUpper(f) /\ DefaultAllowed(f)
<1>1. 5330500 <= f /\ f <= 5403500
  BY DEF SixtyMeters
<1>2. \A b \in Allocations : b.high <= 4000000 \/ b.low >= 7000000
  BY DEF Allocations, Band
<1>3. \A b \in Allocations : b.low \in Nat /\ b.high \in Nat
  BY DEF Allocations, Band
<1>4. \A v \in Nat : ~Contained(f, v)
  BY <1>1, <1>2, <1>3 DEF Contained
<1>5. DefaultUpper(f)
  BY <1>1 DEF DefaultUpper
<1>6. QED
  BY <1>4, <1>5
  DEF VoiceAllowed, AmAllowed, IqAllowed, AmWidth, IqWidth, TuneAllowed,
      DefaultAllowed

(* flex1500_default_ssb_upper_sideband finds a sideband wherever the       *)
(* daemon allows one at all, and only at frequencies the radio can tune.   *)
THEOREM DefaultSidebandFound ==
  ASSUME NEW f \in Nat, NEW upper \in BOOLEAN, VoiceAllowed(f, upper)
  PROVE  DefaultAllowed(f) /\ Tunable(f)
<1>1. CASE Contained(f, 0)
  <2>1. PICK b \in Allocations : b.low + 0 <= f /\ f <= b.high - 0
    BY <1>1 DEF Contained
  <2>2. Tunable(f)
    BY <2>1 DEF Allocations, Band, Tunable, MinFrequency, MaxFrequency
  <2>3. QED
    BY <1>1, <2>2 DEF DefaultAllowed, VoiceAllowed
<1>2. CASE SixtyMeters(f)
  <2>1. Tunable(f)
    BY <1>2 DEF SixtyMeters, Tunable, MinFrequency, MaxFrequency
  <2>2. QED
    BY <1>2, <2>1, SixtyMetersUpperOnly
<1>3. QED
  BY <1>1, <1>2 DEF VoiceAllowed

-----------------------------------------------------------------------------
(* While owned, the radio is where the start callback checked it. *)
Permitted ==
  ctl.owner # "NONE" =>
    /\ air.freq = dial
    /\ EmissionPermitted(air.emission, dial)

(* The inductive strengthening of the module's invariants. *)
PolicyInv ==
  /\ dial \in Nat
  /\ api \in [rx_mode : RxModes, tx : TxSettings]
  /\ Permitted
  /\ OnAirAsReported
  /\ PolicyNeverFaults

-----------------------------------------------------------------------------
(* A daemon step is a step of the ownership controller or leaves it alone. *)
LEMMA StepRefines == [PolicyNext]_allVars => [Next]_vars
<1> SUFFICES ASSUME [PolicyNext]_allVars PROVE [Next]_vars
  OBVIOUS
<1> USE DEF vars, policyVars
<1>1. ASSUME NEW kind \in {"AWARE", "LEGACY"}, AcquireStation(kind)
      PROVE  [Next]_vars
  BY <1>1 DEF AcquireStation
<1>2. CASE ReleaseStation
  BY <1>2 DEF ReleaseStation
<1>3. CASE ExpireStation
  <2>1. CASE ctl.owner \in {"TUNE", "HTTP"}
    BY <1>3, <2>1 DEF ExpireStation, Next, DoShutdown
  <2>2. CASE ctl.owner \notin {"TUNE", "HTTP"}
    BY <1>3, <2>2 DEF ExpireStation, Take, Unchanged, Outcome
  <2>3. QED
    BY <2>1, <2>2
<1>4. ASSUME NEW f \in Requested, HttpTune(f) \/ RtlTune(f)
      PROVE  [Next]_vars
  BY <1>4 DEF HttpTune, RtlTune, MoveDial
<1>5. ASSUME NEW mode \in RxModes, SetMode(mode)
      PROVE  [Next]_vars
  BY <1>5 DEF SetMode
<1>6. ASSUME NEW v \in TxSettings, SetTx(v)
      PROVE  [Next]_vars
  BY <1>6 DEF SetTx
<1>7. ASSUME NEW ms \in Timeouts, SetKeyTimeout(ms)
      PROVE  [Next]_vars
  BY <1>7 DEF SetKeyTimeout, Next
<1>8. ASSUME NEW mode \in SessionModes, OpenSession(mode)
      PROVE  [Next]_vars
  BY <1>8 DEF OpenSession
<1>9. "HTTP" \in NetworkOwners /\ "TUNE" \in NetworkOwners
  BY DEF NetworkOwners, Owners
<1>10. CASE CloseSession
  BY <1>9, <1>10 DEF CloseSession, Next
<1>11. CASE KeySession \/ StartTune
  BY <1>9, <1>11 DEF KeySession, StartTune, Next
<1>12. CASE UnkeySession \/ StopTune
  BY <1>9, <1>12 DEF UnkeySession, StopTune, Next
<1>13. CASE Press \/ Unpress
  BY <1>13 DEF Press, Unpress, Next
<1>14. CASE Arm \/ Watchdog \/ Recover
  BY <1>14 DEF Arm, Watchdog, Recover, Next
<1>15. ASSUME NEW d \in 1..LoopMs, Pass(d)
       PROVE  [Next]_vars
  BY <1>15 DEF Pass, Next
<1>16. CASE UNCHANGED allVars
  BY <1>16 DEF allVars
<1>17. QED
  BY <1>1, <1>2, <1>3, <1>4, <1>5, <1>6, <1>7, <1>8, <1>10, <1>11, <1>12,
     <1>13, <1>14, <1>15, <1>16 DEF PolicyNext

(* The daemon with its interlocks implements the free-running controller,  *)
(* so every theorem about the controller holds in the daemon too.          *)
THEOREM PolicyRefinesControl == PolicySpec => Spec
<1>1. PolicyInit => Init
  BY DEF PolicyInit
<1>2. QED
  BY <1>1, StepRefines, PTL DEF PolicySpec, Spec

-----------------------------------------------------------------------------
(* A call that can only stop an owner leaves what is on the air as it was. *)
LEMMA OffAirKeeps ==
  ASSUME PolicyInv, OffAir, ctl'.owner \in {"NONE", ctl.owner},
         dial' = dial, api' = api
  PROVE  PolicyInv'
<1>1. CASE ctl'.owner = "NONE"
  BY <1>1 DEF PolicyInv, OffAir, Permitted, OnAirAsReported, PolicyNeverFaults
<1>2. CASE ctl'.owner # "NONE"
  <2>1. ctl'.owner = ctl.owner /\ air' = air /\ vetoed' = vetoed
    BY <1>2 DEF OffAir
  <2>2. QED
    BY <1>2, <2>1
    DEF PolicyInv, Permitted, OnAirAsReported, PolicyNeverFaults
<1>3. QED
  BY <1>1, <1>2

(* A request starts only what the start callback has checked, and never    *)
(* has it refuse if the caller's own test implies the callback's.          *)
LEMMA OnAirKeeps ==
  ASSUME NEW owner \in Owners, PolicyInv, OnAir(owner),
         ctl'.owner \in {"NONE", ctl.owner, owner},
         Starts(owner) => StartPolicy(owner),
         dial' = dial, api' = api
  PROVE  PolicyInv'
<1>1. PolicyNeverFaults'
  BY DEF PolicyInv, OnAir, PolicyNeverFaults
<1>2. CASE ctl'.owner = "NONE"
  BY <1>1, <1>2 DEF PolicyInv, Permitted, OnAirAsReported
<1>3. CASE ctl'.owner # "NONE" /\ ctl'.owner = ctl.owner
  <2>1. air' = air
    BY <1>3 DEF OnAir
  <2>2. QED
    BY <1>1, <1>3, <2>1 DEF PolicyInv, Permitted, OnAirAsReported
<1>4. CASE ctl'.owner # "NONE" /\ ctl'.owner # ctl.owner
  <2>1. ctl'.owner = owner /\ air' = Profile(owner) /\ StartPolicy(owner)
    BY <1>4 DEF OnAir
  <2>2. Permitted'
    BY <2>1 DEF Permitted, Profile, StartPolicy
  <2>3. OnAirAsReported'
    <3>1. SUFFICES ASSUME owner = "PHYSICAL_MIC" PROVE OnAirAsReported'
      BY <2>1 DEF OnAirAsReported
    <3>2. EmissionOf(owner) = PhysicalEmission(station, api.rx_mode, dial)
      BY <3>1 DEF EmissionOf
    <3>3. /\ air'.tx = api.tx
          /\ air'.emission = PhysicalEmission(station, api.rx_mode, dial)
          /\ air'.default = (station = "LEGACY")
      BY <2>1, <3>1, <3>2 DEF Profile
    <3>4. QED
      BY <3>3 DEF OnAirAsReported, PhysicalEmission
  <2>4. QED
    BY <1>1, <2>2, <2>3 DEF PolicyInv
<1>5. QED
  BY <1>2, <1>3, <1>4

(* A release leaves the owner or nobody. *)
LEMMA ReleaseOwner ==
  ASSUME NEW c, NEW rd, Sound(c, rd), NEW owner, NEW o \in Release(c, rd, owner)
  PROVE  o.c.owner \in {"NONE", c.owner}
  BY StopOwnerSound DEF Release, Unchanged, Outcome

(* A press can only bring in the microphone. *)
LEMMA PreemptOwner ==
  ASSUME NEW c, NEW rd, Sound(c, rd), NEW o \in Preempt(c, rd)
  PROVE  o.c.owner \in {"NONE", c.owner, "PHYSICAL_MIC"}
<1>1. "PHYSICAL_MIC" \in Owners
  BY DEF Owners
<1>2. CASE c.owner \in {"NONE", "PHYSICAL_MIC"}
  <2>1. o \in Request(c, rd, "PHYSICAL_MIC")
    BY <1>2 DEF Preempt
  <2>2. QED
    BY <1>1, <2>1, RequestSound
<1>3. CASE c.owner \notin {"NONE", "PHYSICAL_MIC"}
  <2>1. PICK s \in StopOwner(c, rd) :
          o \in IF s.r = "OK" THEN Request(s.c, s.radio, "PHYSICAL_MIC")
                              ELSE {s}
    BY <1>3 DEF Preempt
  <2>2. Sound(s.c, s.radio) /\ s.c.owner = "NONE"
    BY StopOwnerSound
  <2>3. CASE s.r = "OK"
    <3>1. o \in Request(s.c, s.radio, "PHYSICAL_MIC")
      BY <2>1, <2>3
    <3>2. QED
      BY <1>1, <2>2, <3>1, RequestSound
  <2>4. CASE s.r # "OK"
    BY <2>1, <2>2, <2>4
  <2>5. QED
    BY <2>3, <2>4
<1>4. QED
  BY <1>2, <1>3

(* The same of both edges of the button. *)
LEMMA PttOwner ==
  ASSUME NEW c, NEW rd, Sound(c, rd), NEW pressed \in BOOLEAN,
         NEW o \in PhysicalPtt(c, rd, pressed)
  PROVE  \/ o.c.owner \in {"NONE", c.owner}
         \/ pressed /\ o.c.owner = "PHYSICAL_MIC"
<1> DEFINE p == [c EXCEPT !.physical_ptt_pressed = pressed]
           q == [p EXCEPT !.physical_ptt_armed = TRUE,
                          !.state = IF @ = "STARTUP_INHIBIT"
                                    THEN "RX" ELSE @]
<1>1. Sound(p, rd) /\ p.owner = c.owner /\ q.owner = c.owner
  BY DEF Sound, Control
<1>3. CASE pressed /\ o \in Preempt(p, rd)
  BY <1>1, <1>3, PreemptOwner
<1>4. CASE o \in StopOwner(p, rd)
  BY <1>1, <1>4, StopOwnerSound
<1>5. CASE o.c.owner = c.owner
  BY <1>5
<1>6. QED
  <2>1. CASE ~c.enabled
    BY <1>5, <2>1 DEF PhysicalPtt, Unchanged, Outcome
  <2>2. CASE c.enabled /\ ~c.physical_ptt_armed
    <3>1. o.c = p \/ o.c = q
      BY <2>2 DEF PhysicalPtt, Unchanged, Outcome
    <3>2. QED
      BY <1>1, <1>5, <3>1
  <2>3. CASE c.enabled /\ c.physical_ptt_armed /\ pressed
    BY <1>3, <2>3 DEF PhysicalPtt
  <2>4. CASE c.enabled /\ c.physical_ptt_armed /\ ~pressed
    <3>1. CASE c.owner = "PHYSICAL_MIC"
      BY <1>4, <2>4, <3>1 DEF PhysicalPtt
    <3>2. CASE c.owner # "PHYSICAL_MIC"
      <4>1. o.c = p
        BY <2>4, <3>2 DEF PhysicalPtt, Unchanged, Outcome
      <4>2. QED
        BY <1>1, <1>5, <4>1
    <3>3. QED
      BY <3>1, <3>2
  <2>5. QED
    BY <2>1, <2>2, <2>3, <2>4

-----------------------------------------------------------------------------
(* PolicyInv holds initially. *)
LEMMA InitPolicyInv == PolicyInit => PolicyInv
<1> SUFFICES ASSUME PolicyInit PROVE PolicyInv
  OBVIOUS
<1>1. ctl.owner = "NONE"
  BY DEF PolicyInit, Init, Fresh
<1>2. QED
  BY <1>1, TxSettingsAssumption
  DEF PolicyInit, PolicyInv, Permitted, OnAirAsReported, PolicyNeverFaults,
      RxModes

(* Every step keeps PolicyInv: settings and dial move only while nobody    *)
(* owns the transmitter, and the tests before a start imply the callback's.*)
LEMMA NextPolicyInv == IInv /\ PolicyInv /\ [PolicyNext]_allVars => PolicyInv'
<1> SUFFICES ASSUME IInv, PolicyInv, [PolicyNext]_allVars
             PROVE  PolicyInv'
  OBVIOUS
<1>0. /\ Sound(ctl, radio) /\ MicSound(ctl) /\ ctl \in Control
      /\ {"HTTP", "TUNE", "PHYSICAL_MIC"} \subseteq Owners
      /\ ctl.maximum_key_ms # 0
  BY TimeoutsAssumption DEF IInv, Sound, Owners
<1>1. ASSUME ctl'.owner = ctl.owner, UNCHANGED <<dial, api, air, vetoed>>
      PROVE  PolicyInv'
  BY <1>1 DEF PolicyInv, Permitted, OnAirAsReported, PolicyNeverFaults
<1>2. ASSUME NEW kind \in {"AWARE", "LEGACY"}, AcquireStation(kind)
      PROVE  PolicyInv'
  BY <1>1, <1>2 DEF AcquireStation
<1>3. CASE ReleaseStation
  BY <1>1, <1>3 DEF ReleaseStation
<1>4. CASE ExpireStation
  <2>1. CASE ctl.owner \in {"TUNE", "HTTP"}
    BY <1>0, <1>4, <2>1, OffAirKeeps, StopOwnerSound DEF ExpireStation, Take
  <2>2. CASE ctl.owner \notin {"TUNE", "HTTP"}
    <3>1. ctl' = ctl
      BY <1>4, <2>2 DEF ExpireStation, Take, Unchanged, Outcome
    <3>2. QED
      BY <1>4, <3>1, OffAirKeeps DEF ExpireStation
  <2>3. QED
    BY <2>1, <2>2
<1>5. ASSUME NEW f \in Requested, HttpTune(f) \/ RtlTune(f)
      PROVE  PolicyInv'
  BY <1>5, RequestedAssumption
  DEF HttpTune, RtlTune, MoveDial, Idle, PolicyInv, Permitted,
      OnAirAsReported, PolicyNeverFaults
<1>6. ASSUME NEW mode \in RxModes, SetMode(mode)
      PROVE  PolicyInv'
  BY <1>6 DEF SetMode, Idle, PolicyInv, Permitted, OnAirAsReported,
              PolicyNeverFaults
<1>7. ASSUME NEW v \in TxSettings, SetTx(v)
      PROVE  PolicyInv'
  BY <1>7 DEF SetTx, Idle, PolicyInv, Permitted, OnAirAsReported,
              PolicyNeverFaults
<1>8. ASSUME NEW ms \in Timeouts, SetKeyTimeout(ms)
      PROVE  PolicyInv'
  BY <1>0, <1>1, <1>8
  DEF SetKeyTimeout, DoSetTimeout, SetTimeout, Control, policyVars
<1>9. ASSUME NEW mode \in SessionModes, OpenSession(mode)
      PROVE  PolicyInv'
  BY <1>1, <1>9 DEF OpenSession
<1>10. CASE CloseSession
  <2>1. ctl'.owner \in {"NONE", ctl.owner}
    BY <1>0, <1>10, ReleaseOwner DEF CloseSession, DoRelease, Take, vars
  <2>2. QED
    BY <1>10, <2>1, OffAirKeeps DEF CloseSession
<1>11. CASE KeySession
  <2>1. ctl'.owner \in {"NONE", ctl.owner, "HTTP"}
    BY <1>0, <1>11, RequestSound DEF KeySession, DoRequest, Take
  <2>2. StartPolicy("HTTP")
    BY <1>11
    DEF KeySession, SessionPrecheck, StartPolicy, EmissionOf, ModeEmission,
        EmissionPermitted
  <2>3. QED
    BY <1>0, <1>11, <2>1, <2>2, OnAirKeeps DEF KeySession
<1>12. CASE StartTune
  <2>1. ctl'.owner \in {"NONE", ctl.owner, "TUNE"}
    BY <1>0, <1>12, RequestSound DEF StartTune, DoRequest, Take
  <2>2. StartPolicy("TUNE")
    BY <1>12
    DEF StartTune, TunePrecheck, StartPolicy, EmissionOf, EmissionPermitted
  <2>3. QED
    BY <1>0, <1>12, <2>1, <2>2, OnAirKeeps DEF StartTune
<1>13. CASE UnkeySession \/ StopTune
  <2>1. ctl'.owner \in {"NONE", ctl.owner}
    BY <1>0, <1>13, ReleaseOwner DEF UnkeySession, StopTune, DoRelease, Take
  <2>2. QED
    BY <1>13, <2>1, OffAirKeeps DEF UnkeySession, StopTune
<1>14. CASE Press
  <2>1. ctl'.owner \in {"NONE", ctl.owner, "PHYSICAL_MIC"}
    BY <1>0, <1>14, PttOwner DEF Press, DoPtt, Take
  <2>2. Starts("PHYSICAL_MIC") => StartPolicy("PHYSICAL_MIC")
    <3>1. [ctl EXCEPT !.owner = "NONE"].physical_ptt_armed
             = ctl.physical_ptt_armed
      BY <1>0 DEF Control
    <3>2. QED
      BY <1>14, <3>1 DEF Press, PressPrecheck, Starts, RequestRefusal
  <2>3. QED
    BY <1>0, <1>14, <2>1, <2>2, OnAirKeeps DEF Press
<1>15. CASE Unpress
  <2>1. ctl'.owner \in {"NONE", ctl.owner}
    BY <1>0, <1>15, PttOwner DEF Unpress, DoPtt, Take
  <2>2. QED
    BY <1>15, <2>1, OffAirKeeps DEF Unpress
<1>16. CASE Arm
  BY <1>0, <1>1, <1>16 DEF Arm, DoArm, ArmPhysicalPtt, Control, policyVars
<1>17. CASE Watchdog
  <2>1. ctl'.owner \in {"NONE", ctl.owner}
    BY <1>0, <1>17, TickSound DEF Watchdog, DoTick, Take
  <2>2. QED
    BY <1>17, <2>1, OffAirKeeps DEF Watchdog
<1>18. CASE Recover
  <2>1. ctl'.owner = "NONE"
    BY <1>18 DEF Recover, DoRecover, ArmPhysicalPtt, Fresh
  <2>2. QED
    BY <1>18, <2>1, OffAirKeeps DEF Recover
<1>19. ASSUME NEW d \in 1..LoopMs, Pass(d)
       PROVE  PolicyInv'
  BY <1>0, <1>1, <1>19 DEF Pass, Elapse, Aged, Control, policyVars
<1>20. CASE UNCHANGED allVars
  BY <1>1, <1>20 DEF allVars
<1>21. QED
  BY <1>2, <1>3, <1>4, <1>5, <1>6, <1>7, <1>8, <1>9, <1>10, <1>11, <1>12,
     <1>13, <1>14, <1>15, <1>16, <1>17, <1>18, <1>19, <1>20 DEF PolicyNext

(* The inductive invariant of the daemon's transmit policy. *)
THEOREM PolicyInvariance == PolicySpec => []PolicyInv
<1>1. PolicySpec => []IInv
  BY PolicyRefinesControl, Invariance, PTL
<1>2. QED
  BY <1>1, InitPolicyInv, NextPolicyInv, PTL DEF PolicySpec

(* What the start callback checks puts the whole emission in one           *)
(* allocation, or is an upper sideband or carrier on 60 m.                 *)
LEMMA PermittedIsAllowed ==
  ASSUME PolicyInv PROVE EmissionAllowed
<1> SUFFICES ASSUME ctl.owner # "NONE"
             PROVE  /\ air.freq = dial
                    /\ \/ \E b \in Allocations :
                            \A x \in Reaches(air.emission, dial) :
                              b.low <= x /\ x <= b.high
                       \/ air.emission \in {"TUNE", "USB"} /\ SixtyMeters(dial)
  BY DEF EmissionAllowed
<1>1. dial \in Nat /\ air.freq = dial /\ EmissionPermitted(air.emission, dial)
  BY DEF PolicyInv, Permitted
<1>2. \A b \in Allocations : b.low \in Nat /\ b.high \in Nat
  BY DEF Allocations, Band
<1>3. ASSUME NEW w \in Nat, Contained(dial, w)
      PROVE  \E b \in Allocations : \A x \in {dial - w, dial, dial + w} :
               b.low <= x /\ x <= b.high
  <2>1. PICK b \in Allocations : b.low + w <= dial /\ dial <= b.high - w
    BY <1>3 DEF Contained
  <2>2. \A x \in {dial - w, dial, dial + w} : b.low <= x /\ x <= b.high
    BY <1>1, <1>2, <2>1
  <2>3. QED
    BY <2>1, <2>2
<1>4. CASE air.emission = "AM"
  BY <1>1, <1>3, <1>4
  DEF EmissionPermitted, AmAllowed, AmWidth, Reaches
<1>5. CASE air.emission = "IQ"
  BY <1>1, <1>3, <1>5
  DEF EmissionPermitted, IqAllowed, IqWidth, Reaches
<1>6. CASE air.emission \in {"TUNE", "USB", "LSB"}
  <2>1. Reaches(air.emission, dial) = {dial}
    BY <1>6 DEF Reaches
  <2>2. Contained(dial, 0)
          \/ (air.emission \in {"TUNE", "USB"} /\ SixtyMeters(dial))
    BY <1>1, <1>6 DEF EmissionPermitted, TuneAllowed, VoiceAllowed
  <2>3. QED
    BY <1>1, <1>3, <2>1, <2>2
<1>7. CASE air.emission \notin {"AM", "IQ", "TUNE", "USB", "LSB"}
  BY <1>1, <1>7 DEF EmissionPermitted
<1>8. QED
  BY <1>4, <1>5, <1>6, <1>7

(* EmissionAllowed holds for every frequency a client may ask for: no      *)
(* order of retunes, mode changes, presses, leases and recoveries puts an  *)
(* emission of the daemon outside the allocations of protocol.c.           *)
THEOREM AlwaysInBand == PolicySpec => []EmissionAllowed
  BY PolicyInvariance, PermittedIsAllowed, PTL

(* The settings of a running microphone transmission are the reported ones. *)
THEOREM NothingStaged == PolicySpec => []OnAirAsReported
<1>1. PolicyInv => OnAirAsReported
  BY DEF PolicyInv
<1>2. QED
  BY <1>1, PolicyInvariance, PTL

(* No request outside the band plan ever faults the transmitter. *)
THEOREM RefusalsFaultNothing == PolicySpec => []PolicyNeverFaults
<1>1. PolicyInv => PolicyNeverFaults
  BY DEF PolicyInv
<1>2. QED
  BY <1>1, PolicyInvariance, PTL
=============================================================================
