---------------------------- MODULE UsbTxProofs ----------------------------
(***************************************************************************)
(* Proofs about the transmit half of the USB driver, for every set of      *)
(* dials and gains, every filter table and every failure of a command.     *)
(***************************************************************************)
EXTENDS UsbTx, WellFoundedInduction, TLAPS

(* Later is still to come if earlier is: the steps of a routine are taken  *)
(* in their order.                                                         *)
Follows(earlier, later) == earlier \in todo => later \in todo

StartSteps == {"PA", "AMP", "STREAM", "PREROLL", "MUTE", "TXFREQ", "KEY",
               "SETTLE", "UNMUTE"}

CleanupSteps == {"C_MUTE", "C_UNKEY", "C_RESTORE", "C_UNMUTE", "C_PA",
                 "C_AMP", "C_STREAM"}

RestoreSteps == {"GAIN", "RXFREQ", "RXFILTER", "ANTENNA", "PREP_PA",
                 "PREP_AMP"}

(* Which steps each routine has, and where the controller is meanwhile. *)
RoutineSound ==
  /\ op = "IDLE" => todo = {}
  /\ op \in {"START", "ROLLBACK"} => phase = "REST"
  /\ op = "START" => todo \subseteq StartSteps
  /\ op = "STOP" => phase = "OWNED"
  /\ phase = "OWNED" => op \in {"IDLE", "STOP"}
  /\ phase = "ROLLBACK" => op = "IDLE"
  /\ op \in {"ROLLBACK", "STOP"} => todo \subseteq CleanupSteps
  /\ op \in {"RETUNE", "GAIN"} => phase \in {"REST", "FAULTED"}
  /\ op = "RETUNE" => todo \subseteq {"T_FREQ", "T_FILTER", "T_PA"}
  /\ op = "GAIN" => todo \subseteq {"G_GAIN"}
  /\ op \in {"RESTORE", "UNDO"} => phase = "DOWN"
  /\ op = "RESTORE" => todo \subseteq RestoreSteps
  /\ op = "UNDO" => todo \subseteq {"UNDO_PA", "UNDO_AMP"}
  /\ op = "DISABLE" => todo \subseteq {"C_PA", "C_AMP"}

(* Outside a start, a clean-up and an owned transmitter no attempt flag is *)
(* set.                                                                    *)
AtRest ==
  op \notin {"START", "ROLLBACK", "STOP"} /\ phase # "OWNED" =>
    NothingToStop(dev)

(* A SET_TR(1) without a SET_TR(0) is known to the driver, and its         *)
(* clean-up is to come.                                                    *)
KeyKnown ==
  ~hist.unkey_sent =>
    /\ dev.key_attempted
    /\ \/ op = "START" /\ "KEY" \notin todo
       \/ op \in {"ROLLBACK", "STOP"} /\ "C_UNKEY" \in todo
       \/ op = "IDLE" /\ phase = "OWNED"

(* The same of the amplifier. *)
AmpKnown ==
  ~hist.amp_off_sent =>
    /\ (dev.amp_enable_attempted \/ dev.transmit_prepared)
    /\ op = "DISABLE" => "C_AMP" \in todo
    /\ phase = "DOWN" => op # "IDLE"

(* How far a start has got. *)
StartSound ==
  op = "START" =>
    /\ dev.transmit_prepared /\ dev.freq # 0 /\ dev.emission \in Emissions
    /\ Follows("PA", "KEY") /\ Follows("AMP", "KEY") /\ Follows("STREAM", "KEY")
    /\ Follows("PREROLL", "KEY") /\ Follows("MUTE", "KEY")
    /\ Follows("TXFREQ", "KEY") /\ Follows("KEY", "UNMUTE")
    /\ Follows("KEY", "SETTLE")
    /\ "PA" \in todo \/ (hw.pa = PaFilter[dev.freq] /\ dev.pa_filter_known)
    /\ "AMP" \in todo \/ hw.amp
    /\ "STREAM" \in todo \/ dev.slots
    /\ "MUTE" \in todo \/ "UNMUTE" \notin todo \/ hw.mute
    /\ "TXFREQ" \in todo \/ /\ hw.tuned = dev.freq - TxOffset(dev.emission)
                            /\ dev.frequency_attempted
    /\ IF "KEY" \in todo THEN hist.unkey_sent
       ELSE hw.tr /\ dev.keyed /\ dev.key_attempted
    /\ "KEY" \in todo \/ (Live(dev) => hist.live)
    /\ "SETTLE" \in todo \/ hist.live

(* An owned transmitter has every flag its stop looks at. *)
OwnedSound ==
  phase = "OWNED" =>
    /\ dev.transmit_prepared /\ dev.freq # 0
    /\ op = "IDLE" =>
         /\ dev.pa_filter_known /\ dev.keyed /\ dev.key_attempted
         /\ dev.slots /\ dev.frequency_attempted

(* What a stop has restored, as long as nothing failed. *)
StopSound ==
  op = "STOP" /\ ~err =>
    /\ Follows("C_MUTE", "C_UNMUTE")
    /\ "C_UNKEY" \in todo \/ ~hw.tr
    /\ "C_UNMUTE" \in todo \/ ~hw.mute
    /\ "C_RESTORE" \in todo \/ hw.tuned = dev.freq
    /\ "C_PA" \in todo \/ hw.pa = PaFilter[dev.freq]
    /\ "C_AMP" \in todo \/ ~hw.amp

(* A retune selects its filters for the new dial. *)
RetuneSound ==
  op = "RETUNE" =>
    /\ dev.dial # 0
    /\ Follows("T_FREQ", "T_FILTER")
    /\ "T_FREQ" \in todo \/ dev.freq = dev.dial

(* The driver and, while it is closed, the recovery know the dial and the  *)
(* gain last accepted.                                                     *)
SettingsKnown ==
  IF phase = "DOWN" \/ op = "DISABLE"
  THEN dev.dial = hist.dial /\ dev.level = hist.gain
  ELSE dev.freq = hist.dial /\ dev.gain = hist.gain

(* How far a recovery has got. *)
RestoreSound ==
  /\ phase = "DOWN" /\ op = "IDLE" => dev.freq = 0
  /\ op = "RESTORE" =>
    /\ dev.dial = 0 =>
         dev.freq = 0 /\ todo \cap {"RXFREQ", "RXFILTER", "PREP_PA"} = {}
    /\ Follows("RXFREQ", "RXFILTER")
    /\ dev.dial # 0 => Follows("RXFREQ", "PREP_PA")
    /\ "GAIN" \in todo \/ (hw.gain = dev.level /\ dev.gain = dev.level)
    /\ dev.dial # 0 =>
         /\ "RXFREQ" \in todo \/ (hw.tuned = dev.dial /\ dev.freq = dev.dial)
         /\ "RXFILTER" \in todo \/ hw.filter = RxFilter[dev.dial]
         /\ "PREP_PA" \in todo \/ hw.pa = PaFilter[dev.dial]

(* The inductive invariant. *)
DriverInv ==
  /\ TypeOK /\ RoutineSound /\ AtRest
  /\ KeyKnown /\ AmpKnown
  /\ StartSound /\ OwnedSound /\ StopSound
  /\ RetuneSound /\ SettingsKnown /\ RestoreSound

(* The 28 commands and their places in Order. *)
LEMMA Places ==
  /\ Len(Order) = 28
  /\ Order[1] = "PA" /\ Order[2] = "AMP" /\ Order[3] = "STREAM"
  /\ Order[4] = "PREROLL" /\ Order[5] = "MUTE" /\ Order[6] = "TXFREQ"
  /\ Order[7] = "KEY" /\ Order[8] = "SETTLE" /\ Order[9] = "UNMUTE"
  /\ Order[10] = "C_MUTE" /\ Order[11] = "C_UNKEY" /\ Order[12] = "C_RESTORE"
  /\ Order[13] = "C_UNMUTE" /\ Order[14] = "C_PA" /\ Order[15] = "C_AMP"
  /\ Order[16] = "C_STREAM" /\ Order[17] = "GAIN" /\ Order[18] = "RXFREQ"
  /\ Order[19] = "RXFILTER" /\ Order[20] = "ANTENNA" /\ Order[21] = "PREP_PA"
  /\ Order[22] = "PREP_AMP" /\ Order[23] = "UNDO_PA" /\ Order[24] = "UNDO_AMP"
  /\ Order[25] = "T_FREQ" /\ Order[26] = "T_FILTER" /\ Order[27] = "T_PA"
  /\ Order[28] = "G_GAIN"
BY DEF Order, StartOrder, CleanupOrder, RestoreOrder, RetuneOrder, GainOrder

(* No command has two places, so a place is the rank of its command. *)
LEMMA OneRank ==
  ASSUME NEW n \in 1..28
  PROVE  Rank[Order[n]] = n
<1>1. \A i \in 1..28 : Order[i] = Order[n] => i = n
  BY Places
<1>2. Order[n] \in Steps
  BY Places DEF Steps, Elements
<1>3. Rank[Order[n]] = CHOOSE i \in 1..28 : Order[i] = Order[n]
  BY <1>2, Places DEF Rank
<1> QED
  BY <1>1, <1>3

(* The ranks, spelled out. *)
LEMMA Ranks ==
  /\ Rank["PA"] = 1 /\ Rank["AMP"] = 2 /\ Rank["STREAM"] = 3
  /\ Rank["PREROLL"] = 4 /\ Rank["MUTE"] = 5 /\ Rank["TXFREQ"] = 6
  /\ Rank["KEY"] = 7 /\ Rank["SETTLE"] = 8 /\ Rank["UNMUTE"] = 9
  /\ Rank["C_MUTE"] = 10 /\ Rank["C_UNKEY"] = 11 /\ Rank["C_RESTORE"] = 12
  /\ Rank["C_UNMUTE"] = 13 /\ Rank["C_PA"] = 14 /\ Rank["C_AMP"] = 15
  /\ Rank["C_STREAM"] = 16 /\ Rank["GAIN"] = 17 /\ Rank["RXFREQ"] = 18
  /\ Rank["RXFILTER"] = 19 /\ Rank["ANTENNA"] = 20 /\ Rank["PREP_PA"] = 21
  /\ Rank["PREP_AMP"] = 22 /\ Rank["UNDO_PA"] = 23 /\ Rank["UNDO_AMP"] = 24
  /\ Rank["T_FREQ"] = 25 /\ Rank["T_FILTER"] = 26 /\ Rank["T_PA"] = 27
  /\ Rank["G_GAIN"] = 28
BY Places, OneRank

(* Now is a step of the routine, and the first of those left: a set of     *)
(* ranks has a least one.                                                  *)
LEMMA NowFirst ==
  ASSUME todo \subseteq Steps, todo # {}
  PROVE  /\ Now \in todo
         /\ \A t \in todo : Rank[Now] <= Rank[t]
<1>1. \A s \in Steps : Rank[s] \in Nat
  <2> TAKE s \in Steps
  <2>1. PICK n \in 1..28 : s = Order[n]
    BY Places DEF Steps, Elements
  <2> QED
    BY <2>1, OneRank
<1>2. PICK s0 \in todo : TRUE
  OBVIOUS
<1> DEFINE R == {Rank[s] : s \in todo}
           LT == {p \in Nat \X Nat : p[1] < p[2]}
<1>3. R \subseteq Nat /\ R # {}
  BY <1>1, <1>2
<1>4. PICK m \in R : \A k \in R : m <= k
  <2>1. IsWellFoundedOn(LT, Nat)
    BY NatLessThanWellFounded DEF OpToRel
  <2> HIDE DEF R, LT
  <2>2. PICK x \in R : \A y \in R : ~(<<y, x>> \in LT)
    BY <1>3, <2>1, WFMin
  <2>3. ASSUME NEW k \in R PROVE x <= k
    <3>1. k \in Nat /\ x \in Nat /\ ~(<<k, x>> \in LT)
      BY <1>3, <2>2
    <3>2. ~(k < x)
      BY <3>1 DEF LT
    <3> QED
      BY <3>1, <3>2
  <2> QED
    BY <2>3
<1>5. PICK s \in todo : Rank[s] = m
  OBVIOUS
<1>6. \A t \in todo : Rank[s] <= Rank[t]
  BY <1>4, <1>5
<1> QED
  BY <1>6 DEF Now

(* A dial is a number of Hertz. *)
LEMMA DialIsInt == \A f \in Freqs \cup {0} : f \in Int
BY FreqsAssumption

(* A command is sent only when the earlier commands of its routine have    *)
(* been.                                                                   *)
LEMMA NowIs ==
  ASSUME DriverInv, todo # {}
  PROVE  /\ Now \in todo
         /\ \A t \in todo : Rank[Now] <= Rank[t]
BY NowFirst DEF DriverInv, TypeOK

(* The offset of a start is a number of Hertz, and the same one by which   *)
(* the samples shift the emission.                                         *)
LEMMA OffsetIsShift ==
  ASSUME NEW e \in Emissions
  PROVE  TxOffset(e) \in Int /\ StreamShift(e) = TxOffset(e)
BY DEF Emissions, TxOffset, StreamShift


(* During a start and its rollback nothing is claimed of the other         *)
(* routines.                                                               *)
LEMMA ElsewhereIdle ==
  ASSUME op' \in {"START", "ROLLBACK"}, phase' = "REST"
  PROVE  AtRest' /\ OwnedSound' /\ StopSound' /\ RetuneSound' /\ RestoreSound'
BY DEF AtRest, OwnedSound, StopSound, RetuneSound, RestoreSound


(* A command of a start that succeeds: its register is written, its flag   *)
(* set, and the earlier ones are as the key will need them.                *)
LEMMA StartStepSucceeds ==
  ASSUME DriverInv, op = "START", StepSucceeds
  PROVE  DriverInv'
<1>1. Now \in todo /\ \A t \in todo : Rank[Now] <= Rank[t]
  BY NowIs DEF StepSucceeds
<1>2. Now \in StartSteps
  BY <1>1 DEF DriverInv, RoutineSound
<1>3. dev.freq \in Freqs /\ dev.freq \in Nat /\ TxOffset(dev.emission) \in Int
  BY FreqsAssumption, OffsetIsShift DEF DriverInv, TypeOK, Device, StartSound
<1>4. AtRest' /\ OwnedSound' /\ StopSound' /\ RetuneSound' /\ RestoreSound'
  BY ElsewhereIdle DEF StepSucceeds, DriverInv, RoutineSound
<1>5. CASE Now = "PA"
  <2>1. /\ dev' = [dev EXCEPT !.pa_filter_known = TRUE]
        /\ hw' = [hw EXCEPT !.pa = PaFilter[dev.freq]]
        /\ hist' = hist /\ todo' = todo \ {"PA"}
        /\ UNCHANGED <<phase, op, err, cleanup_failed>>
    BY <1>5 DEF StepSucceeds, Attempted, Completed, Written, Record
  <2>2. /\ "PA" \in todo
    BY <1>1, <1>5
  <2>3. dev' \in Device /\ hist' \in History
    BY <2>1 DEF DriverInv, TypeOK, Device
  <2>4. hw' \in Registers
    BY <1>3, <2>1 DEF DriverInv, TypeOK, Registers
  <2>5. StartSound'
    BY <1>3, <2>1, <2>2 DEF DriverInv, TypeOK, Device, Registers, History,
       StartSound, Follows, Live
  <2>6. RoutineSound' /\ KeyKnown' /\ AmpKnown' /\ SettingsKnown'
    BY <2>1, <2>2
    DEF DriverInv, RoutineSound, KeyKnown, AmpKnown, SettingsKnown
  <2> QED
    BY <1>4, <2>1, <2>3, <2>4, <2>5, <2>6 DEF DriverInv, TypeOK
<1>6. CASE Now = "AMP"
  <2>1. /\ dev' = dev
        /\ hw' = [hw EXCEPT !.amp = TRUE]
        /\ hist' = [hist EXCEPT !.amp_off_sent = FALSE] /\ todo' = todo \ {"AMP"}
        /\ UNCHANGED <<phase, op, err, cleanup_failed>>
    BY <1>6 DEF StepSucceeds, Attempted, Completed, Written, Record
  <2>2. /\ "AMP" \in todo
        /\ todo \cap {"PA"} = {}
    BY <1>1, <1>6, Ranks
  <2>3. dev' \in Device /\ hist' \in History
    BY <2>1 DEF DriverInv, TypeOK, History
  <2>4. hw' \in Registers
    BY <2>1 DEF DriverInv, TypeOK, Registers
  <2>5. StartSound'
    BY <2>1, <2>2 DEF DriverInv, TypeOK, Device, Registers, History,
       StartSound, Follows, Live
  <2>6. RoutineSound' /\ KeyKnown' /\ AmpKnown' /\ SettingsKnown'
    BY <2>1, <2>2
    DEF DriverInv, RoutineSound, KeyKnown, AmpKnown, SettingsKnown,
        StartSound
  <2> QED
    BY <1>4, <2>1, <2>3, <2>4, <2>5, <2>6 DEF DriverInv, TypeOK
<1>7. CASE Now = "STREAM"
  <2>1. /\ dev' = [dev EXCEPT !.streaming = TRUE, !.slots = TRUE]
        /\ hw' = hw
        /\ hist' = hist /\ todo' = todo \ {"STREAM"}
        /\ UNCHANGED <<phase, op, err, cleanup_failed>>
    BY <1>7 DEF StepSucceeds, Attempted, Completed, Written, Record
  <2>2. /\ "STREAM" \in todo
        /\ todo \cap {"PA", "AMP"} = {}
    BY <1>1, <1>7, Ranks
  <2>3. dev' \in Device /\ hist' \in History
    BY <2>1 DEF DriverInv, TypeOK, Device
  <2>4. hw' \in Registers
    BY <2>1 DEF DriverInv, TypeOK
  <2>5. StartSound'
    BY <2>1, <2>2 DEF DriverInv, TypeOK, Device, Registers, History,
       StartSound, Follows, Live
  <2>6. RoutineSound' /\ KeyKnown' /\ AmpKnown' /\ SettingsKnown'
    BY <2>1, <2>2
    DEF DriverInv, RoutineSound, KeyKnown, AmpKnown, SettingsKnown
  <2> QED
    BY <1>4, <2>1, <2>3, <2>4, <2>5, <2>6 DEF DriverInv, TypeOK
<1>8. CASE Now = "PREROLL"
  <2>1. /\ dev' = dev
        /\ hw' = hw
        /\ hist' = hist /\ todo' = todo \ {"PREROLL"}
        /\ UNCHANGED <<phase, op, err, cleanup_failed>>
    BY <1>8 DEF StepSucceeds, Attempted, Completed, Written, Record
  <2>2. /\ "PREROLL" \in todo
        /\ todo \cap {"PA", "AMP", "STREAM"} = {}
    BY <1>1, <1>8, Ranks
  <2>3. dev' \in Device /\ hist' \in History
    BY <2>1 DEF DriverInv, TypeOK
  <2>4. hw' \in Registers
    BY <2>1 DEF DriverInv, TypeOK
  <2>5. StartSound'
    BY <2>1, <2>2 DEF DriverInv, TypeOK, Device, Registers, History,
       StartSound, Follows, Live
  <2>6. RoutineSound' /\ KeyKnown' /\ AmpKnown' /\ SettingsKnown'
    BY <2>1, <2>2
    DEF DriverInv, RoutineSound, KeyKnown, AmpKnown, SettingsKnown
  <2> QED
    BY <1>4, <2>1, <2>3, <2>4, <2>5, <2>6 DEF DriverInv, TypeOK
<1>9. CASE Now = "MUTE"
  <2>1. /\ dev' = [dev EXCEPT !.transition_attempted = TRUE]
        /\ hw' = [hw EXCEPT !.mute = TRUE]
        /\ hist' = hist /\ todo' = todo \ {"MUTE"}
        /\ UNCHANGED <<phase, op, err, cleanup_failed>>
    BY <1>9 DEF StepSucceeds, Attempted, Completed, Written, Record
  <2>2. /\ "MUTE" \in todo
        /\ todo \cap {"PA", "AMP", "STREAM", "PREROLL"} = {}
    BY <1>1, <1>9, Ranks
  <2>3. dev' \in Device /\ hist' \in History
    BY <2>1 DEF DriverInv, TypeOK, Device
  <2>4. hw' \in Registers
    BY <2>1 DEF DriverInv, TypeOK, Registers
  <2>5. StartSound'
    BY <2>1, <2>2 DEF DriverInv, TypeOK, Device, Registers, History,
       StartSound, Follows, Live
  <2>6. RoutineSound' /\ KeyKnown' /\ AmpKnown' /\ SettingsKnown'
    BY <2>1, <2>2
    DEF DriverInv, RoutineSound, KeyKnown, AmpKnown, SettingsKnown
  <2> QED
    BY <1>4, <2>1, <2>3, <2>4, <2>5, <2>6 DEF DriverInv, TypeOK
<1>10. CASE Now = "TXFREQ"
  <2>1. /\ dev' = [dev EXCEPT !.frequency_attempted = TRUE]
        /\ hw' = [hw EXCEPT !.tuned = dev.freq - TxOffset(dev.emission)]
        /\ hist' = hist /\ todo' = todo \ {"TXFREQ"}
        /\ UNCHANGED <<phase, op, err, cleanup_failed>>
    BY <1>10 DEF StepSucceeds, Attempted, Completed, Written, Record
  <2>2. /\ "TXFREQ" \in todo
        /\ todo \cap {"PA", "AMP", "STREAM", "PREROLL", "MUTE"} = {}
    BY <1>1, <1>10, Ranks
  <2>3. dev' \in Device /\ hist' \in History
    BY <2>1 DEF DriverInv, TypeOK, Device
  <2>4. hw' \in Registers
    BY <1>3, <2>1 DEF DriverInv, TypeOK, Registers
  <2>5. StartSound'
    BY <1>3, <2>1, <2>2 DEF DriverInv, TypeOK, Device, Registers, History,
       StartSound, Follows, Live
  <2>6. RoutineSound' /\ KeyKnown' /\ AmpKnown' /\ SettingsKnown'
    BY <2>1, <2>2
    DEF DriverInv, RoutineSound, KeyKnown, AmpKnown, SettingsKnown
  <2> QED
    BY <1>4, <2>1, <2>3, <2>4, <2>5, <2>6 DEF DriverInv, TypeOK
<1>11. CASE Now = "KEY"
  <2>1. /\ dev' = [dev EXCEPT !.key_attempted = TRUE, !.keyed = TRUE]
        /\ hw' = [hw EXCEPT !.tr = TRUE]
        /\ hist' = [hist EXCEPT !.unkey_sent = FALSE, !.unkey_ok = FALSE,
                                !.live = Live(dev)]
        /\ todo' = todo \ {"KEY"}
        /\ UNCHANGED <<phase, op, err, cleanup_failed>>
    BY <1>11 DEF StepSucceeds, Attempted, Completed, Written, Record
  <2>2. /\ "KEY" \in todo
        /\ todo \cap {"PA", "AMP", "STREAM", "PREROLL", "MUTE", "TXFREQ"} = {}
    BY <1>1, <1>11, Ranks
  <2>3. dev' \in Device /\ hist' \in History
    BY <2>1 DEF DriverInv, TypeOK, Device, History, Live
  <2>4. hw' \in Registers
    BY <2>1 DEF DriverInv, TypeOK, Registers
  <2>5. StartSound'
    BY <2>1, <2>2 DEF DriverInv, TypeOK, Device, Registers, History,
       StartSound, Follows, Live
  <2>6. RoutineSound' /\ KeyKnown' /\ AmpKnown' /\ SettingsKnown'
    BY <2>1, <2>2
    DEF DriverInv, RoutineSound, KeyKnown, AmpKnown, SettingsKnown
  <2> QED
    BY <1>4, <2>1, <2>3, <2>4, <2>5, <2>6 DEF DriverInv, TypeOK
<1>12. CASE Now = "SETTLE"
  <2>1. /\ dev' = dev /\ Live(dev)
        /\ hw' = hw
        /\ hist' = hist /\ todo' = todo \ {"SETTLE"}
        /\ UNCHANGED <<phase, op, err, cleanup_failed>>
    BY <1>12
    DEF StepSucceeds, CanSucceed, Attempted, Completed, Written, Record
  <2>2. /\ "SETTLE" \in todo
        /\ todo \cap {"PA", "AMP", "STREAM", "PREROLL", "MUTE", "TXFREQ", "KEY"} = {}
    BY <1>1, <1>12, Ranks
  <2>3. dev' \in Device /\ hist' \in History
    BY <2>1 DEF DriverInv, TypeOK
  <2>4. hw' \in Registers
    BY <2>1 DEF DriverInv, TypeOK
  <2>5. StartSound'
    BY <2>1, <2>2 DEF DriverInv, TypeOK, Device, Registers, History,
       StartSound, Follows, Live
  <2>6. RoutineSound' /\ KeyKnown' /\ AmpKnown' /\ SettingsKnown'
    BY <2>1, <2>2
    DEF DriverInv, RoutineSound, KeyKnown, AmpKnown, SettingsKnown
  <2> QED
    BY <1>4, <2>1, <2>3, <2>4, <2>5, <2>6 DEF DriverInv, TypeOK
<1>13. CASE Now = "UNMUTE"
  <2>1. /\ dev' = [dev EXCEPT !.transition_attempted = FALSE, !.active = TRUE]
        /\ hw' = [hw EXCEPT !.mute = FALSE]
        /\ hist' = hist /\ todo' = todo \ {"UNMUTE"}
        /\ UNCHANGED <<phase, op, err, cleanup_failed>>
    BY <1>13 DEF StepSucceeds, Attempted, Completed, Written, Record
  <2>2. /\ "UNMUTE" \in todo
        /\ todo \cap {"PA", "AMP", "STREAM", "PREROLL", "MUTE", "TXFREQ", "KEY",
                       "SETTLE"} = {}
    BY <1>1, <1>13, Ranks
  <2>3. dev' \in Device /\ hist' \in History
    BY <2>1 DEF DriverInv, TypeOK, Device
  <2>4. hw' \in Registers
    BY <2>1 DEF DriverInv, TypeOK, Registers
  <2>5. StartSound'
    BY <2>1, <2>2 DEF DriverInv, TypeOK, Device, Registers, History,
       StartSound, Follows, Live
  <2>6. RoutineSound' /\ KeyKnown' /\ AmpKnown' /\ SettingsKnown'
    BY <2>1, <2>2
    DEF DriverInv, RoutineSound, KeyKnown, AmpKnown, SettingsKnown
  <2> QED
    BY <1>4, <2>1, <2>3, <2>4, <2>5, <2>6 DEF DriverInv, TypeOK
<1> QED
  BY <1>2, <1>5, <1>6, <1>7, <1>8, <1>9, <1>10, <1>11, <1>12, <1>13
  DEF StartSteps

(* A step is in the clean-up plan exactly if one of the flags it undoes is *)
(* set.                                                                    *)
LEMMA PlanOf ==
  ASSUME NEW d \in Device
  PROVE  /\ CleanupPlan(d) \subseteq CleanupSteps
         /\ "C_MUTE" \in CleanupPlan(d) <=> d.key_attempted \/ d.keyed \/ d.active
         /\ "C_UNKEY" \in CleanupPlan(d) <=> d.key_attempted \/ d.keyed \/ d.active
         /\ "C_RESTORE" \in CleanupPlan(d) <=>
              d.transition_attempted \/ d.frequency_attempted
         /\ "C_UNMUTE" \in CleanupPlan(d) <=>
              d.transition_attempted \/ d.frequency_attempted
         /\ "C_PA" \in CleanupPlan(d) <=> d.pa_filter_known
         /\ "C_AMP" \in CleanupPlan(d) <=>
              d.amp_enable_attempted \/ d.transmit_prepared
<1>1. /\ "KEY" \in PartialState(d) <=> d.key_attempted \/ d.keyed \/ d.active
      /\ "TRANSITION" \in PartialState(d) <=> d.transition_attempted
      /\ "FREQUENCY" \in PartialState(d) <=> d.frequency_attempted
      /\ "PA" \in PartialState(d) <=> d.pa_filter_known
      /\ "AMP" \in PartialState(d) <=> d.amp_enable_attempted \/ d.transmit_prepared
  BY DEF PartialState, Device
<1> QED
  BY <1>1 DEF CleanupPlan, Undone, CleanupSteps

(* Every step of a clean-up is a step of the driver. *)
LEMMA CleanupStepsAreSteps == CleanupSteps \subseteq Steps
BY Places DEF CleanupSteps, Steps, Elements


(* A command of a start that fails leaves a rollback whose plan answers    *)
(* every command that may have reached the radio.                          *)
LEMMA StartStepFails ==
  ASSUME DriverInv, op = "START", StepFails
  PROVE  DriverInv'
<1>1. Now \in todo /\ \A t \in todo : Rank[Now] <= Rank[t]
  BY NowIs DEF StepFails
<1>2. Now \in StartSteps
  BY <1>1 DEF DriverInv, RoutineSound
<1>3. /\ dev.freq \in Freqs /\ dev.freq \in Nat
      /\ dev.transmit_prepared /\ TxOffset(dev.emission) \in Int
  BY FreqsAssumption, OffsetIsShift DEF DriverInv, TypeOK, Device, StartSound
<1>4. /\ op' = "ROLLBACK" /\ todo' = CleanupPlan(dev') /\ err' = FALSE
      /\ phase' = "REST" /\ cleanup_failed' = cleanup_failed
  BY DEF StepFails, Begin, DriverInv, RoutineSound
<1> DEFINE Typed == dev' \in Device /\ hw' \in Registers /\ hist' \in History
           Kept == /\ dev'.freq = dev.freq /\ dev'.gain = dev.gain
                   /\ dev'.transmit_prepared
                   /\ hist'.dial = hist.dial /\ hist'.gain = hist.gain
           KeyNoted == ~hist'.unkey_sent => dev'.key_attempted
<1>5. SUFFICES Typed /\ Kept /\ KeyNoted
  <2>1. TypeOK'
    BY <1>4, <1>5, PlanOf, CleanupStepsAreSteps DEF DriverInv, TypeOK
  <2>2. RoutineSound' /\ KeyKnown' /\ AmpKnown' /\ StartSound' /\ SettingsKnown'
    BY <1>4, <1>5, PlanOf
    DEF DriverInv, RoutineSound, KeyKnown, AmpKnown, StartSound, SettingsKnown
  <2> QED
    BY <1>4, <2>1, <2>2, ElsewhereIdle DEF DriverInv
<1>6. CASE Now = "PA"
  <2>1. /\ dev' = dev
        /\ hw' \in {hw, [hw EXCEPT !.pa = PaFilter[dev.freq]]}
        /\ hist' = hist
    BY <1>6 DEF StepFails, Attempted, Failed, Written, Record
  <2>2. dev' \in Device
    BY <2>1 DEF DriverInv, TypeOK
  <2>3. hw' \in Registers /\ hist' \in History
    BY <1>3, <2>1 DEF DriverInv, TypeOK, Registers
  <2>4. Kept
    BY <1>3, <2>1 DEF DriverInv, TypeOK, Device
  <2>5. KeyNoted
    BY <1>1, <1>6, <2>1 DEF DriverInv, TypeOK, Device, KeyKnown
  <2> QED
    BY <2>2, <2>3, <2>4, <2>5
<1>7. CASE Now = "AMP"
  <2>1. /\ dev' = dev
        /\ hw' \in {hw, [hw EXCEPT !.amp = TRUE]}
        /\ hist' = [hist EXCEPT !.amp_off_sent = FALSE]
    BY <1>7 DEF StepFails, Attempted, Failed, Written, Record
  <2>2. dev' \in Device
    BY <2>1 DEF DriverInv, TypeOK
  <2>3. hw' \in Registers /\ hist' \in History
    BY <2>1 DEF DriverInv, TypeOK, Registers, History
  <2>4. Kept
    BY <1>3, <2>1 DEF DriverInv, TypeOK, Device, History
  <2>5. KeyNoted
    BY <1>1, <1>7, <2>1, Ranks DEF DriverInv, TypeOK, Device, KeyKnown,
       History
  <2> QED
    BY <2>2, <2>3, <2>4, <2>5
<1>8. CASE Now = "STREAM"
  <2>1. /\ dev' = [dev EXCEPT !.streaming = FALSE, !.slots = FALSE]
        /\ hw' = hw
        /\ hist' = hist
    BY <1>8 DEF StepFails, Attempted, Failed, Written, Record
  <2>2. dev' \in Device
    BY <2>1 DEF DriverInv, TypeOK, Device
  <2>3. hw' \in Registers /\ hist' \in History
    BY <2>1 DEF DriverInv, TypeOK
  <2>4. Kept
    BY <1>3, <2>1 DEF DriverInv, TypeOK, Device
  <2>5. KeyNoted
    BY <1>1, <1>8, <2>1, Ranks DEF DriverInv, TypeOK, Device, KeyKnown
  <2> QED
    BY <2>2, <2>3, <2>4, <2>5
<1>9. CASE Now = "PREROLL"
  <2>1. /\ dev' = dev
        /\ hw' = hw
        /\ hist' = hist
    BY <1>9 DEF StepFails, Attempted, Failed, Written, Record
  <2>2. dev' \in Device
    BY <2>1 DEF DriverInv, TypeOK, Device
  <2>3. hw' \in Registers /\ hist' \in History
    BY <2>1 DEF DriverInv, TypeOK
  <2>4. Kept
    BY <1>3, <2>1 DEF DriverInv, TypeOK, Device
  <2>5. KeyNoted
    BY <1>1, <1>9, <2>1, Ranks DEF DriverInv, TypeOK, Device, KeyKnown
  <2> QED
    BY <2>2, <2>3, <2>4, <2>5
<1>10. CASE Now = "MUTE"
  <2>1. /\ dev' = [dev EXCEPT !.transition_attempted = TRUE]
        /\ hw' \in {hw, [hw EXCEPT !.mute = TRUE]}
        /\ hist' = hist
    BY <1>10 DEF StepFails, Attempted, Failed, Written, Record
  <2>2. dev' \in Device
    BY <2>1 DEF DriverInv, TypeOK, Device
  <2>3. hw' \in Registers /\ hist' \in History
    BY <2>1 DEF DriverInv, TypeOK, Registers
  <2>4. Kept
    BY <1>3, <2>1 DEF DriverInv, TypeOK, Device
  <2>5. KeyNoted
    BY <1>1, <1>10, <2>1, Ranks DEF DriverInv, TypeOK, Device, KeyKnown
  <2> QED
    BY <2>2, <2>3, <2>4, <2>5
<1>11. CASE Now = "TXFREQ"
  <2>1. /\ dev' = [dev EXCEPT !.frequency_attempted = TRUE]
        /\ hw' \in {hw, [hw EXCEPT !.tuned = dev.freq - TxOffset(dev.emission)]}
        /\ hist' = hist
    BY <1>11 DEF StepFails, Attempted, Failed, Written, Record
  <2>2. dev' \in Device
    BY <2>1 DEF DriverInv, TypeOK, Device
  <2>3. hw' \in Registers /\ hist' \in History
    BY <1>3, <2>1 DEF DriverInv, TypeOK, Registers
  <2>4. Kept
    BY <1>3, <2>1 DEF DriverInv, TypeOK, Device
  <2>5. KeyNoted
    BY <1>1, <1>11, <2>1, Ranks DEF DriverInv, TypeOK, Device, KeyKnown
  <2> QED
    BY <2>2, <2>3, <2>4, <2>5
<1>12. CASE Now = "KEY"
  <2>1. /\ dev' = [dev EXCEPT !.key_attempted = TRUE]
        /\ hw' \in {hw, [hw EXCEPT !.tr = TRUE]}
        /\ hist' = [hist EXCEPT !.unkey_sent = FALSE, !.unkey_ok = FALSE,
                                !.live = Live(dev)]
    BY <1>12 DEF StepFails, Attempted, Failed, Written, Record
  <2>2. dev' \in Device
    BY <2>1 DEF DriverInv, TypeOK, Device
  <2>3. hw' \in Registers /\ hist' \in History
    BY <2>1 DEF DriverInv, TypeOK, Registers, History, Device, Live
  <2>4. Kept
    BY <1>3, <2>1 DEF DriverInv, TypeOK, Device, History
  <2>5. KeyNoted
    BY <1>1, <1>12, <2>1, Ranks DEF DriverInv, TypeOK, Device, KeyKnown,
       History
  <2> QED
    BY <2>2, <2>3, <2>4, <2>5
<1>13. CASE Now = "SETTLE"
  <2>1. /\ dev' = dev
        /\ hw' = hw
        /\ hist' = hist
    BY <1>13 DEF StepFails, Attempted, Failed, Written, Record
  <2>2. dev' \in Device
    BY <2>1 DEF DriverInv, TypeOK, Device
  <2>3. hw' \in Registers /\ hist' \in History
    BY <2>1 DEF DriverInv, TypeOK
  <2>4. Kept
    BY <1>3, <2>1 DEF DriverInv, TypeOK, Device
  <2>5. KeyNoted
    BY <1>1, <1>13, <2>1, Ranks DEF DriverInv, TypeOK, Device, KeyKnown
  <2> QED
    BY <2>2, <2>3, <2>4, <2>5
<1>14. CASE Now = "UNMUTE"
  <2>1. /\ dev' = dev
        /\ hw' \in {hw, [hw EXCEPT !.mute = FALSE]}
        /\ hist' = hist
    BY <1>14 DEF StepFails, Attempted, Failed, Written, Record
  <2>2. dev' \in Device
    BY <2>1 DEF DriverInv, TypeOK
  <2>3. hw' \in Registers /\ hist' \in History
    BY <2>1 DEF DriverInv, TypeOK, Registers
  <2>4. Kept
    BY <1>3, <2>1 DEF DriverInv, TypeOK, Device
  <2>5. KeyNoted
    BY <1>1, <1>14, <2>1, Ranks DEF DriverInv, TypeOK, Device, KeyKnown
  <2> QED
    BY <2>2, <2>3, <2>4, <2>5
<1> QED
  BY <1>2, <1>6, <1>7, <1>8, <1>9, <1>10, <1>11, <1>12, <1>13, <1>14
  DEF StartSteps

(* A command of a stop or a rollback, whether it succeeds or fails: what   *)
(* the radio may have been told before is still known, and a stop without  *)
(* an error so far has restored what its commands stand for.               *)
LEMMA CleanupStep ==
  ASSUME DriverInv, op \in {"ROLLBACK", "STOP"}, StepSucceeds \/ StepFails
  PROVE  DriverInv'
<1>1. Now \in todo /\ \A t \in todo : Rank[Now] <= Rank[t]
  BY NowIs DEF StepSucceeds, StepFails
<1>2. Now \in CleanupSteps
  BY <1>1 DEF DriverInv, RoutineSound
<1>3. /\ op' = op /\ todo' = todo \ {Now} /\ err' \in BOOLEAN
      /\ ~err' => StepSucceeds /\ ~err
      /\ phase' = phase /\ cleanup_failed' = cleanup_failed
  BY DEF StepSucceeds, StepFails, DriverInv, TypeOK
<1>4. /\ op = "ROLLBACK" => phase = "REST"
      /\ op = "STOP" => phase = "OWNED" /\ dev.freq # 0 /\ dev.transmit_prepared
  BY DEF DriverInv, RoutineSound, OwnedSound
<1>5. dev.freq \in Freqs \cup {0} /\ dev.freq \in Int
  <2>1. dev.freq \in Freqs \cup {0}
    BY DEF DriverInv, TypeOK, Device
  <2> QED
    BY <2>1, DialIsInt
<1> DEFINE Typed == dev' \in Device /\ hw' \in Registers /\ hist' \in History
           Kept == /\ dev'.freq = dev.freq /\ dev'.gain = dev.gain
                   /\ dev'.transmit_prepared = dev.transmit_prepared
                   /\ dev'.amp_enable_attempted = dev.amp_enable_attempted
                   /\ dev'.key_attempted = dev.key_attempted
                   /\ hist'.dial = hist.dial /\ hist'.gain = hist.gain
                   /\ hist.amp_off_sent => hist'.amp_off_sent
           KeyNoted == \/ Now = "C_UNKEY" /\ hist'.unkey_sent
                       \/ Now # "C_UNKEY" /\ hist'.unkey_sent = hist.unkey_sent
           pa == IF dev.transmit_prepared /\ dev.freq # 0
                 THEN PaFilter[dev.freq] ELSE 0
<1>6. pa \in {0} \cup {PaFilter[f] : f \in Freqs}
  BY <1>5
<1>7. SUFFICES Typed /\ Kept /\ KeyNoted /\ StopSound'
  <2>1. TypeOK'
    BY <1>3, <1>7 DEF DriverInv, TypeOK
  <2>2. RoutineSound' /\ KeyKnown' /\ AmpKnown' /\ OwnedSound' /\ SettingsKnown'
    BY <1>3, <1>4, <1>7
    DEF DriverInv, RoutineSound, KeyKnown, AmpKnown, OwnedSound, SettingsKnown
  <2>3. AtRest' /\ StartSound' /\ RetuneSound' /\ RestoreSound'
    BY <1>3, <1>4 DEF AtRest, StartSound, RetuneSound, RestoreSound
  <2> QED
    BY <1>7, <2>1, <2>2, <2>3 DEF DriverInv
<1> HIDE DEF pa
<1>8. CASE Now = "C_MUTE"
  <2>1. /\ dev' = dev
        /\ hw' \in {hw, [hw EXCEPT !.mute = TRUE]}
        /\ ~err' => hw' = [hw EXCEPT !.mute = TRUE]
        /\ hist' = hist
    BY <1>3, <1>4, <1>8
    DEF StepSucceeds, StepFails, Attempted, Completed, Failed, Written, Record
  <2>2. dev' \in Device
    BY <2>1 DEF DriverInv, TypeOK
  <2>3. hw' \in Registers /\ hist' \in History
    BY <1>5, <1>6, <2>1 DEF DriverInv, TypeOK, Registers
  <2>4. Kept /\ KeyNoted
    BY <1>8, <2>1 DEF DriverInv, TypeOK, Device
  <2>5. StopSound'
    BY <1>1, <1>3, <1>4, <1>8, <2>1, <2>4, Ranks DEF DriverInv, TypeOK,
       Registers, StopSound, Follows
  <2> QED
    BY <2>2, <2>3, <2>4, <2>5
<1>9. CASE Now = "C_UNKEY"
  <2>1. /\ dev' = dev
        /\ hw' \in {hw, [hw EXCEPT !.tr = FALSE]}
        /\ ~err' => hw' = [hw EXCEPT !.tr = FALSE]
        /\ hist' \in {[hist EXCEPT !.unkey_sent = TRUE, !.unkey_ok = TRUE],
                    [hist EXCEPT !.unkey_sent = TRUE, !.unkey_ok = FALSE]}
    BY <1>3, <1>4, <1>9
    DEF StepSucceeds, StepFails, Attempted, Completed, Failed, Written, Record
  <2>2. dev' \in Device
    BY <2>1 DEF DriverInv, TypeOK
  <2>3. hw' \in Registers /\ hist' \in History
    BY <1>5, <1>6, <2>1 DEF DriverInv, TypeOK, Registers, History
  <2>4. Kept /\ KeyNoted
    BY <1>9, <2>1 DEF DriverInv, TypeOK, Device, History
  <2>5. StopSound'
    BY <1>1, <1>3, <1>4, <1>9, <2>1, <2>4, Ranks DEF DriverInv, TypeOK,
       Registers, StopSound, Follows
  <2> QED
    BY <2>2, <2>3, <2>4, <2>5
<1>10. CASE Now = "C_RESTORE"
  <2>1. /\ dev' = dev
        /\ hw' \in {hw, [hw EXCEPT !.tuned = dev.freq]}
        /\ ~err' /\ op = "STOP" => hw' = [hw EXCEPT !.tuned = dev.freq]
        /\ hist' = hist
    BY <1>3, <1>4, <1>10
    DEF StepSucceeds, StepFails, Attempted, Completed, Failed, Written, Record
  <2>2. dev' \in Device
    BY <2>1 DEF DriverInv, TypeOK, Device
  <2>3. hw' \in Registers /\ hist' \in History
    BY <1>5, <1>6, <2>1 DEF DriverInv, TypeOK, Registers
  <2>4. Kept /\ KeyNoted
    BY <1>10, <2>1 DEF DriverInv, TypeOK, Device
  <2>5. StopSound'
    BY <1>1, <1>3, <1>4, <1>10, <2>1, <2>4, Ranks DEF DriverInv, TypeOK,
       Registers, StopSound, Follows
  <2> QED
    BY <2>2, <2>3, <2>4, <2>5
<1>11. CASE Now = "C_UNMUTE"
  <2>1. /\ dev' = dev
        /\ hw' \in {hw, [hw EXCEPT !.mute = FALSE]}
        /\ ~err' => hw' = [hw EXCEPT !.mute = FALSE]
        /\ hist' = hist
    BY <1>3, <1>4, <1>11
    DEF StepSucceeds, StepFails, Attempted, Completed, Failed, Written, Record
  <2>2. dev' \in Device
    BY <2>1 DEF DriverInv, TypeOK
  <2>3. hw' \in Registers /\ hist' \in History
    BY <1>5, <1>6, <2>1 DEF DriverInv, TypeOK, Registers
  <2>4. Kept /\ KeyNoted
    BY <1>11, <2>1 DEF DriverInv, TypeOK, Device
  <2>5. StopSound'
    BY <1>1, <1>3, <1>4, <1>11, <2>1, <2>4, Ranks DEF DriverInv, TypeOK,
       Registers, StopSound, Follows
  <2> QED
    BY <2>2, <2>3, <2>4, <2>5
<1>12. CASE Now = "C_PA"
  <2>1. /\ dev' = [dev EXCEPT !.pa_filter_known =
                          (op # "DISABLE" /\ dev.transmit_prepared)]
        /\ hw' \in {hw, [hw EXCEPT !.pa = pa]}
        /\ ~err' => hw' = [hw EXCEPT !.pa = pa]
        /\ hist' = hist
    BY <1>3, <1>4, <1>12
    DEF StepSucceeds, StepFails, Attempted, Completed, Failed, Written,
        Record, pa
  <2>2. dev' \in Device
    BY <2>1 DEF DriverInv, TypeOK, Device
  <2>3. hw' \in Registers /\ hist' \in History
    BY <1>5, <1>6, <2>1 DEF DriverInv, TypeOK, Registers
  <2>4. Kept /\ KeyNoted
    BY <1>12, <2>1 DEF DriverInv, TypeOK, Device
  <2>5. StopSound'
    BY <1>1, <1>3, <1>4, <1>12, <2>1, <2>4, Ranks DEF DriverInv, TypeOK,
       Registers, StopSound, Follows, pa
  <2> QED
    BY <2>2, <2>3, <2>4, <2>5
<1>13. CASE Now = "C_AMP"
  <2>1. /\ dev' = dev
        /\ hw' \in {hw, [hw EXCEPT !.amp = FALSE]}
        /\ ~err' => hw' = [hw EXCEPT !.amp = FALSE]
        /\ hist' = [hist EXCEPT !.amp_off_sent = TRUE]
    BY <1>3, <1>4, <1>13
    DEF StepSucceeds, StepFails, Attempted, Completed, Failed, Written, Record
  <2>2. dev' \in Device
    BY <2>1 DEF DriverInv, TypeOK
  <2>3. hw' \in Registers /\ hist' \in History
    BY <1>5, <1>6, <2>1 DEF DriverInv, TypeOK, Registers, History
  <2>4. Kept /\ KeyNoted
    BY <1>13, <2>1 DEF DriverInv, TypeOK, Device, History
  <2>5. StopSound'
    BY <1>1, <1>3, <1>4, <1>13, <2>1, <2>4, Ranks DEF DriverInv, TypeOK,
       Registers, StopSound, Follows
  <2> QED
    BY <2>2, <2>3, <2>4, <2>5
<1>14. CASE Now = "C_STREAM"
  <2>1. /\ dev' = [dev EXCEPT !.streaming = FALSE, !.slots = FALSE]
        /\ hw' = hw
        /\ hist' = hist
    BY <1>3, <1>4, <1>14
    DEF StepSucceeds, StepFails, Attempted, Completed, Failed, Written, Record
  <2>2. dev' \in Device
    BY <2>1 DEF DriverInv, TypeOK, Device
  <2>3. hw' \in Registers /\ hist' \in History
    BY <1>5, <1>6, <2>1 DEF DriverInv, TypeOK
  <2>4. Kept /\ KeyNoted
    BY <1>14, <2>1 DEF DriverInv, TypeOK, Device
  <2>5. StopSound'
    BY <1>1, <1>3, <1>4, <1>14, <2>1, <2>4, Ranks DEF DriverInv, TypeOK,
       Registers, StopSound, Follows
  <2> QED
    BY <2>2, <2>3, <2>4, <2>5
<1> QED
  BY <1>2, <1>8, <1>9, <1>10, <1>11, <1>12, <1>13, <1>14 DEF CleanupSteps

(* Disabling the preparation switches the amplifier off exactly if it may  *)
(* be on.                                                                  *)
LEMMA DisablePlanOf ==
  ASSUME NEW d \in Device
  PROVE  /\ DisablePlan(d) \subseteq {"C_PA", "C_AMP"}
         /\ "C_AMP" \in DisablePlan(d) <=>
              d.amp_enable_attempted \/ d.transmit_prepared
BY PlanOf DEF DisablePlan

(* The steps of the smaller routines are steps of the driver. *)
LEMMA RoutineStepsAreSteps ==
  /\ {"C_PA", "C_AMP", "UNDO_PA", "UNDO_AMP"} \subseteq Steps
  /\ StartSteps \subseteq Steps /\ RestoreSteps \subseteq Steps
  /\ {"T_FREQ", "T_FILTER", "T_PA", "G_GAIN"} \subseteq Steps
BY Places DEF StartSteps, RestoreSteps, Steps, Elements

(* A command that disables or undoes the transmit preparation, whether it  *)
(* succeeds or fails: the amplifier is not forgotten.                      *)
LEMMA CloseStep ==
  ASSUME DriverInv, op \in {"DISABLE", "UNDO"}, StepSucceeds \/ StepFails
  PROVE  DriverInv'
<1>1. Now \in todo /\ \A t \in todo : Rank[Now] <= Rank[t]
  BY NowIs DEF StepSucceeds, StepFails
<1>2. /\ op = "DISABLE" => Now \in {"C_PA", "C_AMP"}
      /\ op = "UNDO" => Now \in {"UNDO_PA", "UNDO_AMP"}
  BY <1>1 DEF DriverInv, RoutineSound
<1>3. /\ op' = op /\ todo' = todo \ {Now} /\ err' \in BOOLEAN
      /\ phase' = phase /\ cleanup_failed' = cleanup_failed
  BY DEF StepSucceeds, StepFails, DriverInv, TypeOK
<1>4. /\ phase \notin {"OWNED", "ROLLBACK"} /\ (op = "UNDO" => phase = "DOWN")
      /\ hist.unkey_sent /\ NothingToStop(dev)
      /\ dev.dial = hist.dial /\ dev.level = hist.gain
  BY DEF DriverInv, TypeOK, RoutineSound, KeyKnown, AtRest, SettingsKnown
<1> DEFINE Typed == dev' \in Device /\ hw' \in Registers /\ hist' \in History
           Kept == /\ NothingToStop(dev') /\ hist'.unkey_sent
                   /\ dev'.dial = hist'.dial /\ dev'.level = hist'.gain
<1>5. SUFFICES Typed /\ Kept /\ AmpKnown'
  <2>1. TypeOK'
    BY <1>3, <1>5 DEF DriverInv, TypeOK
  <2>2. RoutineSound' /\ AtRest' /\ KeyKnown' /\ SettingsKnown'
    BY <1>3, <1>4, <1>5
    DEF DriverInv, RoutineSound, AtRest, KeyKnown, SettingsKnown
  <2>3. StartSound' /\ OwnedSound' /\ StopSound' /\ RetuneSound' /\ RestoreSound'
    BY <1>3, <1>4
    DEF StartSound, OwnedSound, StopSound, RetuneSound, RestoreSound
  <2> QED
    BY <1>5, <2>1, <2>2, <2>3 DEF DriverInv
<1>6. CASE Now = "C_PA"
  <2>1. /\ dev' = [dev EXCEPT !.pa_filter_known = FALSE]
        /\ hw' \in {hw, [hw EXCEPT !.pa = 0]}
        /\ hist' = hist
    BY <1>2, <1>6
    DEF StepSucceeds, StepFails, Attempted, Completed, Failed, Written, Record
  <2>2. dev' \in Device
    BY <2>1 DEF DriverInv, TypeOK, Device
  <2>3. hw' \in Registers /\ hist' \in History
    BY <2>1 DEF DriverInv, TypeOK, Registers
  <2>4. Kept
    BY <1>4, <2>1 DEF DriverInv, TypeOK, Device, History, NothingToStop
  <2>5. AmpKnown'
    BY <1>3, <1>4, <1>6, <2>1 DEF DriverInv, TypeOK, Device, History, AmpKnown
  <2> QED
    BY <2>2, <2>3, <2>4, <2>5
<1>7. CASE Now = "C_AMP"
  <2>1. /\ dev' = dev
        /\ hw' \in {hw, [hw EXCEPT !.amp = FALSE]}
        /\ hist' = [hist EXCEPT !.amp_off_sent = TRUE]
    BY <1>2, <1>7
    DEF StepSucceeds, StepFails, Attempted, Completed, Failed, Written, Record
  <2>2. dev' \in Device
    BY <2>1 DEF DriverInv, TypeOK
  <2>3. hw' \in Registers /\ hist' \in History
    BY <2>1 DEF DriverInv, TypeOK, Registers, History
  <2>4. Kept
    BY <1>4, <2>1 DEF DriverInv, TypeOK, Device, History, NothingToStop
  <2>5. AmpKnown'
    BY <1>3, <1>4, <1>7, <2>1 DEF DriverInv, TypeOK, Device, History, AmpKnown
  <2> QED
    BY <2>2, <2>3, <2>4, <2>5
<1>8. CASE Now = "UNDO_PA"
  <2>1. /\ dev' = [dev EXCEPT !.pa_filter_known = FALSE]
        /\ hw' \in {hw, [hw EXCEPT !.pa = 0]}
        /\ hist' = hist
    BY <1>2, <1>8
    DEF StepSucceeds, StepFails, Attempted, Completed, Failed, Written, Record
  <2>2. dev' \in Device
    BY <2>1 DEF DriverInv, TypeOK, Device
  <2>3. hw' \in Registers /\ hist' \in History
    BY <2>1 DEF DriverInv, TypeOK, Registers
  <2>4. Kept
    BY <1>4, <2>1 DEF DriverInv, TypeOK, Device, History, NothingToStop
  <2>5. AmpKnown'
    BY <1>3, <1>4, <1>8, <2>1 DEF DriverInv, TypeOK, Device, History, AmpKnown
  <2> QED
    BY <2>2, <2>3, <2>4, <2>5
<1>9. CASE Now = "UNDO_AMP"
  <2>1. /\ dev' = [dev EXCEPT !.amp_enable_attempted = FALSE]
        /\ hw' \in {hw, [hw EXCEPT !.amp = FALSE]}
        /\ hist' = [hist EXCEPT !.amp_off_sent = TRUE]
    BY <1>2, <1>9
    DEF StepSucceeds, StepFails, Attempted, Completed, Failed, Written, Record
  <2>2. dev' \in Device
    BY <2>1 DEF DriverInv, TypeOK, Device
  <2>3. hw' \in Registers /\ hist' \in History
    BY <2>1 DEF DriverInv, TypeOK, Registers, History
  <2>4. Kept
    BY <1>4, <2>1 DEF DriverInv, TypeOK, Device, History, NothingToStop
  <2>5. AmpKnown'
    BY <1>3, <1>4, <1>9, <2>1 DEF DriverInv, TypeOK, Device, History, AmpKnown
  <2> QED
    BY <2>2, <2>3, <2>4, <2>5
<1> QED
  BY <1>2, <1>6, <1>7, <1>8, <1>9

(* A command of a recovery that succeeds: its register holds the setting   *)
(* the recovery remembers.                                                 *)
LEMMA RestoreStepSucceeds ==
  ASSUME DriverInv, op = "RESTORE", StepSucceeds
  PROVE  DriverInv'
<1>1. Now \in todo /\ \A t \in todo : Rank[Now] <= Rank[t]
  BY NowIs DEF StepSucceeds
<1>2. Now \in RestoreSteps
  BY <1>1 DEF DriverInv, RoutineSound
<1>3. /\ op' = op /\ todo' = todo \ {Now} /\ err' = err
      /\ phase' = phase /\ cleanup_failed' = cleanup_failed
  BY DEF StepSucceeds
<1>4. /\ phase = "DOWN" /\ hist.unkey_sent /\ NothingToStop(dev)
      /\ dev.dial = hist.dial /\ dev.level = hist.gain
  BY DEF DriverInv, TypeOK, RoutineSound, KeyKnown, AtRest, SettingsKnown
<1>5. dev.dial \in Freqs \cup {0} /\ dev.dial \in Int /\ dev.level \in Gains
  <2>1. dev.dial \in Freqs \cup {0} /\ dev.level \in Gains
    BY DEF DriverInv, TypeOK, Device
  <2> QED
    BY <2>1, DialIsInt
<1> DEFINE Typed == dev' \in Device /\ hw' \in Registers /\ hist' \in History
           Kept == /\ NothingToStop(dev') /\ hist'.unkey_sent
                   /\ dev'.dial = hist'.dial /\ dev'.level = hist'.gain
<1>6. SUFFICES Typed /\ Kept /\ AmpKnown' /\ RestoreSound'
  <2>1. TypeOK'
    BY <1>3, <1>6 DEF DriverInv, TypeOK
  <2>2. RoutineSound' /\ AtRest' /\ KeyKnown' /\ SettingsKnown'
    BY <1>3, <1>4, <1>6
    DEF DriverInv, RoutineSound, AtRest, KeyKnown, SettingsKnown
  <2>3. StartSound' /\ OwnedSound' /\ StopSound' /\ RetuneSound'
    BY <1>3, <1>4 DEF StartSound, OwnedSound, StopSound, RetuneSound
  <2> QED
    BY <1>6, <2>1, <2>2, <2>3 DEF DriverInv
<1>7. CASE Now = "GAIN"
  <2>1. /\ dev' = [dev EXCEPT !.gain = dev.level]
        /\ hw' = [hw EXCEPT !.gain = dev.level]
        /\ hist' = hist
    BY <1>7 DEF StepSucceeds, Attempted, Completed, Written, Record
  <2>2. dev' \in Device
    BY <1>5, <2>1 DEF DriverInv, TypeOK, Device
  <2>3. hw' \in Registers /\ hist' \in History
    BY <1>5, <2>1 DEF DriverInv, TypeOK, Registers
  <2>4. Kept /\ AmpKnown'
    BY <1>3, <1>4, <2>1
    DEF DriverInv, TypeOK, Device, History, NothingToStop, AmpKnown
  <2>5. RestoreSound'
    BY <1>1, <1>3, <1>4, <1>7, <2>1, Ranks DEF DriverInv, TypeOK, Device,
       Registers, RestoreSound, Follows
  <2> QED
    BY <2>2, <2>3, <2>4, <2>5
<1>8. CASE Now = "RXFREQ"
  <2>1. /\ dev' = [dev EXCEPT !.freq = dev.dial, !.filter_known = FALSE]
        /\ hw' = [hw EXCEPT !.tuned = dev.dial]
        /\ hist' = hist
    BY <1>8 DEF StepSucceeds, Attempted, Completed, Written, Record
  <2>2. dev.dial # 0
    BY <1>1, <1>8 DEF DriverInv, RestoreSound
  <2>3. dev' \in Device
    BY <1>5, <2>1 DEF DriverInv, TypeOK, Device
  <2>4. hw' \in Registers /\ hist' \in History
    BY <1>5, <2>1, <2>2 DEF DriverInv, TypeOK, Registers
  <2>5. Kept /\ AmpKnown'
    BY <1>3, <1>4, <2>1
    DEF DriverInv, TypeOK, Device, History, NothingToStop, AmpKnown
  <2>6. RestoreSound'
    BY <1>1, <1>3, <1>4, <1>8, <2>1, <2>2, Ranks DEF DriverInv, TypeOK,
       Device, Registers, RestoreSound, Follows
  <2> QED
    BY <2>3, <2>4, <2>5, <2>6
<1>9. CASE Now = "RXFILTER"
  <2>1. /\ dev' = [dev EXCEPT !.filter_known = TRUE]
        /\ hw' = [hw EXCEPT !.filter = RxFilter[dev.freq]]
        /\ hist' = hist
    BY <1>9 DEF StepSucceeds, Attempted, Completed, Written, Record
  <2>2. dev.freq = dev.dial /\ dev.dial # 0 /\ dev.freq \in Freqs
    BY <1>1, <1>5, <1>9, Ranks DEF DriverInv, RestoreSound, Follows
  <2>3. dev' \in Device
    BY <1>5, <2>1 DEF DriverInv, TypeOK, Device
  <2>4. hw' \in Registers /\ hist' \in History
    BY <1>5, <2>1, <2>2 DEF DriverInv, TypeOK, Registers
  <2>5. Kept /\ AmpKnown'
    BY <1>3, <1>4, <2>1
    DEF DriverInv, TypeOK, Device, History, NothingToStop, AmpKnown
  <2>6. RestoreSound'
    BY <1>1, <1>3, <1>4, <1>9, <2>1, <2>2, Ranks DEF DriverInv, TypeOK,
       Device, Registers, RestoreSound, Follows
  <2> QED
    BY <2>3, <2>4, <2>5, <2>6
<1>10. CASE Now = "ANTENNA"
  <2>1. /\ dev' = dev
        /\ hw' = hw
        /\ hist' = hist
    BY <1>10 DEF StepSucceeds, Attempted, Completed, Written, Record
  <2>2. dev' \in Device
    BY <1>5, <2>1 DEF DriverInv, TypeOK
  <2>3. hw' \in Registers /\ hist' \in History
    BY <1>5, <2>1 DEF DriverInv, TypeOK, Registers
  <2>4. Kept /\ AmpKnown'
    BY <1>3, <1>4, <2>1
    DEF DriverInv, TypeOK, Device, History, NothingToStop, AmpKnown
  <2>5. RestoreSound'
    BY <1>1, <1>3, <1>4, <1>10, <2>1, Ranks DEF DriverInv, TypeOK, Device,
       Registers, RestoreSound, Follows
  <2> QED
    BY <2>2, <2>3, <2>4, <2>5
<1>11. CASE Now = "PREP_PA"
  <2>1. /\ dev' = [dev EXCEPT !.pa_filter_known = TRUE]
        /\ hw' = [hw EXCEPT !.pa = PaFilter[dev.freq]]
        /\ hist' = hist
    BY <1>11 DEF StepSucceeds, Attempted, Completed, Written, Record
  <2>2. dev.freq = dev.dial /\ dev.dial # 0 /\ dev.freq \in Freqs
    BY <1>1, <1>5, <1>11, Ranks DEF DriverInv, RestoreSound, Follows
  <2>3. dev' \in Device
    BY <1>5, <2>1 DEF DriverInv, TypeOK, Device
  <2>4. hw' \in Registers /\ hist' \in History
    BY <1>5, <2>1, <2>2 DEF DriverInv, TypeOK, Registers
  <2>5. Kept /\ AmpKnown'
    BY <1>3, <1>4, <2>1
    DEF DriverInv, TypeOK, Device, History, NothingToStop, AmpKnown
  <2>6. RestoreSound'
    BY <1>1, <1>3, <1>4, <1>11, <2>1, <2>2, Ranks DEF DriverInv, TypeOK,
       Device, Registers, RestoreSound, Follows
  <2> QED
    BY <2>3, <2>4, <2>5, <2>6
<1>12. CASE Now = "PREP_AMP"
  <2>1. /\ dev' = [dev EXCEPT !.amp_enable_attempted = TRUE,
                              !.transmit_prepared = TRUE]
        /\ hw' = [hw EXCEPT !.amp = TRUE]
        /\ hist' = [hist EXCEPT !.amp_off_sent = FALSE]
    BY <1>12 DEF StepSucceeds, Attempted, Completed, Written, Record
  <2>2. dev' \in Device
    BY <1>5, <2>1 DEF DriverInv, TypeOK, Device
  <2>3. hw' \in Registers /\ hist' \in History
    BY <1>5, <2>1 DEF DriverInv, TypeOK, Registers, History
  <2>4. Kept /\ AmpKnown'
    BY <1>3, <1>4, <2>1
    DEF DriverInv, TypeOK, Device, History, NothingToStop, AmpKnown
  <2>5. RestoreSound'
    BY <1>1, <1>3, <1>4, <1>12, <2>1, Ranks DEF DriverInv, TypeOK, Device,
       Registers, RestoreSound, Follows
  <2> QED
    BY <2>2, <2>3, <2>4, <2>5
<1> QED
  BY <1>2, <1>7, <1>8, <1>9, <1>10, <1>11, <1>12 DEF RestoreSteps

(* A command of a recovery that fails leads to the close, past the undo of *)
(* the preparation if it was its last one; both know of the amplifier.     *)
LEMMA RestoreStepFails ==
  ASSUME DriverInv, op = "RESTORE", StepFails
  PROVE  DriverInv'
<1>1. Now \in todo /\ \A t \in todo : Rank[Now] <= Rank[t]
  BY NowIs DEF StepFails
<1>2. Now \in RestoreSteps
  BY <1>1 DEF DriverInv, RoutineSound
<1>3. /\ err' = FALSE /\ phase' = phase /\ cleanup_failed' = cleanup_failed
      /\ Now = "PREP_AMP" =>
           op' = "UNDO" /\ todo' \subseteq {"UNDO_PA", "UNDO_AMP"}
      /\ Now # "PREP_AMP" => op' = "DISABLE" /\ todo' = DisablePlan(dev')
  BY DEF StepFails, Begin
<1>4. /\ phase = "DOWN" /\ hist.unkey_sent /\ NothingToStop(dev)
      /\ dev.dial = hist.dial /\ dev.level = hist.gain
  BY DEF DriverInv, TypeOK, RoutineSound, KeyKnown, AtRest, SettingsKnown
<1>5. dev.dial \in Freqs \cup {0} /\ dev.dial \in Int /\ dev.level \in Gains
  <2>1. dev.dial \in Freqs \cup {0} /\ dev.level \in Gains
    BY DEF DriverInv, TypeOK, Device
  <2> QED
    BY <2>1, DialIsInt
<1> DEFINE Typed == dev' \in Device /\ hw' \in Registers /\ hist' \in History
           Kept == /\ NothingToStop(dev') /\ hist'.unkey_sent
                   /\ dev'.dial = hist'.dial /\ dev'.level = hist'.gain
           AmpNoted == ~hist'.amp_off_sent =>
                         dev'.amp_enable_attempted \/ dev'.transmit_prepared
<1>6. SUFFICES Typed /\ Kept /\ AmpNoted
  <2>1. TypeOK'
    BY <1>3, <1>6, DisablePlanOf, RoutineStepsAreSteps DEF DriverInv, TypeOK
  <2>2. RoutineSound' /\ AtRest' /\ KeyKnown' /\ AmpKnown' /\ SettingsKnown'
    BY <1>3, <1>4, <1>6, DisablePlanOf
    DEF DriverInv, RoutineSound, AtRest, KeyKnown, AmpKnown, SettingsKnown
  <2>3. /\ StartSound' /\ OwnedSound' /\ StopSound' /\ RetuneSound'
        /\ RestoreSound'
    BY <1>3, <1>4
    DEF StartSound, OwnedSound, StopSound, RetuneSound, RestoreSound
  <2> QED
    BY <1>6, <2>1, <2>2, <2>3 DEF DriverInv
<1>7. CASE Now = "GAIN"
  <2>1. /\ dev' = dev
        /\ hw' \in {hw, [hw EXCEPT !.gain = dev.level]}
        /\ hist' = hist
    BY <1>7 DEF StepFails, Attempted, Failed, Written, Record
  <2>2. dev' \in Device
    BY <2>1 DEF DriverInv, TypeOK
  <2>3. hw' \in Registers /\ hist' \in History
    BY <1>5, <2>1 DEF DriverInv, TypeOK, Registers
  <2>4. Kept /\ AmpNoted
    BY <1>4, <2>1
    DEF DriverInv, TypeOK, Device, History, NothingToStop, AmpKnown
  <2> QED
    BY <2>2, <2>3, <2>4
<1>8. CASE Now = "RXFREQ"
  <2>1. /\ dev' = dev
        /\ hw' \in {hw, [hw EXCEPT !.tuned = dev.dial]}
        /\ hist' = hist
    BY <1>8 DEF StepFails, Attempted, Failed, Written, Record
  <2>2. dev' \in Device
    BY <2>1 DEF DriverInv, TypeOK
  <2>3. hw' \in Registers /\ hist' \in History
    BY <1>5, <2>1 DEF DriverInv, TypeOK, Registers
  <2>4. Kept /\ AmpNoted
    BY <1>4, <2>1
    DEF DriverInv, TypeOK, Device, History, NothingToStop, AmpKnown
  <2> QED
    BY <2>2, <2>3, <2>4
<1>9. CASE Now = "RXFILTER"
  <2>1. /\ dev' = dev
        /\ hw' \in {hw, [hw EXCEPT !.filter = RxFilter[dev.freq]]}
        /\ hist' = hist
    BY <1>9 DEF StepFails, Attempted, Failed, Written, Record
  <2>2. dev.freq \in Freqs
    BY <1>1, <1>5, <1>9, Ranks DEF DriverInv, RestoreSound, Follows
  <2>3. dev' \in Device
    BY <2>1 DEF DriverInv, TypeOK
  <2>4. hw' \in Registers /\ hist' \in History
    BY <1>5, <2>1, <2>2 DEF DriverInv, TypeOK, Registers
  <2>5. Kept /\ AmpNoted
    BY <1>4, <2>1
    DEF DriverInv, TypeOK, Device, History, NothingToStop, AmpKnown
  <2> QED
    BY <2>3, <2>4, <2>5
<1>10. CASE Now = "ANTENNA"
  <2>1. /\ dev' = dev
        /\ hw' = hw
        /\ hist' = hist
    BY <1>10 DEF StepFails, Attempted, Failed, Written, Record
  <2>2. dev' \in Device
    BY <2>1 DEF DriverInv, TypeOK
  <2>3. hw' \in Registers /\ hist' \in History
    BY <1>5, <2>1 DEF DriverInv, TypeOK, Registers
  <2>4. Kept /\ AmpNoted
    BY <1>4, <2>1
    DEF DriverInv, TypeOK, Device, History, NothingToStop, AmpKnown
  <2> QED
    BY <2>2, <2>3, <2>4
<1>11. CASE Now = "PREP_PA"
  <2>1. /\ dev' = dev
        /\ hw' \in {hw, [hw EXCEPT !.pa = PaFilter[dev.freq]]}
        /\ hist' = hist
    BY <1>11 DEF StepFails, Attempted, Failed, Written, Record
  <2>2. dev.freq \in Freqs
    BY <1>1, <1>5, <1>11, Ranks DEF DriverInv, RestoreSound, Follows
  <2>3. dev' \in Device
    BY <2>1 DEF DriverInv, TypeOK
  <2>4. hw' \in Registers /\ hist' \in History
    BY <1>5, <2>1, <2>2 DEF DriverInv, TypeOK, Registers
  <2>5. Kept /\ AmpNoted
    BY <1>4, <2>1
    DEF DriverInv, TypeOK, Device, History, NothingToStop, AmpKnown
  <2> QED
    BY <2>3, <2>4, <2>5
<1>12. CASE Now = "PREP_AMP"
  <2>1. /\ dev' = [dev EXCEPT !.amp_enable_attempted = TRUE]
        /\ hw' \in {hw, [hw EXCEPT !.amp = TRUE]}
        /\ hist' = [hist EXCEPT !.amp_off_sent = FALSE]
    BY <1>12 DEF StepFails, Attempted, Failed, Written, Record
  <2>2. dev' \in Device
    BY <2>1 DEF DriverInv, TypeOK, Device
  <2>3. hw' \in Registers /\ hist' \in History
    BY <1>5, <2>1 DEF DriverInv, TypeOK, Registers, History
  <2>4. Kept /\ AmpNoted
    BY <1>4, <2>1
    DEF DriverInv, TypeOK, Device, History, NothingToStop, AmpKnown
  <2> QED
    BY <2>2, <2>3, <2>4
<1> QED
  BY <1>2, <1>7, <1>8, <1>9, <1>10, <1>11, <1>12 DEF RestoreSteps

(* A command of a retune or of a gain change that succeeds: the setting    *)
(* the user sees accepted is the one the driver keeps.                     *)
LEMMA SettingStepSucceeds ==
  ASSUME DriverInv, op \in {"RETUNE", "GAIN"}, StepSucceeds
  PROVE  DriverInv'
<1>1. Now \in todo /\ \A t \in todo : Rank[Now] <= Rank[t]
  BY NowIs DEF StepSucceeds
<1>2. Now \in {"T_FREQ", "T_FILTER", "T_PA", "G_GAIN"}
  BY <1>1 DEF DriverInv, RoutineSound
<1>3. /\ op' = op /\ todo' = todo \ {Now} /\ err' = err
      /\ phase' = phase /\ cleanup_failed' = cleanup_failed
  BY DEF StepSucceeds
<1>4. /\ phase \in {"REST", "FAULTED"} /\ hist.unkey_sent /\ NothingToStop(dev)
      /\ dev.freq = hist.dial /\ dev.gain = hist.gain
  BY DEF DriverInv, TypeOK, RoutineSound, KeyKnown, AtRest, SettingsKnown
<1>5. dev.dial \in Freqs \cup {0} /\ dev.dial \in Int /\ dev.level \in Gains
  <2>1. dev.dial \in Freqs \cup {0} /\ dev.level \in Gains
    BY DEF DriverInv, TypeOK, Device
  <2> QED
    BY <2>1, DialIsInt
<1> DEFINE Typed == dev' \in Device /\ hw' \in Registers /\ hist' \in History
           Kept == /\ NothingToStop(dev') /\ hist'.unkey_sent
                   /\ dev'.freq = hist'.dial /\ dev'.gain = hist'.gain
<1>6. SUFFICES Typed /\ Kept /\ AmpKnown' /\ RetuneSound'
  <2>1. TypeOK'
    BY <1>3, <1>6 DEF DriverInv, TypeOK
  <2>2. RoutineSound' /\ AtRest' /\ KeyKnown' /\ SettingsKnown'
    BY <1>3, <1>4, <1>6
    DEF DriverInv, RoutineSound, AtRest, KeyKnown, SettingsKnown
  <2>3. StartSound' /\ OwnedSound' /\ StopSound' /\ RestoreSound'
    BY <1>3, <1>4 DEF StartSound, OwnedSound, StopSound, RestoreSound
  <2> QED
    BY <1>6, <2>1, <2>2, <2>3 DEF DriverInv
<1>7. CASE Now = "T_FREQ"
  <2>1. /\ dev' = [dev EXCEPT !.freq = dev.dial, !.filter_known = FALSE]
        /\ hw' = [hw EXCEPT !.tuned = dev.dial]
        /\ hist' = [hist EXCEPT !.dial = dev.dial]
    BY <1>7 DEF StepSucceeds, Attempted, Completed, Written, Record
  <2>2. dev' \in Device
    BY <1>5, <2>1 DEF DriverInv, TypeOK, Device
  <2>3. hw' \in Registers /\ hist' \in History
    BY <1>5, <2>1 DEF DriverInv, TypeOK, Registers, History
  <2>4. Kept /\ AmpKnown'
    BY <1>3, <1>4, <2>1
    DEF DriverInv, TypeOK, Device, History, NothingToStop, AmpKnown
  <2>5. RetuneSound'
    BY <1>1, <1>3, <1>7, <2>1, Ranks DEF DriverInv, TypeOK, Device,
       RoutineSound, RetuneSound, Follows
  <2> QED
    BY <2>2, <2>3, <2>4, <2>5
<1>8. CASE Now = "T_FILTER"
  <2>1. /\ dev' = [dev EXCEPT !.filter_known = TRUE]
        /\ hw' = [hw EXCEPT !.filter = RxFilter[dev.freq]]
        /\ hist' = hist
    BY <1>8 DEF StepSucceeds, Attempted, Completed, Written, Record
  <2>2. dev.freq \in Freqs
    BY <1>1, <1>5, <1>8, Ranks DEF DriverInv, RoutineSound, RetuneSound
  <2>3. dev' \in Device
    BY <1>5, <2>1 DEF DriverInv, TypeOK, Device
  <2>4. hw' \in Registers /\ hist' \in History
    BY <1>5, <2>1, <2>2 DEF DriverInv, TypeOK, Registers
  <2>5. Kept /\ AmpKnown'
    BY <1>3, <1>4, <2>1
    DEF DriverInv, TypeOK, Device, History, NothingToStop, AmpKnown
  <2>6. RetuneSound'
    BY <1>1, <1>3, <1>8, <2>1, Ranks DEF DriverInv, TypeOK, Device,
       RoutineSound, RetuneSound, Follows
  <2> QED
    BY <2>3, <2>4, <2>5, <2>6
<1>9. CASE Now = "T_PA"
  <2>1. /\ dev' = [dev EXCEPT !.pa_filter_known = TRUE]
        /\ hw' = [hw EXCEPT !.pa = PaFilter[dev.freq]]
        /\ hist' = hist
    BY <1>9 DEF StepSucceeds, Attempted, Completed, Written, Record
  <2>2. dev.freq \in Freqs
    BY <1>1, <1>5, <1>9, Ranks DEF DriverInv, RoutineSound, RetuneSound
  <2>3. dev' \in Device
    BY <1>5, <2>1 DEF DriverInv, TypeOK, Device
  <2>4. hw' \in Registers /\ hist' \in History
    BY <1>5, <2>1, <2>2 DEF DriverInv, TypeOK, Registers
  <2>5. Kept /\ AmpKnown'
    BY <1>3, <1>4, <2>1
    DEF DriverInv, TypeOK, Device, History, NothingToStop, AmpKnown
  <2>6. RetuneSound'
    BY <1>1, <1>3, <1>9, <2>1, Ranks DEF DriverInv, TypeOK, Device,
       RoutineSound, RetuneSound, Follows
  <2> QED
    BY <2>3, <2>4, <2>5, <2>6
<1>10. CASE Now = "G_GAIN"
  <2>1. /\ dev' = [dev EXCEPT !.gain = dev.level]
        /\ hw' = [hw EXCEPT !.gain = dev.level]
        /\ hist' = [hist EXCEPT !.gain = dev.level]
    BY <1>10 DEF StepSucceeds, Attempted, Completed, Written, Record
  <2>2. dev' \in Device
    BY <1>5, <2>1 DEF DriverInv, TypeOK, Device
  <2>3. hw' \in Registers /\ hist' \in History
    BY <1>5, <2>1 DEF DriverInv, TypeOK, Registers, History
  <2>4. Kept /\ AmpKnown'
    BY <1>3, <1>4, <2>1
    DEF DriverInv, TypeOK, Device, History, NothingToStop, AmpKnown
  <2>5. RetuneSound'
    BY <1>1, <1>3, <1>10, <2>1, Ranks DEF DriverInv, TypeOK, Device,
       RoutineSound, RetuneSound, Follows
  <2> QED
    BY <2>2, <2>3, <2>4, <2>5
<1> QED
  BY <1>2, <1>7, <1>8, <1>9, <1>10

(* A command of a retune or of a gain change that fails ends it, and the   *)
(* accepted settings stay what they were.                                  *)
LEMMA SettingStepFails ==
  ASSUME DriverInv, op \in {"RETUNE", "GAIN"}, StepFails
  PROVE  DriverInv'
<1>1. Now \in todo /\ \A t \in todo : Rank[Now] <= Rank[t]
  BY NowIs DEF StepFails
<1>2. Now \in {"T_FREQ", "T_FILTER", "T_PA", "G_GAIN"}
  BY <1>1 DEF DriverInv, RoutineSound
<1>3. /\ op' = "IDLE" /\ todo' = {} /\ err' = FALSE
      /\ phase' = phase /\ cleanup_failed' = cleanup_failed
  BY DEF StepFails, Idle
<1>4. /\ phase \in {"REST", "FAULTED"} /\ hist.unkey_sent /\ NothingToStop(dev)
      /\ dev.freq = hist.dial /\ dev.gain = hist.gain
  BY DEF DriverInv, TypeOK, RoutineSound, KeyKnown, AtRest, SettingsKnown
<1>5. dev.dial \in Freqs \cup {0} /\ dev.dial \in Int /\ dev.level \in Gains
  <2>1. dev.dial \in Freqs \cup {0} /\ dev.level \in Gains
    BY DEF DriverInv, TypeOK, Device
  <2> QED
    BY <2>1, DialIsInt
<1> DEFINE Typed == dev' \in Device /\ hw' \in Registers /\ hist' \in History
           Kept == /\ NothingToStop(dev') /\ hist'.unkey_sent
                   /\ dev'.freq = hist'.dial /\ dev'.gain = hist'.gain
<1>6. SUFFICES Typed /\ Kept /\ AmpKnown'
  <2>1. TypeOK'
    BY <1>3, <1>6 DEF DriverInv, TypeOK
  <2>2. RoutineSound' /\ AtRest' /\ KeyKnown' /\ SettingsKnown'
    BY <1>3, <1>4, <1>6
    DEF DriverInv, RoutineSound, AtRest, KeyKnown, SettingsKnown
  <2>3. StartSound' /\ OwnedSound' /\ StopSound' /\ RestoreSound' /\ RetuneSound'
    BY <1>3, <1>4
    DEF StartSound, OwnedSound, StopSound, RestoreSound, RetuneSound
  <2> QED
    BY <1>6, <2>1, <2>2, <2>3 DEF DriverInv
<1>7. CASE Now = "T_FREQ"
  <2>1. /\ dev' = [dev EXCEPT !.dial = 0, !.level = DefaultGain]
        /\ hw' \in {hw, [hw EXCEPT !.tuned = dev.dial]}
        /\ hist' = hist
    BY <1>7
    DEF StepFails, Attempted, Failed, Settled, Written, Record
  <2>2. dev' \in Device
    BY <2>1, GainsAssumption DEF DriverInv, TypeOK, Device
  <2>3. hw' \in Registers /\ hist' \in History
    BY <1>5, <2>1 DEF DriverInv, TypeOK, Registers
  <2>4. Kept /\ AmpKnown'
    BY <1>3, <1>4, <2>1 DEF DriverInv, TypeOK, Device, NothingToStop, AmpKnown
  <2> QED
    BY <2>2, <2>3, <2>4
<1>8. CASE Now = "T_FILTER"
  <2>1. /\ dev' = [dev EXCEPT !.dial = 0, !.level = DefaultGain]
        /\ hw' \in {hw, [hw EXCEPT !.filter = RxFilter[dev.freq]]}
        /\ hist' = hist
    BY <1>8
    DEF StepFails, Attempted, Failed, Settled, Written, Record
  <2>2. dev.freq \in Freqs
    BY <1>1, <1>5, <1>8, Ranks DEF DriverInv, RoutineSound, RetuneSound
  <2>3. dev' \in Device
    BY <2>1, GainsAssumption DEF DriverInv, TypeOK, Device
  <2>4. hw' \in Registers /\ hist' \in History
    BY <1>5, <2>1, <2>2 DEF DriverInv, TypeOK, Registers
  <2>5. Kept /\ AmpKnown'
    BY <1>3, <1>4, <2>1 DEF DriverInv, TypeOK, Device, NothingToStop, AmpKnown
  <2> QED
    BY <2>3, <2>4, <2>5
<1>9. CASE Now = "T_PA"
  <2>1. /\ dev' = [dev EXCEPT !.pa_filter_known = FALSE,
                              !.dial = 0, !.level = DefaultGain]
        /\ hw' \in {hw, [hw EXCEPT !.pa = PaFilter[dev.freq]]}
        /\ hist' = hist
    BY <1>9
    DEF StepFails, Attempted, Failed, Settled, Written, Record
  <2>2. dev.freq \in Freqs
    BY <1>1, <1>5, <1>9, Ranks DEF DriverInv, RoutineSound, RetuneSound
  <2>3. dev' \in Device
    BY <2>1, GainsAssumption DEF DriverInv, TypeOK, Device
  <2>4. hw' \in Registers /\ hist' \in History
    BY <1>5, <2>1, <2>2 DEF DriverInv, TypeOK, Registers
  <2>5. Kept /\ AmpKnown'
    BY <1>3, <1>4, <2>1 DEF DriverInv, TypeOK, Device, NothingToStop, AmpKnown
  <2> QED
    BY <2>3, <2>4, <2>5
<1>10. CASE Now = "G_GAIN"
  <2>1. /\ dev' = [dev EXCEPT !.dial = 0, !.level = DefaultGain]
        /\ hw' \in {hw, [hw EXCEPT !.gain = dev.level]}
        /\ hist' = hist
    BY <1>10
    DEF StepFails, Attempted, Failed, Settled, Written, Record
  <2>2. dev' \in Device
    BY <2>1, GainsAssumption DEF DriverInv, TypeOK, Device
  <2>3. hw' \in Registers /\ hist' \in History
    BY <1>5, <2>1 DEF DriverInv, TypeOK, Registers
  <2>4. Kept /\ AmpKnown'
    BY <1>3, <1>4, <2>1 DEF DriverInv, TypeOK, Device, NothingToStop, AmpKnown
  <2> QED
    BY <2>2, <2>3, <2>4
<1> QED
  BY <1>2, <1>7, <1>8, <1>9, <1>10

(* A start has all its steps to take, a gain change its one. *)
LEMMA WholeRoutine ==
  Elements(StartOrder) = StartSteps /\ Elements(GainOrder) = {"G_GAIN"}
BY DEF Elements, StartOrder, GainOrder, StartSteps

(* The initial state: a closed device and a radio just switched on. *)
LEMMA DriverInit == Init => DriverInv
<1> SUFFICES ASSUME Init PROVE DriverInv
  OBVIOUS
<1>1. TypeOK
  <2>1. dev \in Device
    BY GainsAssumption DEF Init, Device, Closed
  <2>2. hw \in Registers /\ hist \in History
    BY GainsAssumption DEF Init, Registers, History, PoweredOn
  <2> QED
    BY <2>1, <2>2 DEF Init, TypeOK
<1>2. RoutineSound /\ AtRest /\ KeyKnown /\ AmpKnown /\ SettingsKnown
  BY DEF Init, Closed, RoutineSound, AtRest, NothingToStop, KeyKnown,
         AmpKnown, SettingsKnown
<1>3. StartSound /\ OwnedSound /\ StopSound /\ RetuneSound /\ RestoreSound
  BY
  DEF Init, Closed, StartSound, OwnedSound, StopSound, RetuneSound,
      RestoreSound
<1> QED
  BY <1>1, <1>2, <1>3 DEF DriverInv

(* A transfer callback that loses the stream or the device, between two    *)
(* calls of the driver or inside one: no other flag changes, and a start   *)
(* whose stream dies after its key still knows that it was alive then.     *)
LEMMA LossStep ==
  ASSUME DriverInv, LoseDevice
  PROVE  DriverInv'
<1>1. /\ \/ dev' = [dev EXCEPT !.running = FALSE]
         \/ dev' = [dev EXCEPT !.running = FALSE, !.streaming = FALSE]
      /\ UNCHANGED <<hw, phase, op, todo, err, cleanup_failed, hist>>
  BY DEF LoseDevice
<1>2. dev \in Device
  BY DEF DriverInv, TypeOK
<1>3. dev' \in Device /\ ~Live(dev')
  BY <1>1, <1>2 DEF Device, Live
<1>4. /\ dev'.slots = dev.slots /\ dev'.prepared = dev.prepared
      /\ dev'.active = dev.active /\ dev'.keyed = dev.keyed
      /\ dev'.key_attempted = dev.key_attempted
      /\ dev'.transition_attempted = dev.transition_attempted
      /\ dev'.frequency_attempted = dev.frequency_attempted
      /\ dev'.transmit_prepared = dev.transmit_prepared
      /\ dev'.amp_enable_attempted = dev.amp_enable_attempted
      /\ dev'.pa_filter_known = dev.pa_filter_known
      /\ dev'.emission = dev.emission /\ dev'.gain = dev.gain
      /\ dev'.freq = dev.freq /\ dev'.dial = dev.dial
      /\ dev'.level = dev.level
  BY <1>1, <1>2 DEF Device
<1>5. TypeOK'
  BY <1>1, <1>3 DEF DriverInv, TypeOK
<1>6. RoutineSound' /\ AtRest' /\ KeyKnown' /\ AmpKnown' /\ SettingsKnown'
  BY <1>1, <1>4
  DEF DriverInv, RoutineSound, AtRest, KeyKnown, AmpKnown, SettingsKnown,
      NothingToStop
<1>7. StartSound'
  BY <1>1, <1>3, <1>4 DEF DriverInv, StartSound, Follows
<1>8. OwnedSound' /\ StopSound' /\ RetuneSound' /\ RestoreSound'
  BY <1>1, <1>4
  DEF DriverInv, OwnedSound, StopSound, RetuneSound, RestoreSound, Follows
<1> QED
  BY <1>5, <1>6, <1>7, <1>8 DEF DriverInv

(* A call of the controller, of the user or of the recovery loop, and what *)
(* happens to the radio between two calls.                                 *)
LEMMA CallStep ==
  ASSUME DriverInv, op = "IDLE",
         \/ Reopen \/ PowerCycle \/ GiveUp \/ RejectStart \/ BeginStop
         \/ StopFindsNothing \/ BeginRecovery \/ BeginExit
         \/ \E e \in Emissions : BeginStart(e)
         \/ \E f \in Freqs : Retune(f)
         \/ \E g \in Gains : SetGain(g)
  PROVE  DriverInv'
<1> USE GainsAssumption
<1>1. CASE Reopen
  <2>1. /\ dev' = [dev EXCEPT !.open = TRUE, !.running = TRUE]
        /\ phase = "DOWN" /\ op' = "RESTORE" /\ err' = FALSE
        /\ todo' = {"GAIN", "ANTENNA", "PREP_AMP"} \cup
                   (IF dev.dial # 0 THEN {"RXFREQ", "RXFILTER", "PREP_PA"} ELSE {})
        /\ todo' \subseteq RestoreSteps
        /\ UNCHANGED <<hw, phase, cleanup_failed, hist>>
    BY <1>1 DEF Reopen, Begin, RestoreSteps
  <2>2. dev' \in Device /\ hw' \in Registers /\ hist' \in History
    BY <2>1 DEF DriverInv, TypeOK, Device
  <2>3. TypeOK'
    BY <2>1, <2>2, RoutineStepsAreSteps
    DEF DriverInv, TypeOK
  <2>4. /\ RoutineSound' /\ AtRest' /\ KeyKnown' /\ AmpKnown'
        /\ SettingsKnown'
    BY <2>1
    DEF DriverInv, RoutineSound, AtRest, KeyKnown, AmpKnown, SettingsKnown,
        NothingToStop
  <2>5. /\ StartSound' /\ OwnedSound' /\ StopSound' /\ RetuneSound'
        /\ RestoreSound'
    BY <2>1
    DEF DriverInv, StartSound, OwnedSound, StopSound, RetuneSound,
        RestoreSound, Follows
  <2> QED
    BY <2>3, <2>4, <2>5 DEF DriverInv
<1>2. CASE PowerCycle
  <2>1. /\ dev' = dev /\ hw' = PoweredOn /\ phase = "DOWN"
        /\ hist' = [hist EXCEPT !.unkey_sent = TRUE, !.unkey_ok = TRUE,
                                !.amp_off_sent = TRUE]
        /\ UNCHANGED <<phase, op, todo, err, cleanup_failed>>
    BY <1>2 DEF PowerCycle
  <2>2. hw' \in Registers
    BY <2>1 DEF Registers, PoweredOn
  <2>3. /\ hist' \in History /\ hist'.unkey_sent /\ hist'.amp_off_sent
        /\ hist'.dial = hist.dial /\ hist'.gain = hist.gain
    BY <2>1 DEF DriverInv, TypeOK, History
  <2>4. TypeOK'
    BY <2>1, <2>2, <2>3 DEF DriverInv, TypeOK
  <2>5. /\ RoutineSound' /\ AtRest' /\ KeyKnown' /\ AmpKnown'
        /\ SettingsKnown'
    BY <2>1, <2>3
    DEF DriverInv, RoutineSound, AtRest, KeyKnown, AmpKnown, SettingsKnown
  <2>6. /\ StartSound' /\ OwnedSound' /\ StopSound' /\ RetuneSound'
        /\ RestoreSound'
    BY <2>1
    DEF DriverInv, StartSound, OwnedSound, StopSound, RetuneSound,
        RestoreSound
  <2> QED
    BY <2>4, <2>5, <2>6 DEF DriverInv
<1>3. CASE GiveUp
  <2>1. /\ dev' = [dev EXCEPT !.dial = 0, !.level = DefaultGain,
                           !.gain = DefaultGain]
        /\ hist' = [hist EXCEPT !.dial = 0, !.gain = DefaultGain]
        /\ hw' = hw /\ phase = "DOWN"
        /\ UNCHANGED <<phase, op, todo, err, cleanup_failed>>
    BY <1>3 DEF GiveUp, Forgotten
  <2>2. dev' \in Device /\ hw' \in Registers /\ hist' \in History
    BY <2>1 DEF DriverInv, TypeOK, Device, History
  <2>3. TypeOK'
    BY <2>1, <2>2 DEF DriverInv, TypeOK
  <2>4. /\ RoutineSound' /\ AtRest' /\ KeyKnown' /\ AmpKnown'
        /\ SettingsKnown'
    BY <2>1
    DEF DriverInv, RoutineSound, AtRest, KeyKnown, AmpKnown, SettingsKnown,
        NothingToStop
  <2>5. /\ StartSound' /\ OwnedSound' /\ StopSound' /\ RetuneSound'
        /\ RestoreSound'
    BY <2>1
    DEF DriverInv, StartSound, OwnedSound, StopSound, RetuneSound,
        RestoreSound
  <2> QED
    BY <2>3, <2>4, <2>5 DEF DriverInv
<1>4. CASE RejectStart
  <2>1. /\ phase = "REST" /\ phase' = "ROLLBACK" /\ cleanup_failed' = FALSE
        /\ UNCHANGED <<dev, hw, op, todo, err, hist>>
    BY <1>4 DEF RejectStart
  <2>2. dev' \in Device /\ hw' \in Registers /\ hist' \in History
    BY <2>1 DEF DriverInv, TypeOK
  <2>3. TypeOK'
    BY <2>1, <2>2 DEF DriverInv, TypeOK
  <2>4. /\ RoutineSound' /\ AtRest' /\ KeyKnown' /\ AmpKnown'
        /\ SettingsKnown'
    BY <2>1
    DEF DriverInv, RoutineSound, AtRest, KeyKnown, AmpKnown, SettingsKnown
  <2>5. /\ StartSound' /\ OwnedSound' /\ StopSound' /\ RetuneSound'
        /\ RestoreSound'
    BY <2>1 DEF StartSound, OwnedSound, StopSound, RetuneSound, RestoreSound
  <2> QED
    BY <2>3, <2>4, <2>5 DEF DriverInv
<1>5. CASE BeginStop
  <2>1. /\ op' = "STOP" /\ todo' = CleanupPlan(dev) /\ err' = FALSE
        /\ UNCHANGED <<dev, hw, phase, cleanup_failed, hist>>
    BY <1>5 DEF BeginStop, Begin
  <2>2. phase = "OWNED" /\ dev \in Device
    BY <1>5 DEF BeginStop, DriverInv, TypeOK, AtRest
  <2>3. /\ dev.key_attempted /\ dev.frequency_attempted /\ dev.pa_filter_known
        /\ dev.transmit_prepared /\ dev.freq # 0
        /\ dev.freq = hist.dial /\ dev.gain = hist.gain
    BY <2>2 DEF DriverInv, OwnedSound, SettingsKnown
  <2>4. /\ todo' \subseteq CleanupSteps
        /\ {"C_MUTE", "C_UNKEY", "C_RESTORE", "C_UNMUTE", "C_PA", "C_AMP"}
             \subseteq todo'
    BY <2>1, <2>2, <2>3, PlanOf
  <2>5. /\ dev' \in Device /\ dev'.key_attempted /\ dev'.transmit_prepared
        /\ dev'.freq = dev.freq /\ dev'.gain = dev.gain
    BY <2>1, <2>2, <2>3 DEF Device
  <2>6. TypeOK'
    BY <2>1, <2>4, <2>5, CleanupStepsAreSteps DEF DriverInv, TypeOK
  <2>7. /\ RoutineSound' /\ AtRest' /\ KeyKnown' /\ AmpKnown'
        /\ SettingsKnown'
    BY <2>1, <2>2, <2>3, <2>4, <2>5
    DEF RoutineSound, AtRest, KeyKnown, AmpKnown, SettingsKnown
  <2>8. /\ StartSound' /\ OwnedSound' /\ StopSound' /\ RetuneSound'
        /\ RestoreSound'
    BY <2>1, <2>2, <2>3, <2>4, <2>5
    DEF StartSound, OwnedSound, StopSound, RetuneSound, RestoreSound, Follows
  <2> QED
    BY <2>6, <2>7, <2>8 DEF DriverInv
<1>6. CASE StopFindsNothing
  <2>1. phase = "ROLLBACK"
    BY <1>6 DEF StopFindsNothing, NothingToStop, DriverInv, OwnedSound
  <2>2. /\ phase' = "FAULTED" /\ cleanup_failed' = FALSE
        /\ UNCHANGED <<dev, hw, op, todo, err, hist>>
    BY <1>6, <2>1 DEF StopFindsNothing
  <2>3. TypeOK'
    BY <2>2 DEF DriverInv, TypeOK
  <2>4. /\ RoutineSound' /\ AtRest' /\ KeyKnown' /\ AmpKnown'
        /\ SettingsKnown'
    BY <2>1, <2>2
    DEF DriverInv, RoutineSound, AtRest, KeyKnown, AmpKnown, SettingsKnown
  <2>5. /\ StartSound' /\ OwnedSound' /\ StopSound' /\ RetuneSound'
        /\ RestoreSound'
    BY <2>2 DEF StartSound, OwnedSound, StopSound, RetuneSound, RestoreSound
  <2> QED
    BY <2>3, <2>4, <2>5 DEF DriverInv
<1>8. CASE BeginRecovery
  <2>1. /\ dev' = [dev EXCEPT !.dial = dev.freq, !.level = dev.gain]
        /\ phase \in {"REST", "FAULTED"} /\ op' = "DISABLE"
        /\ todo' = DisablePlan(dev) /\ err' = FALSE
        /\ UNCHANGED <<hw, phase, cleanup_failed, hist>>
    BY <1>8 DEF BeginRecovery, Begin
  <2>2. /\ dev \in Device
    BY DEF DriverInv, TypeOK
  <2>3. dev' \in Device /\ hw' \in Registers /\ hist' \in History
    BY <2>1, <2>2 DEF DriverInv, TypeOK, Device
  <2>4. TypeOK'
    BY <2>1, <2>2, <2>3, DisablePlanOf, RoutineStepsAreSteps
    DEF DriverInv, TypeOK
  <2>5. /\ RoutineSound' /\ AtRest' /\ KeyKnown' /\ AmpKnown'
        /\ SettingsKnown'
    BY <2>1, <2>2, DisablePlanOf
    DEF DriverInv, RoutineSound, AtRest, KeyKnown, AmpKnown, SettingsKnown,
        NothingToStop
  <2>6. /\ StartSound' /\ OwnedSound' /\ StopSound' /\ RetuneSound'
        /\ RestoreSound'
    BY <2>1, <2>2, DisablePlanOf
    DEF StartSound, OwnedSound, StopSound, RetuneSound, RestoreSound
  <2> QED
    BY <2>4, <2>5, <2>6 DEF DriverInv
<1>9. CASE BeginExit
  <2>1. /\ dev' = [dev EXCEPT !.dial = 0, !.level = DefaultGain,
                           !.gain = DefaultGain]
        /\ hist' = [hist EXCEPT !.dial = 0, !.gain = DefaultGain]
        /\ phase \in {"REST", "FAULTED"} /\ op' = "DISABLE"
        /\ todo' = DisablePlan(dev) /\ err' = FALSE
        /\ UNCHANGED <<hw, phase, cleanup_failed>>
    BY <1>9 DEF BeginExit, Begin, Forgotten
  <2>2. /\ dev \in Device
    BY DEF DriverInv, TypeOK
  <2>3. dev' \in Device /\ hw' \in Registers /\ hist' \in History
    BY <2>1, <2>2 DEF DriverInv, TypeOK, Device, History
  <2>4. TypeOK'
    BY <2>1, <2>2, <2>3, DisablePlanOf, RoutineStepsAreSteps
    DEF DriverInv, TypeOK
  <2>5. /\ RoutineSound' /\ AtRest' /\ KeyKnown' /\ AmpKnown'
        /\ SettingsKnown'
    BY <2>1, <2>2, DisablePlanOf
    DEF DriverInv, RoutineSound, AtRest, KeyKnown, AmpKnown, SettingsKnown,
        NothingToStop
  <2>6. /\ StartSound' /\ OwnedSound' /\ StopSound' /\ RetuneSound'
        /\ RestoreSound'
    BY <2>1, <2>2, DisablePlanOf
    DEF StartSound, OwnedSound, StopSound, RetuneSound, RestoreSound
  <2> QED
    BY <2>4, <2>5, <2>6 DEF DriverInv
<1>10. ASSUME NEW e \in Emissions, BeginStart(e) PROVE DriverInv'
  <2>1. /\ dev' = [dev EXCEPT !.prepared = TRUE, !.emission = e]
        /\ dev.transmit_prepared /\ dev.freq # 0 /\ phase = "REST"
        /\ op' = "START" /\ todo' = Elements(StartOrder) /\ err' = FALSE
        /\ cleanup_failed' = FALSE /\ UNCHANGED <<hw, phase, hist>>
    BY <1>10 DEF BeginStart, StartPermitted, Begin
  <2>2. /\ todo' = StartSteps
    BY <2>1, WholeRoutine
  <2>3. dev' \in Device /\ hw' \in Registers /\ hist' \in History
    BY <2>1, <2>2 DEF DriverInv, TypeOK, Device
  <2>4. TypeOK'
    BY <2>1, <2>2, <2>3, RoutineStepsAreSteps
    DEF DriverInv, TypeOK
  <2>5. /\ RoutineSound' /\ AtRest' /\ KeyKnown' /\ AmpKnown'
        /\ SettingsKnown'
    BY <2>1, <2>2
    DEF DriverInv, RoutineSound, AtRest, KeyKnown, AmpKnown, SettingsKnown
  <2>6. /\ StartSound' /\ OwnedSound' /\ StopSound' /\ RetuneSound'
        /\ RestoreSound'
    BY <2>1, <2>2
    DEF DriverInv, KeyKnown, StartSound, OwnedSound, StopSound, RetuneSound,
        RestoreSound, Follows, StartSteps
  <2> QED
    BY <2>4, <2>5, <2>6 DEF DriverInv
<1>11. ASSUME NEW f \in Freqs, Retune(f) PROVE DriverInv'
  <2>1. /\ dev' = [dev EXCEPT !.dial = f] /\ phase \in {"REST", "FAULTED"}
        /\ op' = "RETUNE" /\ err' = FALSE
        /\ todo' \subseteq {"T_FREQ", "T_FILTER", "T_PA"}
        /\ "T_FREQ" \in todo' /\ "T_FILTER" \in todo'
        /\ UNCHANGED <<hw, phase, cleanup_failed, hist>>
    BY <1>11 DEF Retune, Begin
  <2>2. dev' \in Device /\ hw' \in Registers /\ hist' \in History
    BY <2>1 DEF DriverInv, TypeOK, Device
  <2>3. TypeOK'
    BY <2>1, <2>2, RoutineStepsAreSteps
    DEF DriverInv, TypeOK
  <2>4. /\ RoutineSound' /\ AtRest' /\ KeyKnown' /\ AmpKnown'
        /\ SettingsKnown'
    BY <2>1, FreqsAssumption
    DEF DriverInv, RoutineSound, AtRest, KeyKnown, AmpKnown, SettingsKnown,
        NothingToStop
  <2>5. /\ StartSound' /\ OwnedSound' /\ StopSound' /\ RetuneSound'
        /\ RestoreSound'
    BY <2>1, FreqsAssumption
    DEF StartSound, OwnedSound, StopSound, RetuneSound, RestoreSound, Follows
  <2> QED
    BY <2>3, <2>4, <2>5 DEF DriverInv
<1>12. ASSUME NEW g \in Gains, SetGain(g) PROVE DriverInv'
  <2>1. /\ dev' = [dev EXCEPT !.level = g] /\ phase \in {"REST", "FAULTED"}
        /\ op' = "GAIN" /\ err' = FALSE /\ todo' = Elements(GainOrder)
        /\ UNCHANGED <<hw, phase, cleanup_failed, hist>>
    BY <1>12 DEF SetGain, Begin
  <2>2. /\ todo' = {"G_GAIN"}
    BY <2>1, WholeRoutine
  <2>3. dev' \in Device /\ hw' \in Registers /\ hist' \in History
    BY <2>1, <2>2 DEF DriverInv, TypeOK, Device
  <2>4. TypeOK'
    BY <2>1, <2>2, <2>3, RoutineStepsAreSteps
    DEF DriverInv, TypeOK
  <2>5. /\ RoutineSound' /\ AtRest' /\ KeyKnown' /\ AmpKnown'
        /\ SettingsKnown'
    BY <2>1, <2>2
    DEF DriverInv, RoutineSound, AtRest, KeyKnown, AmpKnown, SettingsKnown,
        NothingToStop
  <2>6. /\ StartSound' /\ OwnedSound' /\ StopSound' /\ RetuneSound'
        /\ RestoreSound'
    BY <2>1, <2>2
    DEF StartSound, OwnedSound, StopSound, RetuneSound, RestoreSound
  <2> QED
    BY <2>4, <2>5, <2>6 DEF DriverInv
<1> QED
  BY <1>1, <1>2, <1>3, <1>4, <1>5, <1>6, <1>8, <1>9, <1>10, <1>11, <1>12

(* A routine returns to its caller. *)
LEMMA ReturnStep ==
  ASSUME DriverInv,
         \/ StartReturns \/ RollbackReturns \/ StopReturns \/ SettingReturns
         \/ RestoreReturns \/ UndoReturns \/ CloseReturns
  PROVE  DriverInv'
<1> USE GainsAssumption
<1>1. CASE StartReturns
  <2>1. /\ op = "START" /\ todo = {}
        /\ phase' = "OWNED" /\ op' = "IDLE" /\ todo' = {} /\ err' = FALSE
        /\ UNCHANGED <<dev, hw, cleanup_failed, hist>>
    BY <1>1 DEF StartReturns, Idle
  <2>2. dev' \in Device /\ hw' \in Registers /\ hist' \in History
    BY <2>1 DEF DriverInv, TypeOK
  <2>3. TypeOK'
    BY <2>1, <2>2 DEF DriverInv, TypeOK
  <2>4. /\ RoutineSound' /\ AtRest' /\ KeyKnown' /\ AmpKnown'
        /\ SettingsKnown'
    BY <2>1
    DEF DriverInv, RoutineSound, AtRest, KeyKnown, AmpKnown, SettingsKnown
  <2>5. /\ StartSound' /\ OwnedSound' /\ StopSound' /\ RetuneSound'
        /\ RestoreSound'
    BY <2>1
    DEF DriverInv, StartSound, OwnedSound, StopSound, RetuneSound,
        RestoreSound
  <2> QED
    BY <2>3, <2>4, <2>5 DEF DriverInv
<1>2. CASE RollbackReturns
  <2>1. /\ op = "ROLLBACK" /\ todo = {}
        /\ dev' = [dev EXCEPT
                  !.keyed = FALSE, !.key_attempted = FALSE, !.active = FALSE,
                  !.prepared = FALSE, !.transition_attempted = FALSE,
                  !.frequency_attempted = FALSE, !.streaming = FALSE,
                  !.slots = FALSE, !.emission = "NONE"]
        /\ phase' = "ROLLBACK" /\ op' = "IDLE" /\ todo' = {} /\ err' = FALSE
        /\ UNCHANGED <<hw, cleanup_failed, hist>>
    BY <1>2 DEF RollbackReturns, Stopped, Idle
  <2>2. dev' \in Device /\ hw' \in Registers /\ hist' \in History
    BY <2>1 DEF DriverInv, TypeOK, Device
  <2>3. TypeOK'
    BY <2>1, <2>2 DEF DriverInv, TypeOK
  <2>4. /\ RoutineSound' /\ AtRest' /\ KeyKnown' /\ AmpKnown'
        /\ SettingsKnown'
    BY <2>1
    DEF DriverInv, RoutineSound, AtRest, KeyKnown, AmpKnown, SettingsKnown,
        NothingToStop
  <2>5. /\ StartSound' /\ OwnedSound' /\ StopSound' /\ RetuneSound'
        /\ RestoreSound'
    BY <2>1 DEF StartSound, OwnedSound, StopSound, RetuneSound, RestoreSound
  <2> QED
    BY <2>3, <2>4, <2>5 DEF DriverInv
<1>3. CASE StopReturns
  <2>1. /\ op = "STOP" /\ todo = {}
        /\ dev' = [dev EXCEPT
                  !.keyed = FALSE, !.key_attempted = FALSE, !.active = FALSE,
                  !.prepared = FALSE, !.transition_attempted = FALSE,
                  !.frequency_attempted = FALSE, !.streaming = FALSE,
                  !.slots = FALSE, !.emission = "NONE"]
        /\ phase' \in {"FAULTED", "REST"} /\ op' = "IDLE" /\ todo' = {} /\ err' = FALSE
        /\ cleanup_failed' = err /\ UNCHANGED <<hw, hist>>
    BY <1>3 DEF StopReturns, Stopped, Idle
  <2>2. dev' \in Device /\ hw' \in Registers /\ hist' \in History
    BY <2>1 DEF DriverInv, TypeOK, Device
  <2>3. TypeOK'
    BY <2>1, <2>2 DEF DriverInv, TypeOK
  <2>4. /\ RoutineSound' /\ AtRest' /\ KeyKnown' /\ AmpKnown'
        /\ SettingsKnown'
    BY <2>1
    DEF DriverInv, RoutineSound, AtRest, KeyKnown, AmpKnown, SettingsKnown,
        NothingToStop
  <2>5. /\ StartSound' /\ OwnedSound' /\ StopSound' /\ RetuneSound'
        /\ RestoreSound'
    BY <2>1 DEF StartSound, OwnedSound, StopSound, RetuneSound, RestoreSound
  <2> QED
    BY <2>3, <2>4, <2>5 DEF DriverInv
<1>4. CASE SettingReturns
  <2>1. /\ op \in {"RETUNE", "GAIN"} /\ todo = {}
        /\ dev' = [dev EXCEPT !.dial = 0, !.level = DefaultGain]
        /\ op' = "IDLE" /\ todo' = {} /\ err' = FALSE
        /\ UNCHANGED <<hw, phase, cleanup_failed, hist>>
    BY <1>4 DEF SettingReturns, Settled, Idle
  <2>2. dev' \in Device /\ hw' \in Registers /\ hist' \in History
    BY <2>1 DEF DriverInv, TypeOK, Device
  <2>3. TypeOK'
    BY <2>1, <2>2 DEF DriverInv, TypeOK
  <2>4. /\ RoutineSound' /\ AtRest' /\ KeyKnown' /\ AmpKnown'
        /\ SettingsKnown'
    BY <2>1
    DEF DriverInv, RoutineSound, AtRest, KeyKnown, AmpKnown, SettingsKnown,
        NothingToStop
  <2>5. /\ StartSound' /\ OwnedSound' /\ StopSound' /\ RetuneSound'
        /\ RestoreSound'
    BY <2>1
    DEF DriverInv, RoutineSound, StartSound, OwnedSound, StopSound,
        RetuneSound, RestoreSound
  <2> QED
    BY <2>3, <2>4, <2>5 DEF DriverInv
<1>5. CASE RestoreReturns
  <2>1. /\ op = "RESTORE" /\ todo = {}
        /\ dev' = [dev EXCEPT !.dial = 0, !.level = DefaultGain]
        /\ phase' = "REST" /\ op' = "IDLE" /\ todo' = {} /\ err' = FALSE
        /\ cleanup_failed' = FALSE /\ UNCHANGED <<hw, hist>>
    BY <1>5 DEF RestoreReturns, Settled, Idle
  <2>2. /\ phase = "DOWN" /\ dev.freq = hist.dial /\ dev.gain = hist.gain
    BY <2>1 DEF DriverInv, RoutineSound, SettingsKnown, RestoreSound
  <2>3. dev' \in Device /\ hw' \in Registers /\ hist' \in History
    BY <2>1, <2>2 DEF DriverInv, TypeOK, Device
  <2>4. TypeOK'
    BY <2>1, <2>2, <2>3 DEF DriverInv, TypeOK
  <2>5. /\ RoutineSound' /\ AtRest' /\ KeyKnown' /\ AmpKnown'
        /\ SettingsKnown'
    BY <2>1, <2>2
    DEF DriverInv, RoutineSound, AtRest, KeyKnown, AmpKnown, SettingsKnown,
        NothingToStop
  <2>6. /\ StartSound' /\ OwnedSound' /\ StopSound' /\ RetuneSound'
        /\ RestoreSound'
    BY <2>1, <2>2
    DEF StartSound, OwnedSound, StopSound, RetuneSound, RestoreSound
  <2> QED
    BY <2>4, <2>5, <2>6 DEF DriverInv
<1>6. CASE UndoReturns
  <2>1. /\ op = "UNDO"
        /\ op' = "DISABLE" /\ todo' = DisablePlan(dev) /\ err' = FALSE
        /\ UNCHANGED <<dev, hw, phase, cleanup_failed, hist>>
    BY <1>6 DEF UndoReturns, Begin
  <2>2. /\ dev \in Device
    BY DEF DriverInv, TypeOK
  <2>3. dev' \in Device /\ hw' \in Registers /\ hist' \in History
    BY <2>1, <2>2 DEF DriverInv, TypeOK
  <2>4. TypeOK'
    BY <2>1, <2>2, <2>3, DisablePlanOf, RoutineStepsAreSteps
    DEF DriverInv, TypeOK
  <2>5. /\ RoutineSound' /\ AtRest' /\ KeyKnown' /\ AmpKnown'
        /\ SettingsKnown'
    BY <2>1, <2>2, DisablePlanOf
    DEF DriverInv, RoutineSound, AtRest, KeyKnown, AmpKnown, SettingsKnown
  <2>6. /\ StartSound' /\ OwnedSound' /\ StopSound' /\ RetuneSound'
        /\ RestoreSound'
    BY <2>1, <2>2, DisablePlanOf
    DEF DriverInv, StartSound, OwnedSound, StopSound, RetuneSound,
        RestoreSound
  <2> QED
    BY <2>4, <2>5, <2>6 DEF DriverInv
<1>7. CASE CloseReturns
  <2>1. /\ op = "DISABLE" /\ todo = {} /\ dev' = Closed(dev)
        /\ phase' = "DOWN" /\ op' = "IDLE" /\ todo' = {} /\ err' = FALSE
        /\ UNCHANGED <<hw, cleanup_failed, hist>>
    BY <1>7 DEF CloseReturns, Idle
  <2>2. dev' \in Device
    BY <2>1 DEF DriverInv, TypeOK, Device, Closed
  <2>3. /\ NothingToStop(dev') /\ dev'.freq = 0
        /\ dev'.dial = dev.dial /\ dev'.level = dev.level
    BY <2>1 DEF Closed, NothingToStop
  <2>4. TypeOK'
    BY <2>1, <2>2 DEF DriverInv, TypeOK
  <2>5. hist.unkey_sent /\ hist.amp_off_sent
    BY <2>1 DEF DriverInv, TypeOK, RoutineSound, KeyKnown, AmpKnown
  <2>6. /\ RoutineSound' /\ AtRest' /\ KeyKnown' /\ AmpKnown'
        /\ SettingsKnown'
    BY <2>1, <2>3, <2>5
    DEF DriverInv, RoutineSound, AtRest, KeyKnown, AmpKnown, SettingsKnown
  <2>7. /\ StartSound' /\ OwnedSound' /\ StopSound' /\ RetuneSound'
        /\ RestoreSound'
    BY <2>1, <2>3
    DEF StartSound, OwnedSound, StopSound, RetuneSound, RestoreSound
  <2> QED
    BY <2>4, <2>6, <2>7 DEF DriverInv
<1> QED
  BY <1>1, <1>2, <1>3, <1>4, <1>5, <1>6, <1>7

(* Every step of the driver keeps the invariant. *)
LEMMA DriverStep ==
  ASSUME DriverInv, [Next]_vars
  PROVE  DriverInv'
<1>1. CASE StepSucceeds \/ StepFails
  <2>1. op # "IDLE"
    BY <1>1 DEF StepSucceeds, StepFails, DriverInv, RoutineSound
  <2> QED
    BY <1>1, <2>1, StartStepSucceeds, StartStepFails, CleanupStep, CloseStep,
       RestoreStepSucceeds, RestoreStepFails, SettingStepSucceeds,
       SettingStepFails
    DEF DriverInv, TypeOK
<1>2. CASE \/ Reopen \/ PowerCycle \/ GiveUp \/ RejectStart \/ BeginStop
           \/ StopFindsNothing \/ BeginRecovery \/ BeginExit
           \/ \E e \in Emissions : BeginStart(e)
           \/ \E f \in Freqs : Retune(f)
           \/ \E g \in Gains : SetGain(g)
  <2>1. op = "IDLE"
    BY <1>2 DEF Reopen, PowerCycle, GiveUp, RejectStart, BeginStop,
       StopFindsNothing, BeginRecovery, BeginExit, BeginStart,
       Retune, SetGain
  <2> QED
    BY <1>2, <2>1, CallStep
<1>3. CASE \/ StartReturns \/ RollbackReturns \/ StopReturns \/ SettingReturns
           \/ RestoreReturns \/ UndoReturns \/ CloseReturns
  BY <1>3, ReturnStep
<1>4. CASE LoseDevice
  BY <1>4, LossStep
<1>5. CASE UNCHANGED vars
  BY <1>5
  DEF vars, DriverInv, TypeOK, RoutineSound, AtRest, KeyKnown, AmpKnown,
      StartSound, OwnedSound, StopSound, RetuneSound, SettingsKnown,
      RestoreSound, Follows
<1> QED
  BY <1>1, <1>2, <1>3, <1>4, <1>5 DEF Next

(* The invariant of the driver: what its flags say about the radio covers  *)
(* every command sent so far, whatever has failed.                         *)
THEOREM DriverInvariance == Spec => []DriverInv
BY DriverInit, DriverStep, PTL DEF Spec

(* The driver's state stays what its C structures can hold. *)
THEOREM DriverTyped == Spec => []TypeOK
<1>1. DriverInv => TypeOK
  BY DEF DriverInv
<1> QED
  BY <1>1, DriverInvariance, PTL

(* Whatever command of a start, a stop or a rollback fails, an unowned     *)
(* transmitter at rest has been sent SET_TR(0) after every SET_TR(1).      *)
THEOREM KeyIsAnswered == Spec => []KeyAlwaysAnswered
<1>1. DriverInv => KeyAlwaysAnswered
  BY DEF DriverInv, KeyKnown, KeyAlwaysAnswered
<1> QED
  BY <1>1, DriverInvariance, PTL

(* The handle is closed only after an amplifier disable has been tried.    *)
THEOREM AmplifierIsOff == Spec => []AmplifierOffAtClose
<1>1. DriverInv => AmplifierOffAtClose
  BY DEF DriverInv, AmpKnown, AmplifierOffAtClose
<1> QED
  BY <1>1, DriverInvariance, PTL

(* Only KEY raises the transmit relay. *)
LEMMA WrittenKey ==
  ASSUME NEW h \in Registers, NEW d, NEW o, NEW s,
         Written(h, d, o, s).tr, ~h.tr
  PROVE  s = "KEY"
BY DEF Written, Registers

(* Only KEY and C_UNKEY switch it. *)
LEMMA WrittenNoKey ==
  ASSUME NEW h \in Registers, NEW d, NEW o, NEW s, s \notin {"KEY", "C_UNKEY"}
  PROVE  Written(h, d, o, s).tr = h.tr
BY DEF Written, Registers

(* What a command can do to the amplifier and its filter. *)
LEMMA WrittenAmp ==
  ASSUME NEW h \in Registers, NEW d, NEW o, NEW s,
         s \notin {"PA", "PREP_PA", "T_PA", "C_PA", "UNDO_PA", "AMP",
                   "PREP_AMP", "C_AMP", "UNDO_AMP"}
  PROVE  Written(h, d, o, s).pa = h.pa /\ Written(h, d, o, s).amp = h.amp
BY DEF Written, Registers

(* Between two calls, at a call and at a return no register changes, but   *)
(* for a power cycle.                                                      *)
LEMMA RegistersKept ==
  ASSUME [Next]_vars, ~StepSucceeds, ~StepFails, ~PowerCycle
  PROVE  hw' = hw
<1>1. ASSUME NEW e \in Emissions, BeginStart(e) PROVE hw' = hw
  BY <1>1 DEF BeginStart
<1>2. ASSUME NEW f \in Freqs, Retune(f) PROVE hw' = hw
  BY <1>2 DEF Retune
<1>3. ASSUME NEW g \in Gains, SetGain(g) PROVE hw' = hw
  BY <1>3 DEF SetGain
<1> QED
  BY <1>1, <1>2, <1>3
  DEF Next, vars, Reopen, GiveUp, RejectStart, BeginStop, StopFindsNothing,
      LoseDevice, BeginRecovery, BeginExit, StartReturns, RollbackReturns,
      StopReturns, SettingReturns, RestoreReturns, UndoReturns, CloseReturns

(* A command either leaves the registers or writes what it stands for. *)
LEMMA StepWrites ==
  ASSUME StepSucceeds \/ StepFails
  PROVE  hw' \in {hw, Written(hw, dev, op, Now)} /\ todo # {}
BY DEF StepSucceeds, StepFails

(* KEY is a step of a start, sent when every earlier step has been taken.  *)
LEMMA KeyInStart ==
  ASSUME DriverInv, todo # {}, Now = "KEY"
  PROVE  /\ op = "START"
         /\ todo \cap {"PA", "AMP", "STREAM", "MUTE", "TXFREQ"} = {}
         /\ "KEY" \in todo
<1>1. Now \in todo /\ \A t \in todo : Rank[Now] <= Rank[t]
  BY NowIs
<1>2. op = "START"
  BY <1>1 DEF DriverInv, TypeOK, RoutineSound, CleanupSteps, RestoreSteps
<1> QED
  BY <1>1, <1>2, Ranks

(* The carrier rises only with KEY, behind everything StartSound says the  *)
(* earlier steps have put in place; it reaches its owner only past SETTLE, *)
(* which found the stream alive, and so alive at the key.                  *)
THEOREM CarrierIsReady == Spec => CarrierOnlyWhenReady
<1>1. ASSUME DriverInv, [Next]_vars PROVE CarrierRises
  <2> SUFFICES ASSUME hw'.tr, ~hw.tr
               PROVE  /\ hw.mute /\ hw.amp
                      /\ hw.tuned + StreamShift(dev.emission) = dev.freq
                      /\ hw.pa = PaFilter[dev.freq] /\ dev.slots
    BY DEF CarrierRises
  <2>1. ~PowerCycle
    BY DEF PowerCycle, PoweredOn
  <2>2. StepSucceeds \/ StepFails
    BY <1>1, <2>1, RegistersKept
  <2>3. Now = "KEY" /\ todo # {}
    <3>1. hw' = Written(hw, dev, op, Now) /\ todo # {}
      BY <2>2, StepWrites
    <3>2. hw \in Registers
      BY <1>1 DEF DriverInv, TypeOK
    <3> QED
      BY <3>1, <3>2, WrittenKey
  <2>4. /\ op = "START" /\ "KEY" \in todo
        /\ todo \cap {"PA", "AMP", "STREAM", "MUTE", "TXFREQ"} = {}
    BY <1>1, <2>3, KeyInStart
  <2>5. /\ hw.mute /\ hw.amp /\ hw.pa = PaFilter[dev.freq] /\ dev.slots
        /\ hw.tuned = dev.freq - TxOffset(dev.emission)
        /\ dev.emission \in Emissions
    BY <1>1, <2>4 DEF DriverInv, StartSound, Follows
  <2>6. /\ TxOffset(dev.emission) \in Int
        /\ StreamShift(dev.emission) = TxOffset(dev.emission)
    BY <2>5, OffsetIsShift
  <2>7. dev.freq \in Int
    <3>1. dev.freq \in Freqs \cup {0}
      BY <1>1 DEF DriverInv, TypeOK, Device
    <3> QED
      BY <3>1, DialIsInt
  <2> QED
    BY <2>5, <2>6, <2>7
<1>2. ASSUME DriverInv, [Next]_vars PROVE CarrierHandedOver
  <2> SUFFICES ASSUME phase' = "OWNED", phase # "OWNED"
               PROVE  hw.tr /\ hist.live
    BY DEF CarrierHandedOver
  <2>1. StartReturns
    BY <1>2 DEF Next, vars, Reopen, PowerCycle, GiveUp, RejectStart, BeginStop,
       StopFindsNothing, BeginStart, Retune, SetGain, LoseDevice,
       BeginRecovery, BeginExit, StepSucceeds, StepFails, RollbackReturns,
       StopReturns, SettingReturns, RestoreReturns, UndoReturns, CloseReturns
  <2> QED
    BY <1>2, <2>1 DEF StartReturns, DriverInv, StartSound
<1> QED
  BY <1>1, <1>2, DriverInvariance, PTL DEF Spec, CarrierOnlyWhenReady

(* While a SET_TR(1) is unanswered the next command is one of the last     *)
(* steps of the start, or the mute and the unkey of the clean-up.          *)
LEMMA NextWhileKeyed ==
  ASSUME DriverInv, ~hist.unkey_sent, todo # {}
  PROVE  Now \in {"SETTLE", "UNMUTE", "C_MUTE", "C_UNKEY"}
<1>1. Now \in todo /\ \A t \in todo : Rank[Now] <= Rank[t]
  BY NowIs
<1>2. \/ op = "START" /\ "KEY" \notin todo
      \/ op \in {"ROLLBACK", "STOP"} /\ "C_UNKEY" \in todo
  BY DEF DriverInv, KeyKnown, RoutineSound
<1>3. CASE op = "START" /\ "KEY" \notin todo
  <2>1. Now \in StartSteps
    BY <1>1, <1>3 DEF DriverInv, RoutineSound
  <2>2. todo \cap {"PA", "AMP", "STREAM", "PREROLL", "MUTE", "TXFREQ", "KEY"} = {}
    BY <1>3 DEF DriverInv, StartSound, Follows
  <2> QED
    BY <1>1, <2>1, <2>2 DEF StartSteps
<1>4. CASE op \in {"ROLLBACK", "STOP"} /\ "C_UNKEY" \in todo
  <2>1. Now \in CleanupSteps /\ Rank[Now] <= Rank["C_UNKEY"]
    BY <1>1, <1>4 DEF DriverInv, RoutineSound
  <2> QED
    BY <2>1, Ranks DEF CleanupSteps
<1> QED
  BY <1>2, <1>3, <1>4

(* The PA relay and the amplifier are not switched before the unkey. *)
THEOREM NeverHotSwitched == Spec => NoHotSwitch
<1>1. ASSUME DriverInv, [Next]_vars PROVE Switches
  <2> SUFFICES ASSUME ~hist.unkey_sent PROVE hw'.pa = hw.pa /\ hw'.amp = hw.amp
    BY DEF Switches
  <2>1. ~PowerCycle
    BY <1>1 DEF PowerCycle, DriverInv, KeyKnown
  <2>2. CASE StepSucceeds \/ StepFails
    <3>1. hw' \in {hw, Written(hw, dev, op, Now)} /\ todo # {}
      BY <2>2, StepWrites
    <3>2. Now \in {"SETTLE", "UNMUTE", "C_MUTE", "C_UNKEY"}
      BY <1>1, <3>1, NextWhileKeyed
    <3> QED
      BY <1>1, <3>1, <3>2, WrittenAmp DEF DriverInv, TypeOK
  <2>3. CASE ~StepSucceeds /\ ~StepFails
    BY <1>1, <2>1, <2>3, RegistersKept
  <2> QED
    BY <2>2, <2>3
<1> QED
  BY <1>1, DriverInvariance, PTL DEF Spec, NoHotSwitch

(* Only the return of a stop without an error takes an owned transmitter   *)
(* to rest.                                                                *)
LEMMA RestAfterStop ==
  ASSUME DriverInv, [Next]_vars, phase = "OWNED", phase' = "REST"
  PROVE  StopReturns /\ err = FALSE
<1>1. ~StopFindsNothing
  BY DEF StopFindsNothing, NothingToStop, DriverInv, OwnedSound
<1>2. ASSUME NEW e \in Emissions, BeginStart(e) PROVE FALSE
  BY <1>2 DEF BeginStart
<1>3. ASSUME NEW f \in Freqs, Retune(f) PROVE FALSE
  BY <1>3 DEF Retune
<1>4. ASSUME NEW g \in Gains, SetGain(g) PROVE FALSE
  BY <1>4 DEF SetGain
<1>5. ~RestoreReturns
  BY DEF RestoreReturns, DriverInv, RoutineSound
<1>6. StopReturns
  BY <1>1, <1>2, <1>3, <1>4, <1>5
  DEF Next, vars, Reopen, PowerCycle, GiveUp, RejectStart, BeginStop,
      LoseDevice, BeginRecovery, BeginExit, StepSucceeds, StepFails,
      StartReturns, RollbackReturns, SettingReturns, UndoReturns,
      CloseReturns
<1> QED
  BY <1>6 DEF StopReturns, DriverInv, TypeOK

(* A stop reported as a success has restored receive. *)
THEOREM StopRestores == Spec => StopRestoresReceive
<1>1. ASSUME DriverInv, [Next]_vars PROVE StopSucceeds
  <2> SUFFICES ASSUME phase = "OWNED", phase' = "REST"
               PROVE  /\ hw' = [tr |-> FALSE, mute |-> FALSE, amp |-> FALSE,
                                pa |-> PaFilter[dev.freq], tuned |-> dev.freq,
                                filter |-> hw.filter, gain |-> hw.gain]
                      /\ ~dev'.slots
    BY DEF StopSucceeds
  <2>1. StopReturns /\ err = FALSE
    BY <1>1, RestAfterStop
  <2>2. op = "STOP" /\ todo = {} /\ hw' = hw /\ dev' = Stopped(dev)
    BY <2>1 DEF StopReturns
  <2>3. /\ ~hw.tr /\ ~hw.mute /\ ~hw.amp
        /\ hw.pa = PaFilter[dev.freq] /\ hw.tuned = dev.freq
    BY <1>1, <2>1, <2>2 DEF DriverInv, StopSound
  <2>4. /\ hw.tr \in BOOLEAN /\ hw.mute \in BOOLEAN /\ hw.amp \in BOOLEAN
        /\ hw = [tr |-> hw.tr, mute |-> hw.mute, amp |-> hw.amp, pa |-> hw.pa,
                 tuned |-> hw.tuned, filter |-> hw.filter, gain |-> hw.gain]
    BY <1>1 DEF DriverInv, TypeOK, Registers
  <2>5. hw.tr = FALSE /\ hw.mute = FALSE /\ hw.amp = FALSE
    BY <2>3, <2>4
  <2>6. ~dev'.slots
    BY <1>1, <2>2 DEF Stopped, DriverInv, TypeOK, Device
  <2> QED
    BY <2>2, <2>3, <2>4, <2>5, <2>6
<1> QED
  BY <1>1, DriverInvariance, PTL DEF Spec, StopRestoresReceive

(* A recovery that reaches the running receiver has restored the settings  *)
(* the user last saw accepted.                                             *)
THEOREM RecoveryIsComplete == Spec => RecoveryRestores
<1>1. ASSUME DriverInv, [Next]_vars PROVE Recovers
  <2> SUFFICES ASSUME op = "RESTORE", op' = "IDLE"
               PROVE  /\ hw.gain = hist.gain
                      /\ hist.dial # 0 =>
                           /\ hw.tuned = hist.dial
                           /\ hw.filter = RxFilter[hist.dial]
                           /\ hw.pa = PaFilter[hist.dial]
    BY DEF Recovers
  <2>1. ~StepSucceeds /\ ~StepFails
    BY DEF StepSucceeds, StepFails, Begin
  <2>2. ASSUME NEW e \in Emissions, BeginStart(e) PROVE FALSE
    BY <2>2 DEF BeginStart
  <2>3. ASSUME NEW f \in Freqs, Retune(f) PROVE FALSE
    BY <2>3 DEF Retune
  <2>4. ASSUME NEW g \in Gains, SetGain(g) PROVE FALSE
    BY <2>4 DEF SetGain
  <2>5. RestoreReturns
    BY <1>1, <2>1, <2>2, <2>3, <2>4
    DEF Next, vars, Reopen, PowerCycle, GiveUp, RejectStart, BeginStop,
        StopFindsNothing, LoseDevice, BeginRecovery, BeginExit, StartReturns,
        RollbackReturns, StopReturns, SettingReturns, UndoReturns,
        CloseReturns
  <2>6. todo = {} /\ phase = "DOWN"
    BY <1>1, <2>5 DEF RestoreReturns, DriverInv, RoutineSound
  <2> QED
    BY <1>1, <2>6 DEF DriverInv, RestoreSound, SettingsKnown
<1> QED
  BY <1>1, DriverInvariance, PTL DEF Spec, RecoveryRestores

-----------------------------------------------------------------------------
(* A command keeps the contract: inside a start anything may happen to the *)
(* key, inside a stop it can only fall, and outside both it stays.         *)
LEMMA ContractCommand ==
  ASSUME DriverInv, DriverInv', StepSucceeds \/ StepFails
  PROVE  Contract!Starting \/ Contract!Stopping \/ UNCHANGED Contract!vars
<1>1. hw \in Registers /\ hw'.tr \in BOOLEAN
  BY DEF DriverInv, TypeOK, Registers
<1>2. hw' \in {hw, Written(hw, dev, op, Now)} /\ todo # {} /\ Now \in todo
  BY StepWrites, NowIs
<1>3. phase' = phase
  BY DEF StepSucceeds, StepFails
<1>4. CASE op \in {"START", "ROLLBACK"}
  <2>1. op' \in {"START", "ROLLBACK"}
    BY <1>4 DEF StepSucceeds, StepFails, Begin
  <2> QED
    BY <1>1, <1>4, <2>1 DEF Contract!Starting
<1>5. CASE op = "STOP"
  <2>1. op' = "STOP" /\ phase = "OWNED"
    BY <1>5 DEF StepSucceeds, StepFails, DriverInv, RoutineSound
  <2>2. Now # "KEY"
    BY <1>2, <1>5, KeyInStart
  <2>3. hw'.tr => hw.tr
    BY <1>1, <1>2, <2>2, WrittenKey
  <2> QED
    BY <1>1, <1>3, <1>5, <2>1, <2>3 DEF Contract!Stopping, Contract!Falls
<1>6. CASE op \notin {"START", "ROLLBACK", "STOP"}
  <2>1. Now \notin {"KEY", "C_UNKEY"}
    BY <1>2, <1>6 DEF DriverInv, TypeOK, RoutineSound, RestoreSteps
  <2>2. hw'.tr = hw.tr
    BY <1>1, <1>2, <2>1, WrittenNoKey
  <2>3. /\ op \in {"RETUNE", "GAIN"} => op' \in {op, "IDLE"}
        /\ op = "RESTORE" => op' \in {"RESTORE", "UNDO", "DISABLE"}
        /\ op \in {"UNDO", "DISABLE"} => op' = op
        /\ op # "IDLE" /\ (op \in {"RESTORE", "UNDO"} => phase = "DOWN")
    BY <1>2, <1>6
    DEF StepSucceeds, StepFails, Begin, Idle, DriverInv, RoutineSound
  <2>4. op \in {"RETUNE", "GAIN", "RESTORE", "UNDO", "DISABLE"}
    BY <1>6, <2>3 DEF DriverInv, TypeOK
  <2> QED
    BY <1>3, <2>2, <2>3, <2>4 DEF Contract!vars
<1> QED
  BY <1>4, <1>5, <1>6

(* Every step of the driver is a step of the contract its caller relies    *)
(* on, or invisible to it.                                                 *)
LEMMA ContractStep ==
  ASSUME DriverInv, DriverInv', [Next]_vars
  PROVE  [Contract!Next]_(Contract!vars)
<1>1. CASE StepSucceeds \/ StepFails
  BY <1>1, ContractCommand DEF Contract!Next
<1>2. CASE Reopen \/ GiveUp \/ LoseDevice \/ SettingReturns \/ UndoReturns
  <2>1. UNCHANGED Contract!vars
    BY <1>2
    DEF Reopen, GiveUp, LoseDevice, SettingReturns, UndoReturns, Idle,
        Contract!vars, DriverInv, RoutineSound
  <2> QED
    BY <2>1
<1>3. CASE PowerCycle
  BY <1>3 DEF PowerCycle, PoweredOn, Contract!Next, Contract!PowerCycle
<1>4. CASE RejectStart \/ RollbackReturns
  <2>1. Contract!StartFailed
    BY <1>4 DEF RejectStart, RollbackReturns, Idle, Contract!StartFailed
  <2> QED
    BY <2>1 DEF Contract!Next
<1>5. CASE BeginStop
  <2>1. phase = "OWNED"
    BY <1>5 DEF BeginStop, DriverInv, AtRest
  <2>2. Contract!BeginStop
    BY <1>5, <2>1 DEF BeginStop, Begin, Contract!BeginStop
  <2> QED
    BY <2>2 DEF Contract!Next
<1>6. CASE StopFindsNothing
  <2>1. phase = "ROLLBACK"
    BY <1>6 DEF StopFindsNothing, NothingToStop, DriverInv, OwnedSound
  <2>2. hw.tr \in BOOLEAN
    BY DEF DriverInv, TypeOK, Registers
  <2>3. Contract!RolledBack
    BY <1>6, <2>1, <2>2
    DEF StopFindsNothing, Contract!RolledBack, Contract!Falls
  <2> QED
    BY <2>3 DEF Contract!Next
<1>7. CASE BeginRecovery \/ BeginExit \/ CloseReturns
  <2>1. Contract!Close
    BY <1>7
    DEF BeginRecovery, BeginExit, CloseReturns, Begin, Contract!Close,
        DriverInv, RoutineSound
  <2> QED
    BY <2>1 DEF Contract!Next
<1>8. ASSUME NEW e \in Emissions, BeginStart(e) PROVE Contract!Next
  BY <1>8 DEF BeginStart, Begin, Contract!Next, Contract!BeginStart
<1>9. ASSUME NEW f \in Freqs, Retune(f) PROVE UNCHANGED Contract!vars
  BY <1>9 DEF Retune, Begin, Contract!vars
<1>10. ASSUME NEW g \in Gains, SetGain(g) PROVE UNCHANGED Contract!vars
  BY <1>10 DEF SetGain, Begin, Contract!vars
<1>11. CASE StartReturns
  <2>1. hw.tr /\ hw' = hw
    BY <1>11 DEF StartReturns, DriverInv, StartSound
  <2>2. Contract!Started
    BY <1>11, <2>1 DEF StartReturns, Idle, Contract!Started
  <2> QED
    BY <2>2 DEF Contract!Next
<1>12. CASE StopReturns
  <2>1. phase = "OWNED" /\ hw' = hw /\ (~err => ~hw.tr)
    BY <1>12 DEF StopReturns, DriverInv, RoutineSound, StopSound
  <2>2. Contract!Stopped \/ Contract!StopFailed
    BY <1>12, <2>1
    DEF StopReturns, Idle, Contract!Stopped, Contract!StopFailed
  <2> QED
    BY <2>2 DEF Contract!Next
<1>13. CASE RestoreReturns
  <2>1. Contract!Recover
    BY <1>13
    DEF RestoreReturns, Idle, Contract!Recover, DriverInv, RoutineSound
  <2> QED
    BY <2>1 DEF Contract!Next
<1>14. CASE UNCHANGED vars
  BY <1>14 DEF vars, Contract!vars
<1> QED
  BY <1>1, <1>2, <1>3, <1>4, <1>5, <1>6, <1>7, <1>8, <1>9, <1>10, <1>11,
     <1>12,
     <1>13, <1>14
  DEF Next

(* The driver implements TxBackend, the contract tx_control relies on when *)
(* it calls the start and stop callbacks.                                  *)
THEOREM DriverKeepsContract == Spec => KeepsContract
<1>1. Init => Contract!Init
  BY DEF Init, PoweredOn, Contract!Init
<1> QED
  BY <1>1, DriverInvariance, ContractStep, PTL
  DEF Spec, KeepsContract, Contract!Spec
=============================================================================
