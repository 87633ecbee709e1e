------------------------------ MODULE BandPlan ------------------------------
(***************************************************************************)
(* The frequency tables of src/src/protocol.c: which receive and PA filter *)
(* the radio needs at a frequency, and which emissions the daemon allows   *)
(* there.  Frequencies are in Hz.                                          *)
(***************************************************************************)
EXTENDS Integers

MinFrequency == 100000

MaxFrequency == 54000000

Tunable(f) == MinFrequency <= f /\ f <= MaxFrequency

-----------------------------------------------------------------------------
(* flex1500_pa_filter_for_frequency, for a tunable frequency. *)
PaFilterFor(f) ==
  CASE f < 2500000 -> 7
    [] 2500000 <= f /\ f < 5000000 -> 6
    [] 5000000 <= f /\ f < 8800000 -> 5
    [] 8800000 <= f /\ f < 17500000 -> 4
    [] 17500000 <= f /\ f < 24000000 -> 3
    [] 24000000 <= f /\ f < 35000000 -> 2
    [] OTHER -> 1

(* flex1500_rx_filter_for_frequency, for a tunable frequency. *)
RxFilterFor(f) ==
  CASE f < 480000 -> 0
    [] 480000 <= f /\ f < 880000 -> 11
    [] 880000 <= f /\ f < 1600000 -> 10
    [] 1600000 <= f /\ f < 2300000 -> 9
    [] 2300000 <= f /\ f < 3500000 -> 8
    [] 3500000 <= f /\ f < 5200000 -> 7
    [] 5200000 <= f /\ f < 7700000 -> 6
    [] 7700000 <= f /\ f < 11400000 -> 5
    [] 11400000 <= f /\ f < 17000000 -> 4
    [] 17000000 <= f /\ f < 25300000 -> 3
    [] 25300000 <= f /\ f < 37600000 -> 2
    [] OTHER -> 1

-----------------------------------------------------------------------------
Band(low, high) == [low |-> low, high |-> high]

(* The table voice_allocations: the same nine bands in all three checks. *)
Allocations ==
  {Band(1800000, 2000000), Band(3500000, 4000000), Band(7000000, 7300000),
   Band(14000000, 14350000), Band(18068000, 18168000),
   Band(21000000, 21450000), Band(24890000, 24990000),
   Band(28000000, 29700000), Band(50000000, 54000000)}

(* The whole of f - width .. f + width lies in one allocation. *)
Contained(f, width) ==
  \E b \in Allocations : b.low + width <= f /\ f <= b.high - width

(* The 60 m segment and its four channels. *)
SixtyMeters(f) ==
  \/ 5351500 <= f /\ f <= 5363500
  \/ f \in {5330500, 5346500, 5371500, 5403500}

(* flex1500_physical_mic_frequency_allowed *)
VoiceAllowed(f, upper_sideband) ==
  Contained(f, 0) \/ (upper_sideband /\ SixtyMeters(f))

(* flex1500_tune_frequency_allowed *)
TuneAllowed(f) == VoiceAllowed(f, TRUE)

(* Half the width of an AM emission, and of the spectrum of raw I/Q. *)
AmWidth == 3000

IqWidth == 24000

(* flex1500_am_frequency_allowed *)
AmAllowed(f) == Contained(f, AmWidth)

(* flex1500_network_iq_frequency_allowed *)
IqAllowed(f) == Contained(f, IqWidth)

(* The sideband of flex1500_default_ssb_upper_sideband. *)
DefaultUpper(f) == f >= 10000000 \/ (5330000 <= f /\ f <= 5405000)

(* Its result: there is no default where the sideband is not allowed. *)
DefaultAllowed(f) == VoiceAllowed(f, DefaultUpper(f))
=============================================================================
