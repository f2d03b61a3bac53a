-------------------------------- MODULE Beacon --------------------------------
(***************************************************************************)
(* The measurement stage of main_loop: whenever channel 1 of the clock     *)
(* reports, the ADC is sampled eight times, the battery's voltage and      *)
(* level are computed from the samples and advertised with the panel's     *)
(* temperature.  The samples come by DMA into a buffer that the processor  *)
(* reads while they arrive.  The second sampling of the stage, for a       *)
(* temperature nothing reads, is left out.                                 *)
(***************************************************************************)
EXTENDS TimeKeeper, Sequences, FiniteSets

CONSTANTS
  Timer_CH_1,
  Codes,           \* what the ADC may deliver, a sign and thirteen bits
  adc_vref,        \* 1175
  Temperatures,    \* what EPD_read_temp may return, a byte
  Level0,          \* 2200 mV
  CounterWrap,     \* 2^8, the width of advertising_data[16]
  MaxLate          \* bound: samples of a series that may come late

SignBit == 8192
VoltageWrap == 65536
LevelWrap == 256
ASSUME BeaconAssumption ==
  /\ Timer_CH_1 \in Channels
  /\ Codes \subseteq (-SignBit)..(SignBit - 1)
  /\ adc_vref \in Nat /\ Level0 \in Nat
  /\ Temperatures \subseteq 0..255
  /\ CounterWrap \in Nat \ {0} /\ MaxLate \in 0..8

VARIABLES
  stage,           \* "loop", or "sample" inside the measurement
  adc_sample,      \* the samples taken so far, sorted
  battery_mv, battery_level,
  advertising_data,
  prompt, late     \* history: the samples that came in time, how many did not

series == <<adc_sample, prompt, late>>
report == <<battery_mv, battery_level, advertising_data>>
beacon_vars == <<vars, stage, series, report>>

BeaconTypeOK ==
  /\ TypeOK
  /\ stage \in {"loop", "sample"}
  /\ adc_sample \in Seq(0..(SignBit - 1)) /\ Len(adc_sample) =< 8
  /\ battery_mv \in 0..(VoltageWrap - 1) /\ battery_level \in 0..100
  /\ advertising_data \in [temp : {10 * t : t \in Temperatures} \union {0},
                           level : 0..100, mv : 0..(VoltageWrap - 1),
                           counter : 0..(CounterWrap - 1)]
  /\ prompt \subseteq 0..(SignBit - 1) /\ late \in 0..MaxLate
-----------------------------------------------------------------------------
(* adc_sample_and_get_result *)

\* What becomes of a code read as a whole: negative voltages are taken as 0.
Clipped(code) == IF code < 0 THEN 0 ELSE code

\* The buffer cell is read three times: waiting for it, for the sign, and for
\* the value.  A sample that comes after the wait was given up may be seen by
\* neither, by both, or by the last read alone, which drops the sign.
LateReadings(code) == {0, Clipped(code), code % SignBit}

\* The insertion sort.  Mutant: the samples stay in the order they came.
AsTaken(sorted, x) == Append(sorted, x)
Insert(sorted, x) ==
  LET n == Cardinality({j \in DOMAIN sorted : sorted[j] =< x})
  IN SubSeq(sorted, 1, n) \o <<x>> \o SubSeq(sorted, n + 1, Len(sorted))

Sampling == stage = "sample" /\ Len(adc_sample) < 8
Undisturbed == UNCHANGED <<vars, stage, report>>

TakeSample(code) ==
  /\ Sampling
  /\ adc_sample' = Insert(adc_sample, Clipped(code))
  /\ prompt' = prompt \union {Clipped(code)}
  /\ UNCHANGED late /\ Undisturbed

TakeLate(code) ==
  /\ Sampling
  /\ late < MaxLate
  /\ \E reading \in LateReadings(code) : adc_sample' = Insert(adc_sample, reading)
  /\ late' = late + 1
  /\ UNCHANGED prompt /\ Undisturbed

\* The mean of the middle four, in millivolts, of which get_battery_mv returns
\* sixteen bits.  Mutant: the four are moved.
LowerFour == (adc_sample[2] + adc_sample[3] + adc_sample[4] + adc_sample[5]) \div 4
MiddleFour == (adc_sample[3] + adc_sample[4] + adc_sample[5] + adc_sample[6]) \div 4
Millivolts == ((MiddleFour * adc_vref) \div 1024) % VoltageWrap
-----------------------------------------------------------------------------
(* The stage of main_loop *)

\* Mutant: the test for an empty battery is left out.
level_of_any(mv) ==
  LET level == ((mv - Level0) \div 9) % LevelWrap IN IF level > 100 THEN 100 ELSE level
\* The quotient is cut to eight bits before it is compared.
get_battery_level(mv) ==
  LET level == ((mv - Level0) \div 9) % LevelWrap
  IN IF mv < Level0 THEN 0 ELSE IF level > 100 THEN 100 ELSE level

\* A round of main_loop in which the channel does or does not report.
Reports == Due(Timer_CH_1) \/ ~has_ever_reached[Timer_CH_1]
LoopRound(gap) ==
  /\ stage = "loop"
  /\ Round(gap)
  /\ stage' = IF Reports THEN "sample" ELSE "loop"
  /\ UNCHANGED <<series, report>>

set_adv_data(temp) ==
  /\ stage = "sample" /\ Len(adc_sample) = 8
  /\ battery_mv' = Millivolts
  /\ battery_level' = get_battery_level(battery_mv')
  /\ advertising_data' = [temp |-> 10 * temp, level |-> battery_level',
                          mv |-> battery_mv',
                          counter |-> (advertising_data.counter + 1) % CounterWrap]
  /\ stage' = "loop"
  /\ adc_sample' = <<>> /\ prompt' = {} /\ late' = 0
  /\ UNCHANGED vars
-----------------------------------------------------------------------------
BeaconInit ==
  /\ Init
  /\ stage = "loop"
  /\ adc_sample = <<>> /\ prompt = {} /\ late = 0
  /\ battery_mv = 0 /\ battery_level = 0
  /\ advertising_data = [temp |-> 0, level |-> 0, mv |-> 0, counter |-> 0]

BeaconNext ==
  \/ \E gap \in Gaps : LoopRound(gap)
  \/ \E code \in Codes : TakeSample(code) \/ TakeLate(code)
  \/ \E temp \in Temperatures : set_adv_data(temp)

\* main_loop goes round for ever, and no wait for a sample takes longer than 25
\* microseconds.
BeaconSpec == BeaconInit /\ [][BeaconNext]_beacon_vars /\ WF_beacon_vars(BeaconNext)
-----------------------------------------------------------------------------
(* Properties *)

\* A series in which one or two samples came late, and may read as anything,
\* gives a mean between two samples that came in time.
OutliersDropped ==
  stage = "sample" /\ Len(adc_sample) = 8 /\ late =< 2 =>
    \E low, high \in prompt : low =< MiddleFour /\ MiddleFour =< high

\* Up to 4503 mV, where the quotient no longer fits in eight bits, a measurement
\* with a higher voltage than the last never reports a lower level.
LevelFollowsVoltage ==
  [][stage = "sample" /\ stage' = "loop" /\ battery_mv' < Level0 + 9 * LevelWrap =>
       (battery_mv =< battery_mv' => battery_level =< battery_level')]_beacon_vars

\* The advertisement is renewed for ever, also over wraps of the seconds.
KeepsAdvertising ==
  \A c \in 0..(CounterWrap - 1) :
    advertising_data.counter = c ~> advertising_data.counter # c
=============================================================================
