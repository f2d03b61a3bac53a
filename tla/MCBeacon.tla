------------------------------- MODULE MCBeacon -------------------------------
(* Beacon with a second of a few ticks. *)
EXTENDS Beacon

\* The channels of the LED and of the measurements.
TwoChannels == {0, 1}
Periods == [ch \in TwoChannels |-> IF ch = 0 THEN 2 ELSE 3]
\* Rounds of up to two ticks more than a second.
AnyGap == 1..(one_second_trimmed + 2)

\* 2185, 2753 and 4503 mV, and a small negative voltage.
SomeCodes == {1905, 2400, 3925, -5}

\* The samples differ in one measurement of every common wrap of timer and
\* seconds, and are all alike in the others.
OneSeriesVaries ==
  Len(adc_sample') > Len(adc_sample) /\ <<current_unix_time, last_clock_increase>> # <<3, 15>> =>
    late' = 0 /\ prompt' = {2400}
=============================================================================
