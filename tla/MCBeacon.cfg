\* The clock through every wrap of timer and seconds, and its measurements.
SPECIFICATION BeaconSpec
CONSTANTS
  CLOCK_16M_SYS_TIMER_CLK_1S = 4
  Trim = 1
  TrimWrap = 8
  ClockWrap = 16
  TimeWrap = 7
  Channels <- TwoChannels
  Period <- Periods
  Gaps <- AnyGap
  MaxOwed = 3
  Timer_CH_1 = 1
  Codes <- SomeCodes
  adc_vref = 1175
  Temperatures = {21}
  Level0 = 2200
  CounterWrap = 2
  MaxLate = 2
ACTION_CONSTRAINT
  OneSeriesVaries
INVARIANTS
  BeaconTypeOK
  ClockExact
  NeverOverdue
  OutliersDropped
PROPERTIES
  PeriodExact
  LevelFollowsVoltage
  KeepsAdvertising
