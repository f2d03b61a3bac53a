-------------------------- MODULE EpdDisplayProofs --------------------------
(* Proofs about EpdDisplay, for all panels, clocks and command sets. *)
EXTENDS EpdDisplay, TLAPS

(* Minutes, hours and days *)

\* Division with remainder.
LEMMA Division ==
  ASSUME NEW n \in Nat, NEW d \in Nat \ {0}
  PROVE  /\ n \div d \in Nat
         /\ n % d \in 0..(d - 1)
         /\ n = d * (n \div d) + (n % d)
  BY SMT

\* Multiplication keeps the order.
LEMMA Monotone ==
  ASSUME NEW d \in Nat, NEW x \in Nat, NEW y \in Nat, x =< y
  PROVE  d * x =< d * y
  BY SMT

\* Quotient and remainder are unique.
LEMMA UniqueDivision ==
  ASSUME NEW d \in Nat \ {0}, NEW p \in Nat, NEW q \in Nat,
         NEW r \in 0..(d - 1), NEW s \in 0..(d - 1), d * q + r = d * p + s
  PROVE  q = p /\ r = s
<1>1. d * q \in Nat /\ d * p \in Nat
  BY SMT
<1>2. ~(q + 1 =< p)
  <2> SUFFICES ASSUME q + 1 =< p PROVE FALSE
    OBVIOUS
  <2>1. d * (q + 1) =< d * p
    BY Monotone
  <2>2. d * (q + 1) = d * q + d
    BY SMT
  <2>3. QED
    BY <1>1, <2>1, <2>2, SMT
<1>3. ~(p + 1 =< q)
  <2> SUFFICES ASSUME p + 1 =< q PROVE FALSE
    OBVIOUS
  <2>1. d * (p + 1) =< d * q
    BY Monotone
  <2>2. d * (p + 1) = d * p + d
    BY SMT
  <2>3. QED
    BY <1>1, <2>1, <2>2, SMT
<1>4. p = q
  BY <1>2, <1>3, SMT
<1>5. QED
  BY <1>1, <1>4, SMT

\* The remainder of a multiple plus a small rest is the rest.
LEMMA MultipleRest ==
  ASSUME NEW d \in Nat \ {0}, NEW q \in Nat, NEW r \in 0..(d - 1)
  PROVE  (d * q + r) % d = r
<1> DEFINE n == d * q + r
<1>1. n \in Nat
  BY SMT
<1>2. /\ n \div d \in Nat /\ n % d \in 0..(d - 1)
      /\ n = d * (n \div d) + (n % d)
  BY <1>1, Division
<1> DEFINE p == n \div d
           s == n % d
<1>3. p \in Nat /\ s \in 0..(d - 1) /\ d * q + r = d * p + s
  BY <1>2
<1> HIDE DEF p, s
<1>4. r = s
  BY <1>3, UniqueDivision
<1>5. QED
  BY <1>4 DEF s

\* The quotient that goes with it.
LEMMA MultipleQuotient ==
  ASSUME NEW d \in Nat \ {0}, NEW q \in Nat, NEW r \in 0..(d - 1)
  PROVE  (d * q + r) \div d = q
<1> DEFINE n == d * q + r
           p == n \div d
           s == n % d
<1>1. n \in Nat
  BY SMT
<1> HIDE DEF n
<1>2. p \in Nat /\ s \in 0..(d - 1) /\ n = d * p + s
  BY <1>1, Division
<1> HIDE DEF p, s
<1>3. d * q + r = d * p + s
  BY <1>2 DEF n
<1>4. q = p
  BY <1>2, <1>3, UniqueDivision
<1>5. QED
  BY <1>4 DEF p, n

LEMMA SmallRest ==
  ASSUME NEW d \in Nat \ {0}, NEW r \in 0..(d - 1)
  PROVE  r % d = r
<1>1. 0 \in Nat /\ d * 0 + r = r
  BY SMT
<1>2. (d * 0 + r) % d = r
  BY <1>1, MultipleRest
<1>3. QED
  BY <1>1, <1>2
-----------------------------------------------------------------------------
\* A day has at least one second.
LEMMA DayPositive == Day \in Nat \ {0}
<1>1. SecondsPerMinute * MinutesPerHour \in Nat \ {0}
  BY ClockAssumption, SMT
<1>2. QED
  BY <1>1, ClockAssumption, SMT DEF Day

\* The drawing of the clock's minute and hour stays in the clock's range.
LEMMA MinuteHourRange ==
  ASSUME TypeOK
  PROVE  /\ current_minute \in 0..(MinutesPerHour - 1)
         /\ current_hour \in 0..(HoursPerDay - 1)
<1>1. current_unix_time \in Nat
  BY DayPositive DEF TypeOK, Day
<1>2. current_unix_time \div SecondsPerMinute \in Nat
  BY <1>1, Division, ClockAssumption
<1>3. MinutesPerHour \in Nat \ {0} /\ HoursPerDay \in Nat \ {0}
  BY ClockAssumption
<1>4. (current_unix_time \div SecondsPerMinute) \div MinutesPerHour \in Nat
  BY <1>2, <1>3, Division
<1>5. QED
  BY <1>2, <1>3, <1>4, Division DEF current_minute, current_hour
-----------------------------------------------------------------------------
(* Types *)

\* The variables EPD_Display and the two functions after it may change.
EpdTypeOK ==
  /\ epd_model \in 0..255
  /\ epd_update_state \in {0, 1}
  /\ epd_temperature_is_read \in BOOLEAN
  /\ panel_phase \in {"idle", "refreshing", "asleep"}
  /\ panel_frame \in Frames
  /\ panel_full \in BOOLEAN
  /\ panel_shown \in Frames
  /\ refresh_age \in 0..RefreshSeconds
  /\ foreign_driver \in BOOLEAN

\* Frames of uploaded images and of drawings.
LEMMA FrameKinds ==
  /\ Blank \in Frames /\ Image \in Frames /\ Garbled \in Frames
  /\ \A level \in Levels : Drawing(level) \in Frames
  BY DEF Frames

\* Detection yields a model number.
LEMMA DetectedModelTyped ==
  ASSUME TypeOK
  PROVE  DetectedModel \in 0..255
<1>1. hw.detects \in 1..4
  BY ModelsAssumption DEF TypeOK
<1>2. QED
  BY <1>1, SMT DEF TypeOK, DetectedModel

\* The panel's answer to a driver is one of the two phases named.
LEMMA OutcomesTyped ==
  ASSUME NEW model, NEW meant, NEW unchanged
  PROVE  Outcomes(model, meant, unchanged) \subseteq {meant, unchanged}
  BY DEF Outcomes

\* A display keeps the types of epd.c and of the panel.
LEMMA DisplayTyped ==
  ASSUME TypeOK, NEW image \in Frames, NEW full \in BOOLEAN,
         EPD_Display(image, full)
  PROVE  EpdTypeOK'
<1>1. epd_model' \in 0..255
  BY DetectedModelTyped DEF EPD_Display
<1>2. panel_phase' \in {"idle", "refreshing", "asleep"}
  BY OutcomesTyped DEF EPD_Display
<1>3. panel_frame' \in Frames /\ panel_shown' \in Frames
  BY FrameKinds DEF EPD_Display, ShownAfterStop, TypeOK
<1>4. refresh_age' \in 0..RefreshSeconds
  BY ClockAssumption DEF EPD_Display
<1>5. QED
  BY <1>1, <1>2, <1>3, <1>4 DEF EPD_Display, EpdTypeOK, KeepTemperature

\* So does the drawing of a level.
LEMMA DrawTyped ==
  ASSUME TypeOK, NEW level \in Levels, NEW full \in BOOLEAN,
         epd_display(level, full)
  PROVE  EpdTypeOK' /\ epd_buffer' \in Frames
<1>1. CASE UNCHANGED <<epd, epd_buffer, panel>>
  BY <1>1 DEF TypeOK, EpdTypeOK, epd, panel
<1>2. CASE epd_buffer' = Drawing(level) /\ EPD_Display(Drawing(level), full)
  BY <1>2, DisplayTyped, FrameKinds
<1>3. QED
  BY <1>1, <1>2 DEF epd_display

\* So does the temperature reading.
LEMMA ReadTempTyped ==
  ASSUME TypeOK, EPD_read_temp
  PROVE  EpdTypeOK'
<1>1. CASE UNCHANGED <<epd, panel>>
  BY <1>1 DEF TypeOK, EpdTypeOK, epd, panel
<1>2. CASE ~epd_temperature_is_read
  <2>1. epd_model' \in 0..255
    BY <1>2, DetectedModelTyped DEF EPD_read_temp
  <2>2. panel_phase' \in {"idle", "refreshing", "asleep"}
    BY <1>2, OutcomesTyped DEF EPD_read_temp
  <2>3. panel_shown' \in Frames
    BY <1>2, FrameKinds DEF EPD_read_temp, ShownAfterStop, TypeOK
  <2>4. /\ refresh_age' = 0
        /\ epd_temperature_is_read' = TRUE
        /\ UNCHANGED <<epd_update_state, foreign_driver, panel_frame, panel_full>>
    BY <1>2, Zenon DEF EPD_read_temp, KeepTemperature
  <2>5. QED
    BY <2>1, <2>2, <2>3, <2>4, ClockAssumption DEF TypeOK, EpdTypeOK
<1>3. QED
  BY <1>1, <1>2 DEF EPD_read_temp

\* So does the state handler.
LEMMA StateHandlerTyped ==
  ASSUME TypeOK, epd_state_handler
  PROVE  EpdTypeOK'
<1>1. CASE UNCHANGED <<epd, panel>>
  BY <1>1 DEF TypeOK, EpdTypeOK, epd, panel
<1>2. CASE epd_set_sleep
  <2>1. epd_model' \in 0..255
    BY <1>2, DetectedModelTyped DEF epd_set_sleep
  <2>2. panel_phase' \in {"idle", "refreshing", "asleep"}
    BY <1>2, OutcomesTyped DEF epd_set_sleep, TypeOK
  <2>3. panel_shown' \in Frames
    BY <1>2, FrameKinds DEF epd_set_sleep, ShownAfterStop, TypeOK
  <2>4. QED
    BY <1>2, <2>1, <2>2, <2>3, ClockAssumption
    DEF epd_set_sleep, TypeOK, EpdTypeOK
<1>3. QED
  BY <1>1, <1>2 DEF epd_state_handler

LEMMA InitTyped == Init => TypeOK
<1> SUFFICES ASSUME Init PROVE TypeOK
  OBVIOUS
<1>1. current_unix_time \in 0..(SecondsPerMinute * MinutesPerHour * HoursPerDay - 1)
  BY DayPositive DEF Init, Day
<1>2. minute_refresh = NoTime /\ hour_refresh = NoTime
  BY DEF Init
<1>3. epd_model \in 0..255 /\ refresh_age \in 0..RefreshSeconds
  BY ClockAssumption DEF Init, NoModel
<1>4. lime_battery_level \in Levels /\ hw \in Hardware
  BY ModelsAssumption DEF Init
<1>5. epd_buffer \in Frames /\ panel_frame \in Frames /\ panel_shown \in Frames
  BY FrameKinds DEF Init
<1>6. /\ has_ever_reached \in BOOLEAN /\ epd_temperature_is_read \in BOOLEAN
      /\ sleep_allowed \in BOOLEAN /\ panel_full \in BOOLEAN
      /\ foreign_driver \in BOOLEAN
  BY DEF Init
<1>7. /\ pc \in {"sdk", "time", "temp", "dispatch", "handler"}
      /\ panel_phase \in {"idle", "refreshing", "asleep"}
      /\ epd_update_state \in {0, 1}
  BY DEF Init
<1>8. QED
  BY <1>1, <1>2, <1>3, <1>4, <1>5, <1>6, <1>7 DEF TypeOK

\* One step per action.
LEMMA NextTyped == TypeOK /\ [Next]_vars => TypeOK'
<1> SUFFICES ASSUME TypeOK, [Next]_vars PROVE TypeOK'
  OBVIOUS
<1>1. CASE UNCHANGED vars
  BY <1>1 DEF TypeOK, vars, firmware, panel
<1>2. CASE PanelFinish
  BY <1>2, ClockAssumption DEF PanelFinish, TypeOK, firmware
<1>3. CASE BleUpload
  BY <1>3, FrameKinds DEF BleUpload, Ble, TypeOK, epd, panel
<1>4. CASE BlePush
  <2>1. EpdTypeOK'
    BY <1>4, DisplayTyped DEF BlePush, TypeOK
  <2>2. QED
    BY <1>4, <2>1 DEF BlePush, Ble, TypeOK, EpdTypeOK
<1>5. CASE BleTiff
  <2>1. EpdTypeOK'
    BY <1>5, DisplayTyped, FrameKinds DEF BleTiff
  <2>2. QED
    BY <1>5, <2>1, FrameKinds DEF BleTiff, Ble, TypeOK, EpdTypeOK
<1>6. CASE SetSpeed
  <2>1. EpdTypeOK' /\ epd_buffer' \in Frames
    BY <1>6, DrawTyped DEF SetSpeed, TypeOK
  <2>2. QED
    BY <1>6, <2>1 DEF SetSpeed, Ble, TypeOK, EpdTypeOK
<1>7. ASSUME NEW model \in ForcedModels, ForceModel(model)
      PROVE  TypeOK'
  BY <1>7, ModelsAssumption DEF ForceModel, Ble, TypeOK, panel
<1>8. ASSUME NEW level \in Levels, SetLevel(level)
      PROVE  TypeOK'
  <2>1. EpdTypeOK' /\ epd_buffer' \in Frames
    BY <1>8, DrawTyped DEF SetLevel
  <2>2. QED
    BY <1>8, <2>1 DEF SetLevel, Ble, TypeOK, EpdTypeOK
<1>9. CASE DeepRetention
  BY <1>9, FrameKinds DEF DeepRetention, TypeOK, epd, panel
<1>10. CASE SdkReturns \/ ClockHold
  BY <1>10 DEF SdkReturns, ClockHold, Stage, TypeOK, firmware, panel
<1>11. CASE ClockTick
  <2>1. current_unix_time' \in 0..(Day - 1)
    <3>1. current_unix_time + 1 \in Nat
      BY DayPositive DEF TypeOK, Day
    <3>2. QED
      BY <1>11, <3>1, DayPositive, Division DEF ClockTick
  <2>2. refresh_age' \in 0..RefreshSeconds
    BY <1>11, ClockAssumption DEF ClockTick, TypeOK
  <2>3. QED
    BY <1>11, <2>1, <2>2 DEF ClockTick, Stage, TypeOK, firmware, Day
<1>12. CASE Measure
  <2>1. EpdTypeOK'
    <3>1. CASE EPD_read_temp
      BY <3>1, ReadTempTyped
    <3>2. CASE UNCHANGED <<epd, panel>>
      BY <3>2 DEF TypeOK, EpdTypeOK, epd, panel
    <3>3. QED
      BY <1>12, <3>1, <3>2 DEF Measure
  <2>2. QED
    BY <1>12, <2>1 DEF Measure, Stage, TypeOK, EpdTypeOK
<1>13. CASE Dispatch
  <2>1. minute_refresh' \in 0..(MinutesPerHour - 1) /\ current_hour \in 0..(HoursPerDay - 1)
    BY <1>13, MinuteHourRange DEF Dispatch
  <2>2. CASE current_minute = minute_refresh
    BY <1>13, <2>1, <2>2 DEF Dispatch, Stage, TypeOK, epd, panel
  <2>3. CASE current_minute # minute_refresh
    <3>1. EpdTypeOK' /\ epd_buffer' \in Frames
      BY <1>13, <2>3, DrawTyped DEF Dispatch, TypeOK
    <3>2. QED
      BY <1>13, <2>1, <2>3, <3>1 DEF Dispatch, Stage, TypeOK, EpdTypeOK
  <2>4. QED
    BY <2>2, <2>3
<1>14. CASE HandleState
  <2>1. EpdTypeOK'
    BY <1>14, StateHandlerTyped DEF HandleState
  <2>2. QED
    BY <1>14, <2>1 DEF HandleState, Stage, TypeOK, EpdTypeOK
<1>15. QED
  BY <1>1, <1>2, <1>3, <1>4, <1>5, <1>6, <1>7, <1>8, <1>9, <1>10, <1>11,
     <1>12, <1>13, <1>14 DEF Next, BleCommand, Loop

\* Every variable keeps its type, for all panels, clocks and command sets.
THEOREM TypeCorrect == Spec => []TypeOK
  BY InitTyped, NextTyped, PTL DEF Spec
-----------------------------------------------------------------------------
(* Safety *)

IInv == TypeOK /\ RefreshAccounted

\* A display leaves a refresh that is accounted for.
LEMMA DisplayAccounted ==
  ASSUME NEW image, NEW full, EPD_Display(image, full), hw' = hw
  PROVE  RefreshAccounted'
  BY DEF EPD_Display, RefreshAccounted, KeepTemperature, SameFamily

\* So does the drawing of a level, which stays off a busy panel.
LEMMA DrawAccounted ==
  ASSUME RefreshAccounted, NEW level, NEW full, epd_display(level, full), hw' = hw
  PROVE  RefreshAccounted'
<1>1. CASE UNCHANGED <<epd, epd_buffer, panel>>
  BY <1>1 DEF RefreshAccounted, SameFamily, epd, panel
<1>2. CASE EPD_Display(Drawing(level), full)
  BY <1>2, DisplayAccounted
<1>3. QED
  BY <1>1, <1>2 DEF epd_display

\* While a refresh is accounted for, the temperature reading does nothing.
LEMMA ReadTempAccounted ==
  ASSUME RefreshAccounted, EPD_read_temp, hw' = hw
  PROVE  RefreshAccounted'
<1>1. CASE UNCHANGED <<epd, panel>>
  BY <1>1 DEF RefreshAccounted, SameFamily, epd, panel
<1>2. CASE panel_phase' \in Outcomes(DetectedModel, "asleep", "idle")
  <2>1. panel_phase' # "refreshing"
    BY <1>2, OutcomesTyped
  <2>2. QED
    BY <2>1 DEF RefreshAccounted
<1>3. QED
  BY <1>1, <1>2 DEF EPD_read_temp

\* While a refresh is accounted for, BUSY is at its busy level, and the state
\* handler reads it with the polarity of the panel that is there.
LEMMA BusyWhileRefreshing ==
  ASSUME TypeOK, panel_phase = "refreshing", SameFamily(epd_model)
  PROVE  ~RefreshLooksDone
<1>1. hw.model \in 1..6
  BY ModelsAssumption DEF TypeOK, Drivers
<1>2. epd_model = 1 <=> hw.model = 1
  BY <1>1, SMT DEF SameFamily, Family
<1>3. QED
  BY <1>2 DEF RefreshLooksDone, EPD_IS_BUSY

\* So the state handler leaves such a refresh alone.
LEMMA HandlerAccounted ==
  ASSUME IInv, epd_state_handler, hw' = hw
  PROVE  RefreshAccounted'
<1>1. CASE UNCHANGED <<epd, panel>>
  BY <1>1 DEF IInv, RefreshAccounted, SameFamily, epd, panel
<1>2. CASE RefreshLooksDone /\ epd_set_sleep
  <2> SUFFICES ASSUME panel_phase' = "refreshing", ~foreign_driver' PROVE FALSE
    BY DEF RefreshAccounted
  <2>1. panel_phase = "refreshing" /\ ~foreign_driver
    BY <1>2, OutcomesTyped DEF epd_set_sleep
  <2>2. QED
    BY <1>2, <2>1, BusyWhileRefreshing DEF IInv, RefreshAccounted
<1>3. QED
  BY <1>1, <1>2 DEF epd_state_handler

\* A refresh under way is known to the firmware, or a driver of another family
\* was in force: for all panels, commands, clocks and interleavings.
THEOREM RefreshIsAccounted == Spec => []RefreshAccounted
<1>1. Init => RefreshAccounted
  BY DEF Init, RefreshAccounted
<1>2. IInv /\ [Next]_vars => RefreshAccounted'
  <2> SUFFICES ASSUME IInv, [Next]_vars PROVE RefreshAccounted'
    OBVIOUS
  <2>1. CASE UNCHANGED vars
    BY <2>1 DEF IInv, RefreshAccounted, SameFamily, vars, firmware, panel
  <2>2. CASE PanelFinish
    BY <2>2 DEF PanelFinish, RefreshAccounted
  <2>3. CASE BleUpload \/ DeepRetention \/ SdkReturns \/ ClockHold \/ ClockTick
    <3>1. /\ UNCHANGED <<epd_model, epd_update_state, epd_temperature_is_read>>
          /\ UNCHANGED <<foreign_driver, hw, panel_phase>>
      BY <2>3 DEF BleUpload, Ble, DeepRetention, SdkReturns, ClockHold,
                  ClockTick, epd, panel, firmware
    <3>2. QED
      BY <3>1 DEF IInv, RefreshAccounted, SameFamily
  <2>4. CASE BlePush \/ BleTiff
    BY <2>4, DisplayAccounted DEF BlePush, BleTiff, Ble
  <2>5. CASE SetSpeed
    BY <2>5, DrawAccounted DEF SetSpeed, Ble, IInv
  <2>6. ASSUME NEW model \in ForcedModels, ForceModel(model)
        PROVE  RefreshAccounted'
    BY <2>6 DEF ForceModel, Ble, IInv, RefreshAccounted, SameFamily, panel
  <2>7. ASSUME NEW level \in Levels, SetLevel(level)
        PROVE  RefreshAccounted'
    BY <2>7, DrawAccounted DEF SetLevel, Ble, IInv
  <2>8. CASE Measure
    <3>1. CASE EPD_read_temp
      BY <2>8, <3>1, ReadTempAccounted DEF Measure, IInv
    <3>2. CASE UNCHANGED <<epd, panel>>
      BY <2>8, <3>2 DEF Measure, IInv, RefreshAccounted, SameFamily, epd, panel
    <3>3. QED
      BY <2>8, <3>1, <3>2 DEF Measure
  <2>9. CASE Dispatch
    <3>1. CASE UNCHANGED <<epd, epd_buffer, panel>>
      BY <2>9, <3>1 DEF Dispatch, IInv, RefreshAccounted, SameFamily, epd, panel
    <3>2. CASE epd_display(lime_battery_level, current_hour # hour_refresh)
      BY <2>9, <3>2, DrawAccounted DEF Dispatch, IInv
    <3>3. QED
      BY <2>9, <3>1, <3>2 DEF Dispatch
  <2>10. CASE HandleState
    BY <2>10, HandlerAccounted DEF HandleState
  <2>11. QED
    BY <2>1, <2>2, <2>3, <2>4, <2>5, <2>6, <2>7, <2>8, <2>9, <2>10
    DEF Next, BleCommand, Loop
<1>3. QED
  BY <1>1, <1>2, TypeCorrect, PTL DEF Spec, IInv

\* Only a push or a TIFF command, which display without asking, or a driver of
\* another family ends a refresh before its frame is on the glass.
THEOREM NothingElseCutsShort == Spec => OnlyPushCutsShort
<1>1. IInv /\ IInv' /\ [Next]_vars
        => [CutShort => BlePush \/ BleTiff \/ foreign_driver]_vars
  <2> SUFFICES ASSUME IInv, Next, CutShort, ~foreign_driver
               PROVE  BlePush \/ BleTiff
    OBVIOUS
  <2>1. /\ epd_update_state = 1 /\ epd_temperature_is_read
        /\ SameFamily(epd_model)
    BY DEF CutShort, IInv, RefreshAccounted
  <2>2. ~UNCHANGED panel
    BY DEF CutShort, panel
  <2>3. \A level, full : ~epd_display(level, full)
    BY <2>1, <2>2 DEF epd_display
  <2>4. ~EPD_read_temp
    BY <2>1, <2>2 DEF EPD_read_temp
  <2>5. ~epd_state_handler
    BY <2>1, <2>2, BusyWhileRefreshing DEF epd_state_handler, CutShort, IInv
  <2>6. ~ClockTick
    BY DEF ClockTick, CutShort
  <2>7. ~PanelFinish
    BY DEF CutShort
  <2>8. ~SetSpeed /\ \A level : ~SetLevel(level)
    BY <2>3 DEF SetSpeed, SetLevel
  <2>9. ~Measure
    BY <2>2, <2>4 DEF Measure
  <2>10. ~Dispatch
    BY <2>2, <2>3 DEF Dispatch
  <2>11. ~HandleState
    BY <2>5 DEF HandleState
  <2>12. ~BleUpload /\ ~DeepRetention /\ ~SdkReturns /\ ~ClockHold
    BY <2>2 DEF BleUpload, DeepRetention, SdkReturns, ClockHold
  <2>13. \A model : ~ForceModel(model)
    BY <2>2 DEF ForceModel
  <2>14. QED
    BY <2>6, <2>7, <2>8, <2>9, <2>10, <2>11, <2>12, <2>13
    DEF Next, BleCommand, Loop
<1>2. QED
  BY <1>1, TypeCorrect, RefreshIsAccounted, PTL DEF Spec, IInv, OnlyPushCutsShort
-----------------------------------------------------------------------------
(* The clock alone *)

\* From second t of the day to second u, either minute and hour stay, or a new
\* minute begins, and if it is the first of an hour, the hour is new, too.
Advances(S, M, H, t, u) ==
  \/ /\ u % S = (t % S) + 1
     /\ u \div S = t \div S
  \/ /\ u % S = 0 /\ (t % S) + 1 = S
     /\ (u \div S) % M # (t \div S) % M
     /\ (u \div S) % M = 0 =>
          ((u \div S) \div M) % H # ((t \div S) \div M) % H

LEMMA NextSecond ==
  ASSUME NEW S \in Nat \ {0}, NEW M \in Nat \ {0}, NEW H \in Nat \ {0},
         M > 1, H > 1, NEW t \in 0..(S * M * H - 1),
         NEW u, u = (t + 1) % (S * M * H)
  PROVE  Advances(S, M, H, t, u)
<1> DEFINE q == t \div S
           s == t % S
           h == q \div M
           m == q % M
           day == M * H
<1>1. day \in Nat \ {0} /\ S * M * H = S * day
  BY SMT
<1>2. S * day \in Nat \ {0} /\ t \in Nat /\ t < S * day
  <2>1. S * day \in Nat \ {0}
    BY <1>1, SMT
  <2>2. t \in 0..(S * day - 1)
    BY <1>1
  <2> HIDE DEF day
  <2>3. QED
    BY <2>1, <2>2
<1>3. q \in Nat /\ s \in 0..(S - 1) /\ t = S * q + s
  BY <1>2, Division
<1> HIDE DEF q, s
<1>4. h \in Nat /\ m \in 0..(M - 1) /\ q = M * h + m
  BY <1>3, Division
<1> HIDE DEF h, m, day
<1>5. S * q \in Nat /\ M * h \in Nat
  BY <1>3, <1>4, SMT
<1>6. u = IF t + 1 = S * day THEN 0 ELSE t + 1
  <2>1. CASE t + 1 = S * day
    <3> DEFINE n == S * day
    <3>1. n \in Nat \ {0} /\ t + 1 = n
      BY <1>2, <2>1
    <3> HIDE DEF n
    <3>2. (n * 1 + 0) % n = 0 /\ n * 1 + 0 = n
      <4>1. 0 \in 0..(n - 1) /\ 1 \in Nat
        BY <3>1
      <4>2. n * 1 + 0 = n
        BY <3>1
      <4>3. QED
        BY <3>1, <4>1, <4>2, MultipleRest
    <3>3. n % n = 0
      BY <3>2
    <3>4. (t + 1) % n = 0
      BY <3>1, <3>3
    <3>5. QED
      BY <1>1, <2>1, <3>4 DEF n
  <2>2. CASE t + 1 # S * day
    <3>1. t + 1 \in 0..(S * day - 1)
      BY <1>2, <2>2
    <3>2. (t + 1) % (S * day) = t + 1
      BY <1>2, <3>1, SmallRest
    <3>3. QED
      BY <1>1, <2>2, <3>2
  <2>3. QED
    BY <2>1, <2>2
<1>7. CASE s + 1 < S
  <2>1. s + 1 \in 0..(S - 1) /\ t + 1 = S * q + (s + 1)
    BY <1>3, <1>5, <1>7
  <2>2. (t + 1) % S = s + 1 /\ (t + 1) \div S = q
    BY <1>3, <2>1, MultipleRest, MultipleQuotient
  <2>3. t + 1 # S * day
    <3>1. (S * day + 0) % S = 0 /\ S * day + 0 = S * day
      <4>1. 0 \in 0..(S - 1) /\ day \in Nat
        BY <1>1
      <4>2. QED
        BY <1>2, <4>1, MultipleRest
    <3>2. s + 1 # 0
      BY <1>3
    <3>3. QED
      BY <2>2, <3>1, <3>2
  <2>4. u = t + 1
    BY <1>6, <2>3
  <2>5. QED
    BY <2>2, <2>4 DEF s, q, Advances
<1>8. CASE s + 1 = S
  <2>1. t + 1 = S * (q + 1) /\ t + 1 = S * (q + 1) + 0 /\ 0 \in 0..(S - 1)
        /\ q + 1 \in Nat
    <3>1. S * (q + 1) = S * q + S /\ S * (q + 1) \in Nat
      BY <1>3, SMT
    <3>2. QED
      BY <1>3, <1>5, <1>8, <3>1
  <2>2. (t + 1) % S = 0 /\ (t + 1) \div S = q + 1
    <3>1. (S * (q + 1) + 0) % S = 0 /\ (S * (q + 1) + 0) \div S = q + 1
      BY <2>1, MultipleRest, MultipleQuotient
    <3>2. QED
      BY <2>1, <3>1
  <2>3. CASE t + 1 = S * day
    <3>1. u = 0
      BY <1>6, <2>3
    <3>2. 0 % S = 0 /\ 0 \div S = 0 /\ 0 % M = 0 /\ 0 \div M = 0 /\ 0 % H = 0
      BY SMT
    <3>3. q + 1 = day
      <4>1. S * day + 0 = S * (q + 1) + 0 /\ 0 \in 0..(S - 1) /\ day \in Nat
        BY <1>1, <1>2, <2>1, <2>3
      <4>2. QED
        BY <2>1, <4>1, UniqueDivision
    <3>4. q = M * (H - 1) + (M - 1) /\ H - 1 \in Nat /\ M - 1 \in 0..(M - 1)
      <4>1. M * H = M * (H - 1) + M /\ M * (H - 1) \in Nat
        BY SMT
      <4>2. q + 1 = M * (H - 1) + M
        BY <3>3, <4>1 DEF day
      <4>3. QED
        BY <1>3, <4>1, <4>2
    <3>5. q % M = M - 1 /\ q \div M = H - 1
      BY <3>4, MultipleRest, MultipleQuotient
    <3>6. (H - 1) % H = H - 1
      <4>1. H - 1 \in 0..(H - 1)
        OBVIOUS
      <4>2. QED
        BY <4>1, SmallRest
    <3>7. M - 1 # 0 /\ H - 1 # 0
      OBVIOUS
    <3>8. /\ u % S = 0 /\ (u \div S) % M = 0 /\ ((u \div S) \div M) % H = 0
      BY <3>1, <3>2
    <3>9. QED
      BY <1>8, <3>5, <3>6, <3>7, <3>8 DEF q, s, Advances
  <2>4. CASE t + 1 # S * day
    <3>1. u = t + 1
      BY <1>6, <2>4
    <3>2. q + 1 < day
      <4> SUFFICES ASSUME ~(q + 1 < day) PROVE FALSE
        OBVIOUS
      <4>1. day \in Nat /\ S \in Nat /\ day =< q + 1
        BY <1>1, <2>1
      <4>2. S * day =< S * (q + 1)
        BY <2>1, <4>1, Monotone
      <4>3. QED
        BY <1>2, <2>1, <2>4, <4>2
    <3>3. CASE m + 1 < M
      <4>1. q + 1 = M * h + (m + 1) /\ m + 1 \in 0..(M - 1)
        BY <1>3, <1>4, <1>5, <3>3
      <4>2. (q + 1) % M = m + 1
        BY <1>4, <4>1, MultipleRest
      <4>3. m + 1 # 0 /\ m + 1 # m
        BY <1>4
      <4>4. u % S = 0 /\ (u \div S) % M = m + 1
        BY <2>2, <3>1, <4>2
      <4>5. QED
        BY <1>8, <4>3, <4>4 DEF m, q, s, Advances
    <3>4. CASE m + 1 = M
      <4>1. q + 1 = M * (h + 1) /\ q + 1 = M * (h + 1) + 0 /\ 0 \in 0..(M - 1)
            /\ h + 1 \in Nat
        <5>1. M * (h + 1) = M * h + M /\ M * (h + 1) \in Nat
          BY <1>4, SMT
        <5>2. QED
          BY <1>3, <1>4, <1>5, <3>4, <5>1
      <4>2. (q + 1) % M = 0 /\ (q + 1) \div M = h + 1
        BY <4>1, MultipleRest, MultipleQuotient
      <4>3. h + 1 < H
        <5> SUFFICES ASSUME ~(h + 1 < H) PROVE FALSE
          OBVIOUS
        <5>1. H =< h + 1 /\ M \in Nat
          BY <4>1
        <5>2. M * H =< M * (h + 1)
          BY <4>1, <5>1, Monotone
        <5>3. q + 1 < M * H /\ M * H \in Nat /\ M * (h + 1) = q + 1 /\ q + 1 \in Nat
          BY <1>1, <2>1, <3>2, <4>1 DEF day
        <5>4. QED
          BY <5>2, <5>3
      <4>4. (h + 1) % H = h + 1 /\ h % H = h
        <5>1. h + 1 \in 0..(H - 1) /\ h \in 0..(H - 1)
          BY <1>4, <4>3
        <5>2. QED
          BY <5>1, SmallRest
      <4>5. m # 0 /\ h + 1 # h
        BY <1>4, <3>4
      <4>6. /\ u % S = 0 /\ (u \div S) % M = 0
            /\ ((u \div S) \div M) % H = h + 1
        BY <2>2, <3>1, <4>2, <4>4
      <4>7. (t \div S) % M = m /\ ((t \div S) \div M) % H = h
        BY <4>4 DEF m, h, q
      <4>8. QED
        BY <1>8, <4>5, <4>6, <4>7 DEF s, Advances
    <3>5. QED
      BY <1>4, <3>3, <3>4
  <2>5. QED
    BY <2>3, <2>4
<1>9. QED
  BY <1>3, <1>7, <1>8

second == current_unix_time % SecondsPerMinute

\* No central; every panel is detected as one of its family; a refresh, begun in
\* the first two seconds of a minute, is over two seconds before its end.
Unattended ==
  /\ BleCommands = {}
  /\ \A panel_hw \in Hardware : Family(panel_hw.detects) = Family(panel_hw.model)
  /\ RefreshSeconds + 2 < SecondsPerMinute
  /\ MinutesPerHour > 1 /\ HoursPerDay > 1

\* Until the first pass has drawn, nothing was drawn; from then on the minute and
\* hour of the last redraw are the clock's, but for the rest of a pass in which a
\* minute began.
ClockDrawn ==
  \/ /\ minute_refresh = NoTime /\ hour_refresh = NoTime /\ epd_update_state = 0
     /\ pc \in {"sdk", "time"} /\ current_unix_time = 0
  \/ /\ minute_refresh = NoTime /\ hour_refresh = NoTime /\ epd_update_state = 0
     /\ pc \in {"temp", "dispatch"} /\ current_unix_time \in {0, 1}
  \/ minute_refresh = current_minute /\ hour_refresh = current_hour
  \/ /\ pc \in {"temp", "dispatch"} /\ second = 0 /\ epd_update_state = 0
     /\ minute_refresh # current_minute
     /\ current_minute = 0 => current_hour # hour_refresh

\* The model was detected.  While an update is under way the temperature is kept,
\* and the update is not older than the minute: a refresh is as old as its age
\* and one second, and one that is over ends in the same pass or the next.
UpdateTimed ==
  /\ epd_model \in {NoModel, hw.detects}
  /\ epd_update_state = 1 =>
       /\ epd_model = hw.detects /\ epd_temperature_is_read
       /\ IF panel_phase = "refreshing" THEN second =< refresh_age + 1
          ELSE second =< RefreshSeconds + (IF pc \in {"sdk", "time"} THEN 1 ELSE 2)

\* The drawing of an hour's first minute was a full refresh.
FullOnTheHour == minute_refresh = 0 => panel_full

UnattendedIInv == TypeOK /\ ClockDrawn /\ UpdateTimed /\ FullOnTheHour

\* The first two seconds of the day are the first two of a minute.
LEMMA FirstSeconds ==
  ASSUME Unattended, current_unix_time \in {0, 1} PROVE second =< 1
<1>1. SecondsPerMinute \in Nat \ {0} /\ current_unix_time \in 0..(SecondsPerMinute - 1)
  BY ClockAssumption DEF Unattended
<1>2. current_unix_time % SecondsPerMinute = current_unix_time
  BY <1>1, SmallRest
<1>3. QED
  BY <1>2 DEF second

LEMMA SecondTyped == ASSUME TypeOK PROVE second \in Nat /\ second < SecondsPerMinute
<1>1. current_unix_time \in Nat /\ SecondsPerMinute \in Nat \ {0}
  BY DayPositive, ClockAssumption DEF TypeOK, Day
<1>2. second \in 0..(SecondsPerMinute - 1)
  BY <1>1, Division DEF second
<1>3. QED
  BY <1>1, <1>2

\* A second later the minute is the same or a new one.
LEMMA TickMoves ==
  ASSUME TypeOK, Unattended, current_unix_time' = (current_unix_time + 1) % Day
  PROVE  \/ /\ second' = second + 1
            /\ current_minute' = current_minute /\ current_hour' = current_hour
         \/ /\ second' = 0 /\ second + 1 = SecondsPerMinute
            /\ current_minute' # current_minute
            /\ current_minute' = 0 => current_hour' # current_hour
<1> DEFINE u == current_unix_time'
<1>1. /\ SecondsPerMinute \in Nat \ {0} /\ MinutesPerHour \in Nat \ {0}
      /\ HoursPerDay \in Nat \ {0} /\ MinutesPerHour > 1 /\ HoursPerDay > 1
      /\ current_unix_time \in 0..(SecondsPerMinute * MinutesPerHour * HoursPerDay - 1)
      /\ u = (current_unix_time + 1) % (SecondsPerMinute * MinutesPerHour * HoursPerDay)
  BY ClockAssumption DEF TypeOK, Unattended, Day
<1> HIDE DEF u
<1>2. Advances(SecondsPerMinute, MinutesPerHour, HoursPerDay, current_unix_time, u)
  BY <1>1, NextSecond
<1>3. QED
  BY <1>2, Zenon DEF Advances, second, current_minute, current_hour, u

\* The minute's drawing, begun in the first two seconds of its minute.
LEMMA DrawnOnTime ==
  ASSUME UnattendedIInv, Unattended, NEW full \in BOOLEAN, epd_update_state = 0,
         epd_display(lime_battery_level, full), second =< 1,
         UNCHANGED <<hw, current_unix_time>>
  PROVE  UpdateTimed' /\ panel_full' = full
<1>1. EPD_Display(Drawing(lime_battery_level), full)
  BY DEF epd_display
<1>2. DetectedModel = hw.detects
  BY DEF DetectedModel, UnattendedIInv, UpdateTimed
<1>3. SameFamily(DetectedModel)
  BY <1>2 DEF SameFamily, Unattended, UnattendedIInv, TypeOK
<1>4. panel_phase' = "refreshing"
  BY <1>1, <1>3 DEF EPD_Display, Outcomes
<1>5. epd_model' = hw.detects /\ epd_temperature_is_read' /\ refresh_age' = 0
      /\ panel_full' = full
  BY <1>1, <1>2 DEF EPD_Display, KeepTemperature
<1>6. second' =< refresh_age' + 1
  BY <1>5 DEF second
<1>7. QED
  BY <1>4, <1>5, <1>6 DEF UpdateTimed

LEMMA NextUnattended ==
  ASSUME Unattended
  PROVE  UnattendedIInv /\ [Next]_vars => UnattendedIInv'
<1> SUFFICES ASSUME UnattendedIInv, [Next]_vars PROVE UnattendedIInv'
  OBVIOUS
<1>1. TypeOK /\ ClockDrawn /\ UpdateTimed /\ FullOnTheHour
      /\ second \in Nat /\ second < SecondsPerMinute /\ refresh_age \in Nat
      /\ RefreshSeconds \in Nat /\ refresh_age =< RefreshSeconds
      /\ SecondsPerMinute \in Nat /\ RefreshSeconds + 2 < SecondsPerMinute
  BY SecondTyped, ClockAssumption DEF UnattendedIInv, TypeOK, Unattended
<1>2. TypeOK'
  BY <1>1, NextTyped
<1>3. current_unix_time' = current_unix_time =>
        second' = second /\ current_minute' = current_minute
        /\ current_hour' = current_hour
  BY DEF second, current_minute, current_hour
<1>4. SUFFICES ClockDrawn' /\ UpdateTimed' /\ FullOnTheHour'
  BY <1>2 DEF UnattendedIInv
<1>5. CASE UNCHANGED vars
  BY <1>1, <1>3, <1>5
  DEF vars, firmware, panel, ClockDrawn, UpdateTimed, FullOnTheHour
<1>6. CASE PanelFinish
  <2>1. /\ panel_phase = "refreshing" /\ panel_phase' = "idle"
        /\ UNCHANGED <<pc, current_unix_time, firmware, hw, panel_full>>
    BY <1>6 DEF PanelFinish
  <2>2. epd_update_state = 1 => second' =< RefreshSeconds + 1
                                /\ second' =< RefreshSeconds + 2
    BY <1>1, <1>3, <2>1 DEF UpdateTimed
  <2>3. QED
    BY <1>1, <1>3, <2>1, <2>2
    DEF firmware, ClockDrawn, UpdateTimed, FullOnTheHour
<1>7. CASE BleCommand
  BY <1>7 DEF Unattended, BleCommand, BleUpload, BlePush, BleTiff, SetSpeed,
     ForceModel, SetLevel, Ble
<1>8. CASE DeepRetention
  BY <1>1, <1>3, <1>8
  DEF DeepRetention, epd, panel, ClockDrawn, UpdateTimed, FullOnTheHour
<1>9. CASE SdkReturns
  BY <1>1, <1>3, <1>9
  DEF SdkReturns, Stage, firmware, panel, ClockDrawn, UpdateTimed, FullOnTheHour
<1>10. CASE ClockTick
  <2>1. /\ pc = "time" /\ pc' = "temp"
        /\ current_unix_time' = (current_unix_time + 1) % Day
        /\ refresh_age' = IF panel_phase = "refreshing" THEN refresh_age + 1 ELSE 0
        /\ refresh_age < RefreshSeconds \/ panel_phase # "refreshing"
        /\ UNCHANGED <<firmware, hw, panel_phase, panel_full>>
    BY <1>10 DEF ClockTick, Stage
  <2>2. \/ /\ second' = second + 1
           /\ current_minute' = current_minute /\ current_hour' = current_hour
        \/ /\ second' = 0 /\ second + 1 = SecondsPerMinute
           /\ current_minute' # current_minute
           /\ current_minute' = 0 => current_hour' # current_hour
    BY <1>1, <2>1, TickMoves
  <2>3. epd_update_state = 1 => second + 1 =< RefreshSeconds + 2
    BY <1>1, <2>1 DEF UpdateTimed
  <2>4. epd_update_state = 1 => second' = second + 1
    BY <1>1, <2>2, <2>3
  <2>5. UpdateTimed'
    BY <1>1, <2>1, <2>3, <2>4 DEF UpdateTimed, firmware
  <2>6. FullOnTheHour'
    BY <1>1, <2>1 DEF FullOnTheHour, firmware
  <2>7. CASE current_unix_time = 0 /\ minute_refresh = NoTime /\ hour_refresh = NoTime
             /\ epd_update_state = 0
    <3>1. current_unix_time' = 1
      <4>1. 1 \in 0..(Day - 1) /\ 0 + 1 = 1
        <5>1. SecondsPerMinute * MinutesPerHour * HoursPerDay \in Nat
              /\ SecondsPerMinute * MinutesPerHour * HoursPerDay > 1
          <6>1. SecondsPerMinute * MinutesPerHour >= SecondsPerMinute
                /\ SecondsPerMinute * MinutesPerHour \in Nat
            <7>1. SecondsPerMinute * 1 =< SecondsPerMinute * MinutesPerHour
              BY <1>1, ClockAssumption, Monotone
            <7>2. QED
              BY <1>1, <7>1, ClockAssumption, SMT
          <6>2. SecondsPerMinute * MinutesPerHour * HoursPerDay
                  >= SecondsPerMinute * MinutesPerHour
            <7>1. (SecondsPerMinute * MinutesPerHour) * 1
                    =< (SecondsPerMinute * MinutesPerHour) * HoursPerDay
              BY <6>1, ClockAssumption, Monotone
            <7>2. QED
              BY <6>1, <7>1, ClockAssumption, SMT
          <6>3. QED
            BY <1>1, <6>1, <6>2, DayPositive DEF Day
        <5>2. QED
          BY <5>1 DEF Day
      <4>2. QED
        BY <2>1, <2>7, <4>1, DayPositive, SmallRest
    <3>2. QED
      BY <2>1, <2>5, <2>6, <2>7, <3>1 DEF ClockDrawn, firmware
  <2>8. CASE minute_refresh = current_minute /\ hour_refresh = current_hour
    <3>1. UNCHANGED <<minute_refresh, hour_refresh, epd_update_state>>
          /\ epd_update_state \in {0, 1}
      BY <1>1, <2>1 DEF firmware, TypeOK
    <3>2. CASE second' = second + 1 /\ current_minute' = current_minute
               /\ current_hour' = current_hour
      BY <2>5, <2>6, <2>8, <3>1, <3>2 DEF ClockDrawn
    <3>3. CASE /\ second' = 0 /\ second + 1 = SecondsPerMinute
               /\ current_minute' # current_minute
               /\ current_minute' = 0 => current_hour' # current_hour
      <4>1. epd_update_state = 0
        BY <1>1, <2>3, <3>1, <3>3
      <4>2. QED
        BY <2>1, <2>5, <2>6, <2>8, <3>1, <3>3, <4>1 DEF ClockDrawn
    <3>4. QED
      BY <2>2, <3>2, <3>3
  <2>9. QED
    BY <1>1, <2>1, <2>7, <2>8 DEF ClockDrawn
<1>11. CASE ClockHold
  <2>1. pc = "time" /\ pc' = "temp"
        /\ UNCHANGED <<current_unix_time, firmware, hw, panel>>
    BY <1>11 DEF ClockHold, Stage
  <2>2. UpdateTimed'
    BY <1>1, <1>3, <2>1 DEF UpdateTimed, firmware, panel
  <2>3. QED
    BY <1>1, <1>3, <2>1, <2>2 DEF firmware, panel, ClockDrawn, FullOnTheHour
<1>12. CASE Measure
  <2>1. /\ pc = "temp" /\ pc' = "dispatch"
        /\ UNCHANGED <<current_unix_time, minute_refresh, hour_refresh, hw>>
        /\ EPD_read_temp \/ UNCHANGED <<epd, panel>>
    BY <1>12 DEF Measure, Stage
  <2>2. UNCHANGED <<epd, panel>> \/ ~epd_temperature_is_read
    BY <2>1 DEF EPD_read_temp
  <2>3. CASE UNCHANGED <<epd, panel>>
    BY <1>1, <1>3, <2>1, <2>3
    DEF epd, panel, ClockDrawn, UpdateTimed, FullOnTheHour
  <2>4. CASE ~epd_temperature_is_read /\ EPD_read_temp
    <3>1. /\ epd_update_state' = epd_update_state /\ epd_update_state # 1
          /\ panel_full' = panel_full /\ epd_model' = DetectedModel
      BY <1>1, <2>4 DEF EPD_read_temp, UpdateTimed, epd, panel
    <3>2. epd_model' \in {NoModel, hw.detects}
      BY <1>1, <3>1 DEF DetectedModel, UpdateTimed
    <3>3. QED
      BY <1>1, <1>3, <2>1, <3>1, <3>2 DEF ClockDrawn, UpdateTimed, FullOnTheHour
  <2>5. QED
    BY <2>1, <2>2, <2>3, <2>4
<1>13. CASE Dispatch
  <2>1. /\ pc = "dispatch" /\ pc' = "handler"
        /\ UNCHANGED <<current_unix_time, hw>> /\ minute_refresh' = current_minute
    BY <1>13 DEF Dispatch, Stage
  <2>2. current_minute \in 0..(MinutesPerHour - 1) /\ current_minute # NoTime
    BY <1>1, MinuteHourRange, ClockAssumption DEF NoTime
  <2>3. CASE current_minute = minute_refresh
    <3>1. UNCHANGED <<hour_refresh, epd, panel>>
      BY <1>13, <2>3 DEF Dispatch
    <3>2. hour_refresh = current_hour
      BY <1>1, <2>1, <2>2, <2>3 DEF ClockDrawn
    <3>3. QED
      BY <1>1, <1>3, <2>1, <2>3, <3>1, <3>2
      DEF epd, panel, ClockDrawn, UpdateTimed, FullOnTheHour
  <2>4. CASE current_minute # minute_refresh
    <3>1. hour_refresh' = current_hour
          /\ epd_display(lime_battery_level, current_hour # hour_refresh)
      BY <1>13, <2>4 DEF Dispatch
    <3>2. epd_update_state = 0 /\ (current_minute = 0 => current_hour # hour_refresh)
      <4>1. current_hour # NoTime
        BY <1>1, MinuteHourRange, ClockAssumption DEF NoTime
      <4>2. QED
        BY <1>1, <2>1, <2>4, <4>1 DEF ClockDrawn
    <3>3. second =< 1
      BY <1>1, <2>1, <2>4, FirstSeconds DEF ClockDrawn
    <3>4. UpdateTimed' /\ panel_full' = (current_hour # hour_refresh)
      BY <2>1, <3>1, <3>2, <3>3, DrawnOnTime
    <3>5. QED
      BY <1>3, <2>1, <3>1, <3>2, <3>4 DEF ClockDrawn, FullOnTheHour
  <2>5. QED
    BY <2>3, <2>4
<1>14. CASE HandleState
  <2>1. /\ pc = "handler" /\ pc' = "sdk" /\ epd_state_handler
        /\ UNCHANGED <<current_unix_time, minute_refresh, hour_refresh, hw>>
    BY <1>14 DEF HandleState, Stage
  <2>2. minute_refresh = current_minute /\ hour_refresh = current_hour
    BY <1>1, <2>1 DEF ClockDrawn
  <2>3. ClockDrawn'
    BY <1>3, <2>1, <2>2 DEF ClockDrawn
  <2>4. CASE epd_update_state = 1 /\ RefreshLooksDone /\ epd_set_sleep
    <3>1. epd_update_state' = 0 /\ epd_model' = DetectedModel /\ panel_full' = panel_full
      BY <2>4 DEF epd_set_sleep
    <3>2. epd_model' \in {NoModel, hw.detects}
      BY <1>1, <3>1 DEF DetectedModel, UpdateTimed
    <3>3. QED
      BY <1>1, <2>1, <2>3, <3>1, <3>2 DEF UpdateTimed, FullOnTheHour
  <2>5. CASE (epd_update_state = 1 => ~RefreshLooksDone) /\ UNCHANGED <<epd, panel>>
    <3>1. CASE epd_update_state = 1
      <4>1. epd_model = hw.detects /\ hw \in Hardware /\ hw.model \in 1..6
        BY <1>1, <3>1, ModelsAssumption DEF UpdateTimed, TypeOK, Drivers
      <4>2. Family(epd_model) = Family(hw.model)
        BY <4>1 DEF Unattended
      <4>3. epd_model = 1 <=> hw.model = 1
        BY <4>1, <4>2, SMT DEF Family
      <4>4. panel_phase = "refreshing"
        BY <2>5, <3>1, <4>3 DEF RefreshLooksDone, EPD_IS_BUSY
      <4>5. QED
        BY <1>1, <1>3, <2>1, <2>3, <2>5, <4>4 DEF UpdateTimed, FullOnTheHour, epd, panel
    <3>2. CASE epd_update_state # 1
      BY <1>1, <1>3, <2>1, <2>3, <2>5, <3>2 DEF UpdateTimed, FullOnTheHour, epd, panel
    <3>3. QED
      BY <3>1, <3>2
  <2>6. QED
    BY <2>1, <2>4, <2>5 DEF epd_state_handler
<1>15. QED
  BY <1>5, <1>6, <1>7, <1>8, <1>9, <1>10, <1>11, <1>12, <1>13, <1>14 DEF Next, Loop

LEMMA UnattendedInvariant ==
  ASSUME Unattended PROVE Spec => []UnattendedIInv
<1>1. Init => UnattendedIInv
  <2> SUFFICES ASSUME Init PROVE UnattendedIInv
    OBVIOUS
  <2>1. TypeOK
    BY InitTyped
  <2>2. ClockDrawn /\ UpdateTimed
    BY DEF Init, ClockDrawn, UpdateTimed
  <2>3. FullOnTheHour
    BY DEF Init, FullOnTheHour, NoTime
  <2>4. QED
    BY <2>1, <2>2, <2>3 DEF UnattendedIInv
<1>2. UnattendedIInv /\ [Next]_vars => UnattendedIInv'
  BY NextUnattended
<1>3. QED
  BY <1>1, <1>2, PTL DEF Spec

\* With no central, the dispatcher finds no update under way when a minute
\* begins, for every clock and panel whose refresh leaves two seconds of a minute.
THEOREM RedrawsKept == ASSUME Unattended PROVE Spec => []RedrawNeverDropped
<1>1. UnattendedIInv => RedrawNeverDropped
  BY DEF UnattendedIInv, ClockDrawn, RedrawNeverDropped
<1>2. QED
  BY UnattendedInvariant, <1>1, PTL

\* With no central, every hour opens with a full refresh, over days without end.
THEOREM HoursOpenFull == ASSUME Unattended PROVE Spec => []HourOpensWithFullRefresh
<1>1. UnattendedIInv => HourOpensWithFullRefresh
  BY DEF UnattendedIInv, ClockDrawn, FullOnTheHour, HourOpensWithFullRefresh
<1>2. QED
  BY UnattendedInvariant, <1>1, PTL
=============================================================================
