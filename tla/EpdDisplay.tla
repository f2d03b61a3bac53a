----------------------------- MODULE EpdDisplay -----------------------------
(***************************************************************************)
(* The life cycle of the e-paper panel: epd.c, driven by the main loop of  *)
(* app.c and by the BLE handlers that touch the display.                   *)
(*                                                                         *)
(* The firmware has one thread.  One pass of main_loop is five stages, and *)
(* a BLE write handler runs only inside the first of them, so each stage   *)
(* and each handler is one atomic action.  What does run concurrently is   *)
(* the panel, which ends a refresh by itself, and the clock.               *)
(***************************************************************************)
EXTENDS Integers

CONSTANTS
  Levels,            \* battery levels that can be written with command 0xF1
  ForcedModels,      \* arguments of command 0xE0, any uint8_t
  Hardware,          \* the panels: records [model, detects]
  BleCommands,       \* the BLE commands the central sends
  SecondsPerMinute, MinutesPerHour, HoursPerDay,   \* 60, 60, 24 in app.c
  RefreshSeconds     \* a panel refresh never lasts longer than this

\* The drivers of epd.c: 1 is the UC8151 panel, 2..6 are SSD16xx panels.  Any
\* other non-zero number has no driver.
Drivers == 1..6
NoModel == 0
NoTime == 100        \* minute_refresh and hour_refresh before the first draw

ASSUME ModelsAssumption ==
  /\ Levels \subseteq 0..255 /\ 0 \in Levels
  /\ ForcedModels \subseteq 0..255
  /\ Hardware \subseteq [model : Drivers, detects : 1..4]
ASSUME ClockAssumption ==
  /\ SecondsPerMinute \in Nat \ {0}
  /\ MinutesPerHour \in 1..60
  /\ HoursPerDay \in 1..24
  /\ RefreshSeconds \in Nat

\* What is in the frame buffer or on the glass: the drawing of a level, an
\* uploaded image, a blank buffer, or a mixture of no known content.
Blank == [kind |-> "blank"]
Image == [kind |-> "image"]
Garbled == [kind |-> "garbled"]
Drawing(level) == [kind |-> "drawing", level |-> level]
Frames == {Blank, Image, Garbled} \union {Drawing(level) : level \in Levels}

VARIABLES
  pc,                        \* the stage of main_loop that runs next
  current_unix_time,         \* modulo a day: only minute and hour are used
  minute_refresh, hour_refresh,
  has_ever_reached,          \* has_ever_reached[Timer_CH_1] of time.c
  lime_battery_level,
  epd_model, epd_update_state, epd_temperature_is_read,
  epd_buffer,
  sleep_allowed,             \* the suspend mask allows deep retention
  \* the panel: what it is, what it does, what it drives and what it shows
  hw, panel_phase, panel_frame, panel_full, panel_shown, refresh_age,
  foreign_driver             \* history: see ForceModel

firmware == <<minute_refresh, hour_refresh, has_ever_reached,
              lime_battery_level, epd_model, epd_update_state,
              epd_temperature_is_read, epd_buffer, sleep_allowed>>
panel == <<panel_phase, panel_frame, panel_full, panel_shown, refresh_age>>
epd == <<epd_model, epd_update_state, epd_temperature_is_read, foreign_driver>>
vars == <<pc, current_unix_time, firmware, hw, panel, foreign_driver>>

TypeOK ==
  /\ pc \in {"sdk", "time", "temp", "dispatch", "handler"}
  /\ current_unix_time \in 0..(SecondsPerMinute * MinutesPerHour * HoursPerDay - 1)
  /\ minute_refresh \in 0..(MinutesPerHour - 1) \union {NoTime}
  /\ hour_refresh \in 0..(HoursPerDay - 1) \union {NoTime}
  /\ has_ever_reached \in BOOLEAN
  /\ lime_battery_level \in Levels
  /\ epd_model \in 0..255
  /\ epd_update_state \in {0, 1}
  /\ epd_temperature_is_read \in BOOLEAN
  /\ epd_buffer \in Frames
  /\ sleep_allowed \in BOOLEAN
  /\ hw \in Hardware
  /\ panel_phase \in {"idle", "refreshing", "asleep"}
  /\ panel_frame \in Frames
  /\ panel_full \in BOOLEAN
  /\ panel_shown \in Frames
  /\ refresh_age \in 0..RefreshSeconds
  /\ foreign_driver \in BOOLEAN
-----------------------------------------------------------------------------
(* The panel.  EPD_POWER_ON and EPD_POWER_OFF write the output latch of a  *)
(* pin that EPD_init leaves as an input, so what acts on the panel is its  *)
(* reset line and the commands of the driver.                              *)

Family(model) == CASE model = 1 -> "UC8151"
                   [] model \in 2..6 -> "SSD16xx"
                   [] OTHER -> "none"
SameFamily(model) == Family(model) = Family(hw.model)

\* EPD_IS_BUSY: the BUSY pin is low.  UC8151 pulls it low while it refreshes,
\* SSD16xx drives it high.
EPD_IS_BUSY == (panel_phase = "refreshing") <=> (hw.model = 1)

\* What is left on the glass when a reset or a sleep ends a refresh early.
ShownAfterStop ==
  IF panel_phase = "refreshing" THEN Garbled ELSE panel_shown

\* Commands of another controller's driver have no defined effect; with no
\* driver at all none are sent.
Outcomes(model, meant, unchanged) ==
  IF SameFamily(model) THEN {meant}
  ELSE IF Family(model) = "none" THEN {unchanged}
  ELSE {meant, unchanged}

\* The panel ends its refresh: the frame is on the glass, BUSY is released.
PanelFinish ==
  /\ panel_phase = "refreshing"
  /\ panel_phase' = "idle"
  /\ panel_shown' = panel_frame
  /\ refresh_age' = 0
  /\ UNCHANGED <<pc, current_unix_time, firmware, hw, panel_frame,
                 panel_full, foreign_driver>>
-----------------------------------------------------------------------------
(* epd.c *)

\* EPD_detect_model, run wherever a model is needed and none is known.
DetectedModel == IF epd_model = NoModel THEN hw.detects ELSE epd_model

\* A driver's temperature reading is kept for good.  Mutant: it is not.
ForgetTemperature == UNCHANGED epd_temperature_is_read
KeepTemperature == epd_temperature_is_read' = TRUE

\* EPD_Display: reset, then the driver loads the frame and starts a refresh.
EPD_Display(image, full) ==
  /\ epd_model' = DetectedModel
  /\ foreign_driver' = ~SameFamily(DetectedModel)
  /\ panel_phase' \in Outcomes(DetectedModel, "refreshing", "idle")
  /\ panel_frame' = IF DetectedModel = hw.model THEN image ELSE Garbled
  /\ panel_full' = full
  /\ panel_shown' = ShownAfterStop
  /\ refresh_age' = 0
  /\ KeepTemperature
  /\ epd_update_state' = 1

\* Mutant of epd_display: it forgets to copy the drawing to the frame buffer.
epd_display_stale(level, full) ==
  \/ /\ epd_update_state # 0
     /\ UNCHANGED <<epd, epd_buffer, panel>>
  \/ /\ epd_update_state = 0
     /\ UNCHANGED epd_buffer
     /\ EPD_Display(epd_buffer, full)

\* epd_display: no new drawing while an update is under way.
epd_display(level, full) ==
  \/ /\ epd_update_state # 0
     /\ UNCHANGED <<epd, epd_buffer, panel>>
  \/ /\ epd_update_state = 0
     /\ epd_buffer' = Drawing(level)
     /\ EPD_Display(Drawing(level), full)

\* EPD_read_temp: one reading is kept for ever.  The driver ends the reading
\* by putting the panel to sleep.
EPD_read_temp ==
  \/ /\ epd_temperature_is_read
     /\ UNCHANGED <<epd, panel>>
  \/ /\ ~epd_temperature_is_read
     /\ epd_model' = DetectedModel
     /\ panel_phase' \in Outcomes(DetectedModel, "asleep", "idle")
     /\ panel_shown' = ShownAfterStop
     /\ refresh_age' = 0
     /\ KeepTemperature
     /\ UNCHANGED <<epd_update_state, foreign_driver, panel_frame, panel_full>>

\* epd_set_sleep: a model that is not known yet is detected first, which
\* resets the panel.
epd_set_sleep ==
  LET before == IF epd_model = NoModel THEN "idle" ELSE panel_phase
  IN /\ epd_model' = DetectedModel
     /\ panel_phase' \in Outcomes(DetectedModel, "asleep", before)
     /\ panel_shown' = IF panel_phase' = "refreshing"
                       THEN panel_shown ELSE ShownAfterStop
     /\ refresh_age' = IF panel_phase' = "refreshing" THEN refresh_age ELSE 0
     /\ epd_update_state' = 0
     /\ UNCHANGED <<epd_temperature_is_read, foreign_driver, panel_frame,
                    panel_full>>

\* Mutants of the next test: the two levels swapped; one level for all panels.
SwappedLevels == IF epd_model = 1 THEN EPD_IS_BUSY ELSE ~EPD_IS_BUSY
OneLevel == EPD_IS_BUSY

\* The test of epd_state_handler for the end of a refresh.
RefreshLooksDone == IF epd_model = 1 THEN ~EPD_IS_BUSY ELSE EPD_IS_BUSY

epd_state_handler ==
  \/ /\ epd_update_state = 1
     /\ RefreshLooksDone
     /\ epd_set_sleep
  \/ /\ epd_update_state = 1 => ~RefreshLooksDone
     /\ UNCHANGED <<epd, panel>>
-----------------------------------------------------------------------------
(* BLE write handlers.  They run inside blt_sdk_main_loop.                 *)

Ble(command) ==
  /\ pc = "sdk"
  /\ command \in BleCommands
  /\ UNCHANGED <<pc, current_unix_time, minute_refresh, hour_refresh,
                 has_ever_reached, sleep_allowed, hw>>

\* Commands 0x00 and 0x03 of the image service fill the frame buffer.
BleUpload ==
  /\ Ble("upload")
  /\ epd_buffer' = Image
  /\ UNCHANGED <<lime_battery_level, epd, panel>>

\* Command 0x01 displays the frame buffer, whatever the panel is doing.
BlePush ==
  /\ Ble("push")
  /\ EPD_Display(epd_buffer, TRUE)
  /\ UNCHANGED <<lime_battery_level, epd_buffer>>

\* Command 0x04 clears the frame buffer, decodes into it and displays it.
BleTiff ==
  /\ Ble("tiff")
  /\ epd_buffer' = Blank
  /\ EPD_Display(Blank, TRUE)
  /\ UNCHANGED lime_battery_level

\* Command 0xE0 replaces the model number, also while a refresh runs.  The
\* history variable remembers that a driver of another family took over.
ForceModel(model) ==
  /\ Ble("force")
  /\ epd_model' = model
  /\ foreign_driver' = (foreign_driver \/ ~SameFamily(model))
  /\ UNCHANGED <<lime_battery_level, epd_update_state, epd_buffer,
                 epd_temperature_is_read, panel>>

\* Command 0xF1 stores the level and redraws; 0xF2 redraws the same level.
SetLevel(level) ==
  /\ Ble("level")
  /\ lime_battery_level' = level
  /\ epd_display(level, FALSE)

SetSpeed ==
  /\ Ble("speed")
  /\ epd_display(lime_battery_level, FALSE)
  /\ UNCHANGED lime_battery_level

BleCommand ==
  \/ BleUpload \/ BlePush \/ BleTiff \/ SetSpeed
  \/ \E model \in ForcedModels : ForceModel(model)
  \/ \E level \in Levels : SetLevel(level)
-----------------------------------------------------------------------------
(* One pass of main_loop. *)

Stage(from, to) == pc = from /\ pc' = to

\* At the end of blt_sdk_main_loop the processor may go to deep retention
\* sleep.  It wakes up in main(), which keeps what is marked RAM; the frame
\* buffer is not.
DeepRetention ==
  /\ pc = "sdk"
  /\ sleep_allowed
  /\ epd_buffer' = Blank
  /\ UNCHANGED <<pc, current_unix_time, minute_refresh, hour_refresh,
                 has_ever_reached, lime_battery_level, epd, sleep_allowed, hw,
                 panel>>

SdkReturns ==
  /\ Stage("sdk", "time")
  /\ UNCHANGED <<current_unix_time, firmware, hw, panel, foreign_driver>>

\* handler_time adds at most one second in a pass.  A second does not pass in
\* a refresh that has already lasted RefreshSeconds: that one ends first.
Day == SecondsPerMinute * MinutesPerHour * HoursPerDay

ClockTick ==
  /\ Stage("time", "temp")
  /\ refresh_age < RefreshSeconds \/ panel_phase # "refreshing"
  /\ current_unix_time' = (current_unix_time + 1) % Day
  /\ refresh_age' = IF panel_phase = "refreshing" THEN refresh_age + 1 ELSE 0
  /\ UNCHANGED <<firmware, hw, panel_phase, panel_frame, panel_full,
                 panel_shown, foreign_driver>>

ClockHold ==
  /\ Stage("time", "temp")
  /\ UNCHANGED <<current_unix_time, firmware, hw, panel, foreign_driver>>

\* Timer_CH_1: reached in the first pass, and later whenever 30 s have gone.
Measure ==
  /\ Stage("temp", "dispatch")
  /\ has_ever_reached' = TRUE
  /\ \/ EPD_read_temp
     \/ has_ever_reached /\ UNCHANGED <<epd, panel>>
  /\ UNCHANGED <<current_unix_time, minute_refresh, hour_refresh,
                 lime_battery_level, epd_buffer, sleep_allowed, hw>>

\* Mutants: the minute is rounded after it was reduced to the hour; an hour is
\* divided once more.
rounded_minute ==
  ((current_unix_time % (SecondsPerMinute * MinutesPerHour)) + (SecondsPerMinute \div 2))
    \div SecondsPerMinute
slow_hour ==
  (((current_unix_time \div SecondsPerMinute) \div MinutesPerHour)
     \div MinutesPerHour) % HoursPerDay

current_minute == (current_unix_time \div SecondsPerMinute) % MinutesPerHour
current_hour ==
  ((current_unix_time \div SecondsPerMinute) \div MinutesPerHour) % HoursPerDay

\* The screen write dispatcher: one redraw a minute, a full one each hour.
Dispatch ==
  /\ Stage("dispatch", "handler")
  /\ minute_refresh' = current_minute
  /\ \/ /\ current_minute = minute_refresh
        /\ UNCHANGED <<hour_refresh, epd, epd_buffer, panel>>
     \/ /\ current_minute # minute_refresh
        /\ hour_refresh' = current_hour
        /\ epd_display(lime_battery_level, current_hour # hour_refresh)
  /\ UNCHANGED <<current_unix_time, has_ever_reached, lime_battery_level,
                 sleep_allowed, hw>>

\* The end of a pass: sleep is masked for as long as an update is under way.
HandleState ==
  /\ Stage("handler", "sdk")
  /\ epd_state_handler
  /\ sleep_allowed' = (epd_update_state' = 0)
  /\ UNCHANGED <<current_unix_time, minute_refresh, hour_refresh,
                 has_ever_reached, lime_battery_level, epd_buffer, hw>>

Loop == SdkReturns \/ ClockTick \/ ClockHold \/ Measure \/ Dispatch \/ HandleState
-----------------------------------------------------------------------------
\* A cold boot, with any panel attached and anything on its glass.
Init ==
  /\ pc = "sdk"
  /\ current_unix_time = 0
  /\ minute_refresh = NoTime /\ hour_refresh = NoTime
  /\ has_ever_reached = FALSE
  /\ lime_battery_level = 0
  /\ epd_model = NoModel
  /\ epd_update_state = 0
  /\ epd_temperature_is_read = FALSE
  /\ epd_buffer = Blank
  /\ sleep_allowed = TRUE
  /\ hw \in Hardware
  /\ panel_phase = "asleep"
  /\ panel_frame = Blank
  /\ panel_full = FALSE
  /\ panel_shown = Image
  /\ refresh_age = 0
  /\ foreign_driver = FALSE

Next == PanelFinish \/ BleCommand \/ DeepRetention \/ Loop

\* The loop is a while (1) that never blocks; the crystal makes handler_time
\* find a second gone again and again; a refresh ends by itself.
Fairness == WF_vars(Loop) /\ SF_vars(ClockTick) /\ WF_vars(PanelFinish)

Spec == Init /\ [][Next]_vars
FairSpec == Spec /\ Fairness
-----------------------------------------------------------------------------
(* Safety *)

\* A refresh under way is always one the firmware knows of, unless a driver
\* of another family was in force since it began: epd_update_state holds the
\* redraws off, the kept temperature keeps the periodic reading off, and the
\* model number still tells the level of BUSY that ends it.
RefreshAccounted ==
  panel_phase = "refreshing" /\ ~foreign_driver =>
    epd_update_state = 1 /\ epd_temperature_is_read /\ SameFamily(epd_model)

\* The panel stops refreshing before its frame is on the glass.
CutShort ==
  /\ panel_phase = "refreshing"
  /\ ~PanelFinish
  /\ panel_phase' # "refreshing" \/ panel_shown' # panel_shown

\* Neither the temperature timer nor the minute redraw nor the state handler
\* nor a level command ends a refresh early: only a push or a TIFF command
\* does, which display without asking, or a driver of another family.
OnlyPushCutsShort ==
  [][CutShort => BlePush \/ BleTiff \/ foreign_driver]_vars

\* Without BLE commands no minute redraw is dropped: whenever the dispatcher
\* finds a new minute the previous update is over.
RedrawNeverDropped ==
  pc = "dispatch" /\ current_minute # minute_refresh => epd_update_state = 0

\* Without BLE commands the drawing of an hour's first minute is a full
\* refresh, which clears the ghosts of the partial ones.
HourOpensWithFullRefresh ==
  pc = "handler" /\ current_minute = 0 => panel_full

\* What the comment of epd_state_handler says, "check if refresh is done and
\* sleep epd if so" (epd.c:198): a step that ends the update of a frame finds
\* the panel done.  Command 0xE0 in mid refresh changes the level tested for.
SleepsWhenDone ==
  [][epd_update_state = 1 /\ epd_update_state' = 0 /\ panel_frame # Garbled =>
       panel_phase # "refreshing"]_vars
-----------------------------------------------------------------------------
(* Liveness *)

QuietCentral == <>[][~BleCommand]_vars

\* Once the central is quiet and the model number names a driver of the right
\* family, every update ends with the panel asleep, also when it began under a
\* wrong model (the purpose of command 0xE0) or slept through by the processor.
UpdatesEnd ==
  QuietCentral /\ <>[]SameFamily(epd_model) =>
    []<>(epd_update_state = 0 /\ panel_phase = "asleep")

\* The level written last is on the glass in the end, though a level command
\* that meets a busy panel is not drawn: the next free minute draws it.
LevelShown ==
  QuietCentral /\ <>[](epd_model = hw.model) =>
    <>[](panel_shown = Drawing(lime_battery_level))
=============================================================================
