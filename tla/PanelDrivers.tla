---------------------------- MODULE PanelDrivers ----------------------------
(***************************************************************************)
(* The six panel drivers (epd_bw_213.c to epd_bwy_350.c) and what they     *)
(* send over epd_spi.c, and the detection in epd.c that selects one.  A    *)
(* driver function is the program of what it sends; register settings      *)
(* between two steps that matter are one step.  A command that reaches a   *)
(* busy panel is lost, and a wait for the panel gives up after 100 ms and  *)
(* goes on.                                                                *)
(***************************************************************************)
EXTENDS Integers, Sequences

Drivers == 1..6
BufferSize == 5000                 \* epd_buffer_size, what a push sends

\* What a redraw sends: resolution_w * resolution_h / 8.
RedrawSize(d) == IF d = 3 THEN 5000 ELSE 4000

\* The bytes of panel memory the resolution, or the RAM X and Y addresses, give.
Window(d) == <<16 * 296, 16 * 251, 25 * 200, 16 * 251, 16 * 251, 13 * 213>>[d]
-----------------------------------------------------------------------------
(* The driver functions.  Driver 1 is a UC8151, the others SSD16xx.        *)

Steps == {"sw_reset", "power_on", "power_off", "wait", "setup", "measure",
          "temperature", "cursor", "load", "load_old", "load_red", "lut",
          "refresh", "sleep", "delay", "test_2", "test_3", "test_4"}

\* The detections write a pattern where the waveform is kept and read it back,
\* or read a status; after the reset they only wait for a fixed time.
LutTest(test) == <<"sw_reset", "delay", "lut", test>>
EPD_BWR_213_detect == LutTest("test_2")
EPD_BWR_154_detect == LutTest("test_3")
EPD_BW_213_ice_detect == <<"sw_reset", "delay", "test_4">>

\* Mutant: one of the three detections is left out.
detect_lut_only == EPD_BWR_213_detect \o EPD_BWR_154_detect
EPD_detect_model == EPD_BWR_213_detect \o EPD_BWR_154_detect \o EPD_BW_213_ice_detect

EPD_BW_213_set_sleep == <<"power_off", "sleep">>
EPD_BWR_213_set_sleep == <<"sleep">>
EPD_BWR_154_set_sleep == <<"sleep">>
EPD_BW_213_ice_set_sleep == <<"sleep">>
EPD_BWR_350_set_sleep == <<"sleep">>
EPD_BWY_350_set_sleep == <<"sleep">>

\* Each reading and each display begins by a measurement of the temperature;
\* drivers 4 and 6 activate the panel a second time after it.
PowerOnReading == <<"power_on", "wait", "temperature">>
Reading == <<"sw_reset", "wait", "setup", "measure", "wait", "temperature">>
Again == <<"measure", "wait", "setup">>

EPD_BW_213_read_temp == PowerOnReading \o <<"power_off", "sleep">>
EPD_BWR_213_read_temp == Reading \o <<"sleep">>
EPD_BWR_154_read_temp == Reading \o <<"sleep">>
EPD_BW_213_ice_read_temp == Reading \o Again \o <<"sleep">>
EPD_BWR_350_read_temp == Reading \o <<"sleep">>
EPD_BWY_350_read_temp == Reading \o Again \o <<"sleep">>

\* The parts of a display that differ between a full and a partial refresh.
Partial(full, steps) == IF full THEN <<>> ELSE steps
Planes == <<"cursor", "load", "cursor", "load_red">>

EPD_BW_213_Display(full) ==
  PowerOnReading \o <<"setup">> \o Partial(full, <<"lut", "load_old">>)
    \o <<"load", "refresh">>
\* Mutant of the next: the RAM address is not set back for the second plane.
EPD_BWR_213_one_cursor(full) ==
  Reading \o <<"cursor", "load", "load_red">> \o Partial(full, <<"lut">>)
    \o <<"refresh">>
EPD_BWR_213_Display(full) ==
  Reading \o Planes \o Partial(full, <<"lut">>) \o <<"refresh">>
\* Mutant of the next: no wait for the end of the measurement.
EPD_BWR_154_hasty(full) ==
  <<"sw_reset", "wait", "setup", "measure", "temperature">> \o Planes
    \o Partial(full, <<"lut">>) \o <<"refresh">>
EPD_BWR_154_Display(full) ==
  Reading \o Planes \o Partial(full, <<"lut">>) \o <<"refresh">>
EPD_BW_213_ice_Display(full) ==
  Reading \o Again \o <<"cursor", "load">> \o Partial(full, <<"lut">>)
    \o <<"refresh">>
EPD_BWR_350_Display(full) ==
  Reading \o Planes \o Partial(full, <<"lut">>) \o <<"refresh">>
EPD_BWY_350_Display(full) ==
  Reading \o Again \o <<"cursor", "load">> \o Partial(full, <<"lut">>)
    \o <<"refresh">>

\* The selection by epd_model in epd_set_sleep, EPD_read_temp and EPD_Display.
SetSleep(d) ==
  <<EPD_BW_213_set_sleep, EPD_BWR_213_set_sleep, EPD_BWR_154_set_sleep,
    EPD_BW_213_ice_set_sleep, EPD_BWR_350_set_sleep, EPD_BWY_350_set_sleep>>[d]
ReadTemp(d) ==
  <<EPD_BW_213_read_temp, EPD_BWR_213_read_temp, EPD_BWR_154_read_temp,
    EPD_BW_213_ice_read_temp, EPD_BWR_350_read_temp, EPD_BWY_350_read_temp>>[d]
Display(d, full) ==
  <<EPD_BW_213_Display(full), EPD_BWR_213_Display(full),
    EPD_BWR_154_Display(full), EPD_BW_213_ice_Display(full),
    EPD_BWR_350_Display(full), EPD_BWY_350_Display(full)>>[d]
-----------------------------------------------------------------------------
VARIABLES
  hw,                         \* the panel's own driver number
  epd_model,
  program,                    \* what the running driver function has yet to send
  call,                       \* "none", "detect", "display", "read_temp", "set_sleep"
  full, size,                 \* arguments of the last display
  timed_out,                  \* a wait since the last hard reset gave up
  epd_update_state, epd_temperature_is_read,
  panel

vars == <<hw, epd_model, program, call, full, size, timed_out, epd_update_state,
          epd_temperature_is_read, panel>>

\* The panel: what it does, whether its power is on and its window set, the
\* RAM address, the planes that hold the whole frame from the window's first
\* byte, the waveform, and whether temperature and refresh were got since reset.
Panels == [phase : {"ready", "busy", "refreshing", "asleep"},
           powered : BOOLEAN, window : BOOLEAN, cursor : -1..(BufferSize - 1),
           placed : SUBSET {"load", "load_old", "load_red"}, lut : BOOLEAN,
           measured : BOOLEAN, started : BOOLEAN]
Fresh == [phase |-> "ready", powered |-> FALSE, window |-> FALSE, cursor |-> -1,
          placed |-> {}, lut |-> FALSE, measured |-> FALSE, started |-> FALSE]

TypeOK ==
  /\ hw \in Drivers /\ epd_model \in Drivers \union {0}
  /\ program \in Seq(Steps)
  /\ call \in {"none", "detect", "display", "read_temp", "set_sleep"}
  /\ full \in BOOLEAN /\ size \in {4000, 5000}
  /\ timed_out \in BOOLEAN
  /\ epd_update_state \in {0, 1}
  /\ epd_temperature_is_read \in BOOLEAN
  /\ panel \in Panels

Working == panel.phase \in {"busy", "refreshing"}

\* Driver 1 alone is of another family, and takes the other level of the BUSY
\* pin for the end of the work.
OwnFamily == (epd_model = 1) <=> (hw = 1)
EPD_IS_BUSY == IF OwnFamily THEN Working ELSE ~Working
-----------------------------------------------------------------------------
(* What a step does to a panel that is ready. *)

\* A plane is written from the RAM address on, which goes round in the window;
\* a data command of driver 1 begins at the first byte by itself.
EPD_LoadImage(plane) ==
  LET from == IF epd_model = 1 THEN 0 ELSE panel.cursor
      whole == panel.window /\ from = 0 /\ size =< Window(epd_model)
  IN [panel EXCEPT
        !.placed = IF whole THEN @ \cup {plane} ELSE @ \ {plane},
        !.cursor = IF from = -1 THEN -1 ELSE (from + size) % Window(epd_model)]

Effect(step) ==
  CASE step = "sw_reset" -> [Fresh EXCEPT !.phase = "busy"]
    [] step = "power_on" -> [panel EXCEPT !.phase = "busy", !.powered = TRUE]
    [] step = "power_off" -> [panel EXCEPT !.powered = FALSE]
    [] step = "setup" -> [panel EXCEPT !.window = TRUE]
    [] step = "measure" -> [panel EXCEPT !.phase = "busy", !.powered = TRUE]
    [] step = "temperature" -> [panel EXCEPT !.measured = panel.powered]
    [] step = "cursor" -> [panel EXCEPT !.cursor = 0]
    [] step \in {"load", "load_old", "load_red"} -> EPD_LoadImage(step)
    [] step = "lut" -> [panel EXCEPT !.lut = TRUE]
    [] step = "refresh" -> [panel EXCEPT !.phase = "refreshing", !.started = TRUE]
    [] step = "sleep" -> [panel EXCEPT !.phase = "asleep"]

Tests == {"test_2", "test_3", "test_4"}

\* EPD_WriteCmd with its data.  What the other family makes of it is not known.
Send ==
  /\ program # <<>>
  /\ Head(program) \notin Tests \union {"wait", "delay"}
  /\ program' = Tail(program)
  /\ \/ panel' = IF panel.phase = "ready" THEN Effect(Head(program)) ELSE panel
     \/ ~OwnFamily /\ UNCHANGED panel
  /\ UNCHANGED <<hw, epd_model, call, full, size, timed_out, epd_update_state,
                 epd_temperature_is_read>>

\* EPD_CheckStatus and EPD_CheckStatus_inverted: to the end of the panel's work
\* or of the time; the caller cannot tell which.
Wait ==
  /\ program # <<>>
  /\ Head(program) \in {"wait", "delay"}
  /\ program' = Tail(program)
  /\ timed_out' = (timed_out \/ Working)
  /\ UNCHANGED <<hw, epd_model, call, full, size, epd_update_state,
                 epd_temperature_is_read, panel>>

\* What a ready panel answers: 2, 3 and 5 keep a waveform, 4 and 6 the status.
Passes(test) ==
  /\ panel.phase = "ready"
  /\ IF test = "test_4" THEN hw \in {4, 6} ELSE panel.lut /\ hw \in {2, 3, 5}

\* The first test that is passed decides, and driver 1 is left when none is.
Test ==
  /\ program # <<>>
  /\ Head(program) \in Tests
  /\ \/ /\ Passes(Head(program))
        /\ program' = <<>>
        /\ epd_model' = CASE Head(program) = "test_2" -> 2
                           [] Head(program) = "test_3" -> 3
                           [] Head(program) = "test_4" -> 4
     \/ /\ ~Passes(Head(program))
        /\ program' = Tail(program)
        /\ epd_model' = IF program' = <<>> THEN 1 ELSE 0
  /\ UNCHANGED <<hw, call, full, size, timed_out, epd_update_state,
                 epd_temperature_is_read, panel>>

PanelDone ==
  /\ Working
  /\ panel' = [panel EXCEPT !.phase = "ready"]
  /\ UNCHANGED <<hw, epd_model, program, call, full, size, timed_out,
                 epd_update_state, epd_temperature_is_read>>
-----------------------------------------------------------------------------
(* The callers in epd.c *)

\* A detection, a display and a reading reset the panel by its pin.
Start(function, steps) ==
  /\ call = "none"
  /\ call' = function
  /\ program' = steps
  /\ timed_out' = FALSE
  /\ panel' = Fresh
  /\ UNCHANGED <<hw, epd_model, epd_update_state, epd_temperature_is_read>>

\* What a display or a reading begins with when no driver is known.
Detect ==
  /\ epd_model = 0
  /\ Start("detect", EPD_detect_model)
  /\ UNCHANGED <<full, size>>

EPD_Display(f, s) ==
  /\ epd_model # 0
  /\ Start("display", Display(epd_model, f))
  /\ full' = f /\ size' = s

\* A redraw waits for the end of the last update, a push does not.
Redraw(f) == epd_update_state = 0 /\ EPD_Display(f, RedrawSize(epd_model))
Push == EPD_Display(TRUE, BufferSize)

EPD_read_temp ==
  /\ ~epd_temperature_is_read
  /\ epd_model # 0
  /\ Start("read_temp", ReadTemp(epd_model))
  /\ UNCHANGED <<full, size>>

\* epd_state_handler, with the level of BUSY of the driver's family.
epd_state_handler ==
  /\ call = "none"
  /\ epd_update_state = 1
  /\ ~EPD_IS_BUSY
  /\ call' = "set_sleep"
  /\ program' = SetSleep(epd_model)
  /\ UNCHANGED <<hw, epd_model, full, size, timed_out, epd_update_state,
                 epd_temperature_is_read, panel>>

\* The ends of EPD_detect_model, EPD_Display, epd_set_sleep and EPD_read_temp.
Returns(state) ==
  /\ call # "none" /\ program = <<>>
  /\ call' = "none"
  /\ epd_update_state' = state
  /\ epd_temperature_is_read' = (epd_temperature_is_read
                                 \/ call \in {"display", "read_temp"})
  /\ UNCHANGED <<hw, epd_model, program, full, size, timed_out, panel>>
\* Mutants of Return: updates are counted; epd_set_sleep leaves the update state.
ReturnCounting == Returns(IF call = "display" THEN epd_update_state + 1 ELSE 0)
ReturnUpdating == Returns(IF call = "display" THEN 1 ELSE epd_update_state)

Return == Returns(CASE call = "display" -> 1
                    [] call = "set_sleep" -> 0
                    [] OTHER -> epd_update_state)
-----------------------------------------------------------------------------
\* Any panel, with no driver known or one of its family given by command 0xE0.
Init ==
  /\ hw \in Drivers
  /\ epd_model \in Drivers \union {0} /\ (epd_model = 0 \/ OwnFamily)
  /\ program = <<>>
  /\ call = "none"
  /\ full = FALSE /\ size = 4000
  /\ timed_out = FALSE
  /\ epd_update_state = 0
  /\ epd_temperature_is_read = FALSE
  /\ panel = Fresh

Running == Send \/ Wait \/ Test \/ Return

Next ==
  \/ Running \/ PanelDone \/ epd_state_handler
  \/ Detect \/ EPD_read_temp \/ Push
  \/ \E f \in BOOLEAN : Redraw(f)

\* A driver function runs to its end, the main loop polls, the panel's work ends.
Fairness == WF_vars(Running) /\ WF_vars(epd_state_handler) /\ WF_vars(PanelDone)

Spec == Init /\ [][Next]_vars
FairSpec == Spec /\ Fairness
-----------------------------------------------------------------------------
(* Properties *)

\* What epd.c takes a driver to do when no wait gave up: a display leaves a
\* panel that refreshes or has, having read the temperature; a reading leaves
\* one asleep, having read it too; a sleep finds it ready and leaves it asleep.
PromiseKept ==
  OwnFamily /\ program = <<>> /\ ~timed_out =>
    /\ call = "display" => panel.started /\ panel.measured
    /\ call = "read_temp" => panel.phase = "asleep" /\ panel.measured
    /\ call = "set_sleep" => panel.phase = "asleep" /\ panel.started

\* A detection selects a driver of the panel's family, unless the panel needed
\* longer for a reset than the fixed time it is given.
DetectsFamily ==
  call = "detect" /\ program = <<>> /\ ~timed_out => OwnFamily

\* A panel only refreshes with its whole frame in every plane the driver writes,
\* each from the window's first byte, and with the partial waveform for partial
\* refreshes alone, unless a wait gave up or the frame is larger than the window.
RefreshPrepared ==
  OwnFamily /\ panel.phase = "refreshing" /\ ~timed_out /\ size =< Window(epd_model) =>
    /\ "load" \in panel.placed
    /\ epd_model \in {2, 3, 5} => "load_red" \in panel.placed
    /\ epd_model = 1 /\ ~full => "load_old" \in panel.placed
    /\ panel.lut = ~full

\* Every update ends with the panel asleep and forgotten by epd_state_handler,
\* also after waits that gave up and commands that were lost, unless pushes keep
\* coming.  (A reading whose wait gave up may leave the panel awake.)
UpdateEnds ==
  <>[][~Push]_vars =>
    (epd_update_state = 1 /\ OwnFamily ~> epd_update_state = 0 /\ panel.phase = "asleep")
=============================================================================
