-------------------------- MODULE PanelDriversProofs --------------------------
(* What the driver functions leave in the panel, proved of PanelDrivers: an *)
(* invariant that relates the panel to the part of the running function     *)
(* that has been sent.                                                      *)
EXTENDS PanelDrivers, TLAPS, SequenceTheorems

(* The running function *)

Works == {"sw_reset", "power_on", "measure"}
Loads == {"load", "load_old", "load_red"}

\* All of what the running function sends.
Script ==
  CASE call = "none" -> <<>>
    [] call = "detect" -> EPD_detect_model
    [] call = "display" -> Display(epd_model, full)
    [] call = "read_temp" -> ReadTemp(epd_model)
    [] call = "set_sleep" -> SetSleep(epd_model)

\* How many steps of it have been sent, whether one of them is among these, and
\* whether it is the last of these.
sent == Len(Script) - Len(program)
Done(step) == \E i \in 1..sent : Script[i] = step
Just(step) == sent > 0 /\ Script[sent] = step

\* What is left to send is the end of the function.
Remaining ==
  /\ Len(program) =< Len(Script)
  /\ \A i \in 1..Len(program) : program[i] = Script[sent + i]
  /\ call \in {"display", "read_temp", "set_sleep"} => epd_model \in Drivers

\* An update under way excludes a detection and a reading.
Updating ==
  /\ epd_update_state = 1 => epd_temperature_is_read /\ epd_model \in Drivers
  /\ call \in {"detect", "read_temp"} => epd_update_state = 0

Detecting ==
  call = "detect" =>
    /\ panel.phase \in {"ready", "busy"}
    /\ program # <<>> => epd_model = 0
    /\ program # <<>> /\ ~timed_out /\ hw # 1 =>
         /\ panel.phase = "busy" => Just("sw_reset")
         /\ Just("lut") => panel.lut
         /\ hw \in {2, 3, 5} => sent < 4

\* The panel has got every step of a display or a reading.
Kept == OwnFamily /\ ~timed_out
Driven ==
  /\ panel.phase = "busy" => \E step \in Works : Just(step)
  /\ panel.phase = "refreshing" => Just("refresh")
  /\ panel.phase = "asleep" <=> Just("sleep")
  /\ Done("setup") => panel.window
  /\ Done("lut") <=> panel.lut
  /\ Done("refresh") => panel.started
  /\ \A step \in {"power_on", "measure"} : Just(step) => panel.powered
  /\ \A step \in {"power_on", "measure"} :
       Just("wait") /\ sent > 1 /\ Script[sent - 1] = step => panel.powered
  /\ Done("temperature") => panel.measured
  /\ Just("cursor") => panel.cursor = 0
  /\ size =< Window(epd_model) =>
       \A plane \in Loads : Done(plane) => plane \in panel.placed
Driving == call \in {"display", "read_temp"} /\ Kept => Driven

Sleeping ==
  /\ call = "set_sleep" /\ Kept =>
       /\ panel.started
       /\ panel.phase \in {"ready", "asleep"}
       /\ Just("sleep") => panel.phase = "asleep"
  /\ call = "none" /\ Kept /\ epd_update_state = 1 => panel.started

IInv ==
  /\ TypeOK /\ Remaining /\ Updating /\ Detecting /\ Driving /\ Sleeping
  /\ DetectsFamily /\ RefreshPrepared
-----------------------------------------------------------------------------
(* The driver functions *)

\* A function waits after each piece of work, reads the temperature after a
\* measurement, resets only first, and refreshes or sleeps only last.
Paced(s) ==
  /\ s \in Seq(Steps \ (Tests \union {"delay"}))
  /\ \A i \in 1..Len(s) :
       /\ s[i] \in Works => i < Len(s) /\ s[i + 1] = "wait"
       /\ s[i] \in {"refresh", "sleep"} => i = Len(s)
       /\ s[i] = "sw_reset" => i = 1
       /\ s[i] = "temperature" =>
            i > 2 /\ s[i - 1] = "wait" /\ s[i - 2] \in {"power_on", "measure"}

\* It sets the window before a plane and, but for driver 1, the RAM address.
Aimed(s, d) ==
  \A i \in 1..Len(s) :
    s[i] \in Loads =>
      /\ \E j \in 1..(i - 1) : s[j] = "setup"
      /\ d # 1 => i > 1 /\ s[i - 1] = "cursor"

Has(s, step) == \E i \in 1..Len(s) : s[i] = step

\* A display writes its planes and the waveform it refreshes with; a reading
\* ends by a sleep.
Draws(s, d, f) ==
  /\ Has(s, "temperature") /\ Has(s, "refresh") /\ ~Has(s, "sleep")
  /\ Has(s, "load")
  /\ d \in {2, 3, 5} => Has(s, "load_red")
  /\ d = 1 /\ ~f => Has(s, "load_old")
  /\ Has(s, "lut") <=> ~f

Reads(s) ==
  /\ Has(s, "temperature") /\ ~Has(s, "refresh")
  /\ Len(s) > 0 /\ s[Len(s)] = "sleep"

Joins(s, t, u) ==
  /\ s \in Seq(Steps) /\ t \in Seq(Steps) /\ u \in Seq(Steps)
  /\ Len(u) = Len(s) + Len(t)
  /\ \A i \in 1..Len(s) : u[i] = s[i]
  /\ \A i \in 1..Len(t) : u[Len(s) + i] = t[i]

\* A concatenation, position by position.
LEMMA Joined == ASSUME NEW s, NEW t, NEW u, Joins(s, t, u) PROVE s \o t = u
<1>1. s \in Seq(Steps) /\ t \in Seq(Steps) /\ u \in Seq(Steps)
  BY DEF Joins
<1>2. /\ s \o t \in Seq(Steps) /\ Len(s \o t) = Len(u)
      /\ \A i \in 1..(Len(s) + Len(t)) :
           (s \o t)[i] = IF i =< Len(s) THEN s[i] ELSE t[i - Len(s)]
  BY <1>1, ConcatProperties DEF Joins
<1>3. ASSUME NEW i \in 1..Len(u) PROVE (s \o t)[i] = u[i]
  <2>1. CASE i =< Len(s)
    BY <1>1, <1>2, <2>1, LenProperties DEF Joins
  <2>2. CASE ~(i =< Len(s))
    <3>1. i - Len(s) \in 1..Len(t) /\ Len(s) + (i - Len(s)) = i
      BY <1>1, <2>2, LenProperties DEF Joins
    <3>2. QED
      BY <1>1, <1>2, <2>2, <3>1, LenProperties DEF Joins
  <2>3. QED
    BY <2>1, <2>2
<1>4. QED
  BY <1>1, <1>2, <1>3, SeqEqual

\* Their beginnings and, by the first driver that has it, the whole functions.
TwoReadings ==
  <<"sw_reset", "wait", "setup", "measure", "wait", "temperature", "measure",
    "wait", "setup">>
PowerSetup == <<"power_on", "wait", "temperature", "setup">>
OldPlane == <<"power_on", "wait", "temperature", "setup", "lut", "load_old">>
BothPlanes ==
  <<"sw_reset", "wait", "setup", "measure", "wait", "temperature", "cursor",
    "load", "cursor", "load_red">>
BothPlanesLut ==
  <<"sw_reset", "wait", "setup", "measure", "wait", "temperature", "cursor",
    "load", "cursor", "load_red", "lut">>
OnePlane ==
  <<"sw_reset", "wait", "setup", "measure", "wait", "temperature", "measure",
    "wait", "setup", "cursor", "load">>
OnePlaneLut ==
  <<"sw_reset", "wait", "setup", "measure", "wait", "temperature", "measure",
    "wait", "setup", "cursor", "load", "lut">>
Full1 == <<"power_on", "wait", "temperature", "setup", "load", "refresh">>
Partial1 ==
  <<"power_on", "wait", "temperature", "setup", "lut", "load_old", "load",
    "refresh">>
Full2 ==
  <<"sw_reset", "wait", "setup", "measure", "wait", "temperature", "cursor",
    "load", "cursor", "load_red", "refresh">>
Partial2 ==
  <<"sw_reset", "wait", "setup", "measure", "wait", "temperature", "cursor",
    "load", "cursor", "load_red", "lut", "refresh">>
Full4 ==
  <<"sw_reset", "wait", "setup", "measure", "wait", "temperature", "measure",
    "wait", "setup", "cursor", "load", "refresh">>
Partial4 ==
  <<"sw_reset", "wait", "setup", "measure", "wait", "temperature", "measure",
    "wait", "setup", "cursor", "load", "lut", "refresh">>
Read1 == <<"power_on", "wait", "temperature", "power_off", "sleep">>
Read2 ==
  <<"sw_reset", "wait", "setup", "measure", "wait", "temperature", "sleep">>
Read4 ==
  <<"sw_reset", "wait", "setup", "measure", "wait", "temperature", "measure",
    "wait", "setup", "sleep">>

LEMMA Beginnings ==
  /\ Reading \o Again = TwoReadings
  /\ PowerOnReading \o <<"setup">> = PowerSetup
  /\ PowerSetup \o <<"lut", "load_old">> = OldPlane
  /\ Reading \o Planes = BothPlanes
  /\ BothPlanes \o <<"lut">> = BothPlanesLut
  /\ TwoReadings \o <<"cursor", "load">> = OnePlane
  /\ OnePlane \o <<"lut">> = OnePlaneLut
<1>1. Joins(Reading, Again, TwoReadings)
  BY DEF Joins, Steps, Again, Reading, TwoReadings
<1>2. Joins(PowerOnReading, <<"setup">>, PowerSetup)
  BY DEF Joins, Steps, PowerOnReading, PowerSetup
<1>3. Joins(PowerSetup, <<"lut", "load_old">>, OldPlane)
  BY DEF Joins, Steps, OldPlane, PowerSetup
<1>4. Joins(Reading, Planes, BothPlanes)
  BY DEF Joins, Steps, BothPlanes, Planes, Reading
<1>5. Joins(BothPlanes, <<"lut">>, BothPlanesLut)
  BY DEF Joins, Steps, BothPlanes, BothPlanesLut
<1>6. Joins(TwoReadings, <<"cursor", "load">>, OnePlane)
  BY DEF Joins, Steps, OnePlane, TwoReadings
<1>7. Joins(OnePlane, <<"lut">>, OnePlaneLut)
  BY DEF Joins, Steps, OnePlane, OnePlaneLut
<1>8. QED
  BY <1>1, <1>2, <1>3, <1>4, <1>5, <1>6, <1>7, Joined

LEMMA Endings ==
  /\ PowerSetup \o <<"load", "refresh">> = Full1
  /\ OldPlane \o <<"load", "refresh">> = Partial1
  /\ BothPlanes \o <<"refresh">> = Full2
  /\ BothPlanesLut \o <<"refresh">> = Partial2
  /\ OnePlane \o <<"refresh">> = Full4
  /\ OnePlaneLut \o <<"refresh">> = Partial4
  /\ PowerOnReading \o <<"power_off", "sleep">> = Read1
  /\ Reading \o <<"sleep">> = Read2
  /\ TwoReadings \o <<"sleep">> = Read4
<1>1. Joins(PowerSetup, <<"load", "refresh">>, Full1)
  BY DEF Joins, Steps, Full1, PowerSetup
<1>2. Joins(OldPlane, <<"load", "refresh">>, Partial1)
  BY DEF Joins, Steps, OldPlane, Partial1
<1>3. Joins(BothPlanes, <<"refresh">>, Full2)
  BY DEF Joins, Steps, BothPlanes, Full2
<1>4. Joins(BothPlanesLut, <<"refresh">>, Partial2)
  BY DEF Joins, Steps, BothPlanesLut, Partial2
<1>5. Joins(OnePlane, <<"refresh">>, Full4)
  BY DEF Joins, Steps, Full4, OnePlane
<1>6. Joins(OnePlaneLut, <<"refresh">>, Partial4)
  BY DEF Joins, Steps, OnePlaneLut, Partial4
<1>7. Joins(PowerOnReading, <<"power_off", "sleep">>, Read1)
  BY DEF Joins, Steps, PowerOnReading, Read1
<1>8. Joins(Reading, <<"sleep">>, Read2)
  BY DEF Joins, Steps, Read2, Reading
<1>9. Joins(TwoReadings, <<"sleep">>, Read4)
  BY DEF Joins, Steps, Read4, TwoReadings
<1>10. QED
  BY <1>1, <1>2, <1>3, <1>4, <1>5, <1>6, <1>7, <1>8, <1>9, Joined

\* Drivers 2, 3 and 5 draw alike, and so do 4 and 6.
LEMMA DisplaysSpelled ==
  ASSUME NEW f \in BOOLEAN
  PROVE  /\ Display(1, f) = IF f THEN Full1 ELSE Partial1
         /\ \A d \in {2, 3, 5} : Display(d, f) = IF f THEN Full2 ELSE Partial2
         /\ \A d \in {4, 6} : Display(d, f) = IF f THEN Full4 ELSE Partial4
<1>1. /\ PowerSetup \o <<>> = PowerSetup
      /\ BothPlanes \o <<>> = BothPlanes
      /\ OnePlane \o <<>> = OnePlane
  <2>1. PowerSetup \in Seq(Steps) /\ BothPlanes \in Seq(Steps) /\ OnePlane \in Seq(Steps)
    BY DEF PowerSetup, BothPlanes, OnePlane, Steps
  <2>2. QED
    BY <2>1, ConcatEmptySeq
<1>2. Display(1, f) = IF f THEN Full1 ELSE Partial1
  <2>1. Display(1, f) = EPD_BW_213_Display(f)
    BY DEF Display
  <2>2. QED
    BY <1>1, <2>1, Beginnings, Endings DEF EPD_BW_213_Display, Partial
<1>3. ASSUME NEW d \in {2, 3, 5}
      PROVE  Display(d, f) = IF f THEN Full2 ELSE Partial2
  <2>1. Display(d, f) = Reading \o Planes \o Partial(f, <<"lut">>) \o <<"refresh">>
    BY DEF Display, EPD_BWR_213_Display, EPD_BWR_154_Display, EPD_BWR_350_Display
  <2>2. QED
    BY <1>1, <2>1, Beginnings, Endings DEF Partial
<1>4. ASSUME NEW d \in {4, 6}
      PROVE  Display(d, f) = IF f THEN Full4 ELSE Partial4
  <2>1. Display(d, f) = Reading \o Again \o <<"cursor", "load">>
                          \o Partial(f, <<"lut">>) \o <<"refresh">>
    BY DEF Display, EPD_BW_213_ice_Display, EPD_BWY_350_Display
  <2>2. QED
    BY <1>1, <2>1, Beginnings, Endings DEF Partial
<1>5. QED
  BY <1>2, <1>3, <1>4

LEMMA ReadingsSpelled ==
  /\ ReadTemp(1) = Read1
  /\ \A d \in {2, 3, 5} : ReadTemp(d) = Read2
  /\ \A d \in {4, 6} : ReadTemp(d) = Read4
<1>1. ReadTemp(1) = PowerOnReading \o <<"power_off", "sleep">>
  BY DEF ReadTemp, EPD_BW_213_read_temp
<1>2. \A d \in {2, 3, 5} : ReadTemp(d) = Reading \o <<"sleep">>
  BY DEF ReadTemp, EPD_BWR_213_read_temp, EPD_BWR_154_read_temp, EPD_BWR_350_read_temp
<1>3. \A d \in {4, 6} : ReadTemp(d) = Reading \o Again \o <<"sleep">>
  BY DEF ReadTemp, EPD_BW_213_ice_read_temp, EPD_BWY_350_read_temp
<1>4. QED
  BY <1>1, <1>2, <1>3, Beginnings, Endings

\* Every display is paced and aimed, and draws a whole picture.
LEMMA DisplayOrder ==
  ASSUME NEW d \in Drivers, NEW f \in BOOLEAN
  PROVE  Paced(Display(d, f)) /\ Aimed(Display(d, f), d) /\ Draws(Display(d, f), d, f)
<1>1. /\ Paced(Full1) /\ Aimed(Full1, 1) /\ Draws(Full1, 1, TRUE)
      /\ Paced(Partial1) /\ Aimed(Partial1, 1) /\ Draws(Partial1, 1, FALSE)
  <2>1. Paced(Full1) /\ Paced(Partial1)
    BY DEF Paced, Full1, Partial1, Steps, Tests, Works
  <2>2. Aimed(Full1, 1) /\ Aimed(Partial1, 1)
    BY DEF Aimed, Full1, Partial1, Loads
  <2>3. Draws(Full1, 1, TRUE) /\ Draws(Partial1, 1, FALSE)
    BY DEF Draws, Has, Full1, Partial1
  <2>4. QED
    BY <2>1, <2>2, <2>3
<1>2. ASSUME NEW e \in {2, 3, 5}
      PROVE  /\ Paced(Full2) /\ Aimed(Full2, e) /\ Draws(Full2, e, TRUE)
             /\ Paced(Partial2) /\ Aimed(Partial2, e) /\ Draws(Partial2, e, FALSE)
  <2>1. Paced(Full2) /\ Paced(Partial2)
    BY DEF Paced, Full2, Partial2, Steps, Tests, Works
  <2>2. Aimed(Full2, e) /\ Aimed(Partial2, e)
    BY DEF Aimed, Full2, Partial2, Loads
  <2>3. Draws(Full2, e, TRUE) /\ Draws(Partial2, e, FALSE)
    BY DEF Draws, Has, Full2, Partial2
  <2>4. QED
    BY <2>1, <2>2, <2>3
<1>3. ASSUME NEW e \in {4, 6}
      PROVE  /\ Paced(Full4) /\ Aimed(Full4, e) /\ Draws(Full4, e, TRUE)
             /\ Paced(Partial4) /\ Aimed(Partial4, e) /\ Draws(Partial4, e, FALSE)
  <2>1. Paced(Full4) /\ Paced(Partial4)
    BY DEF Paced, Full4, Partial4, Steps, Tests, Works
  <2>2. Aimed(Full4, e) /\ Aimed(Partial4, e)
    BY DEF Aimed, Full4, Partial4, Loads
  <2>3. Draws(Full4, e, TRUE) /\ Draws(Partial4, e, FALSE)
    BY DEF Draws, Has, Full4, Partial4
  <2>4. QED
    BY <2>1, <2>2, <2>3
<1>4. d = 1 \/ d \in {2, 3, 5} \/ d \in {4, 6}
  BY DEF Drivers
<1>5. QED
  BY <1>1, <1>2, <1>3, <1>4, DisplaysSpelled

\* Every reading is paced, writes no plane and ends asleep.
LEMMA ReadingOrder ==
  ASSUME NEW d \in Drivers
  PROVE  Paced(ReadTemp(d)) /\ Aimed(ReadTemp(d), d) /\ Reads(ReadTemp(d))
<1>1. Paced(Read1) /\ Paced(Read2) /\ Paced(Read4)
  BY DEF Paced, Read1, Read2, Read4, Steps, Tests, Works
<1>2. Aimed(Read1, d) /\ Aimed(Read2, d) /\ Aimed(Read4, d)
  BY DEF Aimed, Read1, Read2, Read4, Loads
<1>3. Reads(Read1) /\ Reads(Read2) /\ Reads(Read4)
  BY DEF Reads, Has, Read1, Read2, Read4
<1>4. d = 1 \/ d \in {2, 3, 5} \/ d \in {4, 6}
  BY DEF Drivers
<1>5. QED
  BY <1>1, <1>2, <1>3, <1>4, ReadingsSpelled

\* A sleep has one step that matters, the last one.
LEMMA SleepOrder ==
  ASSUME NEW d \in Drivers
  PROVE  /\ SetSleep(d) \in Seq({"power_off", "sleep"})
         /\ Len(SetSleep(d)) > 0 /\ SetSleep(d)[Len(SetSleep(d))] = "sleep"
<1>1. SetSleep(d) = IF d = 1 THEN <<"power_off", "sleep">> ELSE <<"sleep">>
  BY DEF Drivers, SetSleep, EPD_BW_213_set_sleep, EPD_BWR_213_set_sleep,
         EPD_BWR_154_set_sleep, EPD_BW_213_ice_set_sleep, EPD_BWR_350_set_sleep,
         EPD_BWY_350_set_sleep
<1>2. QED
  BY <1>1

TwoTests ==
  <<"sw_reset", "delay", "lut", "test_2", "sw_reset", "delay", "lut", "test_3">>
ThreeTests ==
  <<"sw_reset", "delay", "lut", "test_2", "sw_reset", "delay", "lut", "test_3",
    "sw_reset", "delay", "test_4">>

\* The detection tries the two waveforms and then the status.
LEMMA DetectionSpelled == EPD_detect_model = ThreeTests
<1>1. /\ EPD_BWR_213_detect = <<"sw_reset", "delay", "lut", "test_2">>
      /\ EPD_BWR_154_detect = <<"sw_reset", "delay", "lut", "test_3">>
  BY DEF EPD_BWR_213_detect, EPD_BWR_154_detect, LutTest
<1>2. Joins(<<"sw_reset", "delay", "lut", "test_2">>,
            <<"sw_reset", "delay", "lut", "test_3">>, TwoTests)
  BY DEF Joins, Steps, TwoTests
<1>3. Joins(TwoTests, EPD_BW_213_ice_detect, ThreeTests)
  BY DEF Joins, Steps, TwoTests, EPD_BW_213_ice_detect, ThreeTests
<1>4. EPD_BWR_213_detect \o EPD_BWR_154_detect = TwoTests
  BY <1>1, <1>2, Joined
<1>5. TwoTests \o EPD_BW_213_ice_detect = ThreeTests
  BY <1>3, Joined
<1>6. QED
  BY <1>4, <1>5 DEF EPD_detect_model
-----------------------------------------------------------------------------
(* One step of the running function *)

\* What is known of the running function.
LEMMA ScriptFacts ==
  ASSUME TypeOK, Remaining
  PROVE  /\ call = "none" => Script = <<>>
         /\ call = "detect" => Script = ThreeTests
         /\ call = "display" => /\ Script = Display(epd_model, full)
                                /\ Draws(Script, epd_model, full)
         /\ call = "read_temp" => Reads(Script)
         /\ call \in {"display", "read_temp"} => Paced(Script) /\ Aimed(Script, epd_model)
         /\ call = "set_sleep" => /\ Script \in Seq({"power_off", "sleep"})
                                /\ Len(Script) > 0 /\ Script[Len(Script)] = "sleep"
<1>1. CASE call = "none"
  BY <1>1 DEF Script
<1>2. CASE call = "detect"
  BY <1>2, DetectionSpelled DEF Script
<1>3. CASE call = "display"
  BY <1>3, DisplayOrder DEF Script, Remaining, TypeOK
<1>4. CASE call = "read_temp"
  BY <1>4, ReadingOrder DEF Script, Remaining
<1>5. CASE call = "set_sleep"
  BY <1>5, SleepOrder DEF Script, Remaining
<1>6. QED
  BY <1>1, <1>2, <1>3, <1>4, <1>5 DEF TypeOK

LEMMA ScriptTyped ==
  ASSUME TypeOK, Remaining
  PROVE  Script \in Seq(Steps) /\ Len(Script) \in Nat /\ Len(program) \in Nat /\ sent \in Nat
<1>1. Script \in Seq(Steps)
  <2>1. CASE call = "none"
    <3>1. Script = <<>>
      BY <2>1, ScriptFacts
    <3>2. <<>> \in Seq(Steps)
      BY EmptySeq
    <3>3. QED
      BY <3>1, <3>2
  <2>2. CASE call = "detect"
    <3>1. Script = ThreeTests
      BY <2>2, ScriptFacts
    <3>2. ThreeTests \in Seq(Steps)
      BY DEF ThreeTests, Steps
    <3>3. QED
      BY <3>1, <3>2
  <2>3. CASE call \in {"display", "read_temp"}
    <3>1. Script \in Seq(Steps \ (Tests \union {"delay"}))
      BY <2>3, ScriptFacts DEF Paced
    <3>2. QED
      BY <3>1, SeqMonotonic
  <2>4. CASE call = "set_sleep"
    <3>1. {"power_off", "sleep"} \subseteq Steps
      BY DEF Steps
    <3>2. QED
      BY <2>4, <3>1, ScriptFacts, SeqMonotonic
  <2>5. QED
    BY <2>1, <2>2, <2>3, <2>4 DEF TypeOK
<1>2. program \in Seq(Steps)
  BY DEF TypeOK
<1>3. QED
  BY <1>1, <1>2, LenProperties DEF sent, Remaining

\* Sending the next step.
LEMMA Advance ==
  ASSUME TypeOK, Remaining, program # <<>>, program' = Tail(program),
         Script' = Script
  PROVE  /\ Head(program) = Script[sent + 1] /\ Head(program) \in Steps
         /\ program' \in Seq(Steps)
         /\ sent \in Nat /\ sent + 1 =< Len(Script) /\ sent' = sent + 1
         /\ program' = <<>> <=> sent + 1 = Len(Script)
         /\ Len(program)' =< Len(Script)'
         /\ \A i \in 1..Len(program)' : program'[i] = Script'[sent' + i]
         /\ \A step : Done(step)' <=> Done(step) \/ step = Head(program)
         /\ \A step : Just(step)' <=> step = Head(program)
<1>1. /\ Script \in Seq(Steps) /\ Len(Script) \in Nat
      /\ program \in Seq(Steps) /\ Len(program) \in Nat /\ sent \in Nat
  BY ScriptTyped DEF TypeOK
<1>2. /\ Head(program) = program[1] /\ Head(program) \in Steps
      /\ Tail(program) \in Seq(Steps) /\ Len(Tail(program)) = Len(program) - 1
      /\ \A i \in 1..Len(Tail(program)) : Tail(program)[i] = program[i + 1]
      /\ Len(program) > 0
  BY <1>1, HeadTailProperties, EmptySeq
<1>3. sent' = sent + 1 /\ sent + 1 =< Len(Script)
  BY <1>1, <1>2 DEF sent
<1>4. program[1] = Script[sent + 1]
  <2>1. 1 \in 1..Len(program)
    BY <1>1, <1>2
  <2>2. QED
    BY <2>1 DEF Remaining
<1>5. program' = <<>> <=> sent + 1 = Len(Script)
  <2>1. Tail(program) = <<>> <=> Len(program) - 1 = 0
    BY <1>2, EmptySeq
  <2>2. QED
    BY <1>1, <2>1 DEF sent
<1>6. /\ Len(program)' =< Len(Script)'
      /\ \A i \in 1..Len(program)' : program'[i] = Script'[sent' + i]
  <2>1. Len(program)' =< Len(Script)'
    BY <1>1, <1>2, <1>3 DEF Remaining
  <2>2. ASSUME NEW i \in 1..Len(program') PROVE program'[i] = Script[(sent + 1) + i]
    <3>1. /\ i \in 1..Len(Tail(program)) /\ i + 1 \in 1..Len(program)
          /\ sent + (i + 1) = (sent + 1) + i
      BY <1>1, <1>2
    <3>2. QED
      BY <1>2, <3>1 DEF Remaining
  <2>3. QED
    BY <1>3, <2>1, <2>2
<1>7. \A step : Done(step)' <=> Done(step) \/ step = Head(program)
  <2>1. \A step : Done(step)' <=> \E i \in 1..(sent + 1) : Script[i] = step
    BY <1>3 DEF Done
  <2>2. \A i : i \in 1..(sent + 1) <=> i \in 1..sent \/ i = sent + 1
    BY <1>1
  <2>3. QED
    BY <1>2, <1>4, <2>1, <2>2 DEF Done
<1>8. \A step : Just(step)' <=> step = Head(program)
  BY <1>1, <1>2, <1>3, <1>4 DEF Just
<1>9. QED
  BY <1>1, <1>2, <1>3, <1>4, <1>5, <1>6, <1>7, <1>8

\* What a step leaves of each field of a ready panel.
LEMMA Effects ==
  ASSUME panel \in Panels, panel.phase = "ready",
         NEW step \in Steps \ (Tests \union {"wait", "delay"})
  PROVE  LET new == Effect(step)
         IN  /\ new.phase = IF step \in Works THEN "busy"
                            ELSE IF step = "refresh" THEN "refreshing"
                            ELSE IF step = "sleep" THEN "asleep" ELSE "ready"
             /\ new.powered <=> (step \in {"power_on", "measure"}
                                \/ (panel.powered /\ step \notin {"sw_reset", "power_off"}))
             /\ new.window <=> (step = "setup" \/ (panel.window /\ step # "sw_reset"))
             /\ new.lut <=> (step = "lut" \/ (panel.lut /\ step # "sw_reset"))
             /\ new.started <=> (step = "refresh" \/ (panel.started /\ step # "sw_reset"))
             /\ new.measured <=> IF step = "temperature" THEN panel.powered
                                 ELSE panel.measured /\ step # "sw_reset"
             /\ step = "cursor" => new.cursor = 0
             /\ step \notin Loads \union {"sw_reset"} => new.placed = panel.placed
             /\ step \in Loads /\ size =< Window(epd_model) /\ panel.window
                 /\ (epd_model = 1 \/ panel.cursor = 0)
                => new.placed = panel.placed \union {step}
<1>1. CASE step = "sw_reset"
  BY <1>1 DEF Effect, Fresh, Works, Loads
<1>2. CASE step \in Loads
  BY <1>2 DEF Effect, EPD_LoadImage, Works, Loads, Panels
<1>3. CASE step \in {"power_on", "power_off", "setup", "measure"}
  BY <1>3 DEF Effect, Works, Loads, Panels
<1>4. CASE step \in {"temperature", "cursor", "lut", "refresh", "sleep"}
  BY <1>4 DEF Effect, Works, Loads, Panels
<1>5. QED
  BY <1>1, <1>2, <1>3, <1>4 DEF Steps, Tests, Loads

\* A display or a reading drives its panel: no step of it reaches a busy one.
LEMMA SendDriven ==
  ASSUME TypeOK, Remaining, Driving, Send,
         call \in {"display", "read_temp"}, OwnFamily, ~timed_out
  PROVE  Driven'
<1> DEFINE x == Head(program)
<1>1. Driven
  BY DEF Driving, Kept
<1>2. /\ program # <<>> /\ program' = Tail(program) /\ Script' = Script
      /\ x \notin Tests \union {"wait", "delay"} /\ epd_model' = epd_model /\ size' = size
  BY DEF Send, Script
<1>3. /\ x = Script[sent + 1] /\ x \in Steps \ (Tests \union {"wait", "delay"})
      /\ sent \in Nat /\ sent + 1 =< Len(Script) /\ sent' = sent + 1
      /\ \A step : Done(step)' <=> Done(step) \/ step = x
      /\ \A step : Just(step)' <=> step = x
  BY <1>2, Advance
<1> HIDE DEF x
<1>4. Paced(Script) /\ Aimed(Script, epd_model) /\ Len(Script) \in Nat
  BY ScriptFacts, ScriptTyped
<1>5. panel \in Panels /\ panel.phase = "ready"
  <2>1. panel.phase # "busy"
    <3> SUFFICES ASSUME panel.phase = "busy" PROVE FALSE
      OBVIOUS
    <3>1. sent > 0 /\ Script[sent] \in Works
      BY <1>1 DEF Driven, Just
    <3>2. Script[sent + 1] = "wait"
      BY <1>3, <1>4, <3>1 DEF Paced
    <3>3. QED
      BY <1>3, <3>2
  <2>2. panel.phase \notin {"refreshing", "asleep"}
    <3> SUFFICES ASSUME panel.phase \in {"refreshing", "asleep"} PROVE FALSE
      OBVIOUS
    <3>1. sent > 0 /\ Script[sent] \in {"refresh", "sleep"}
      BY <1>1 DEF Driven, Just
    <3>2. sent = Len(Script)
      BY <1>3, <1>4, <3>1 DEF Paced
    <3>3. QED
      BY <1>3, <1>4, <3>2
  <2>3. QED
    BY <2>1, <2>2 DEF TypeOK, Panels
<1> DEFINE new == Effect(x)
<1>6. panel' = new
  BY <1>5 DEF Send, x
<1>7. /\ new.phase = IF x \in Works THEN "busy"
                     ELSE IF x = "refresh" THEN "refreshing"
                     ELSE IF x = "sleep" THEN "asleep" ELSE "ready"
      /\ new.powered <=> (x \in {"power_on", "measure"}
                         \/ (panel.powered /\ x \notin {"sw_reset", "power_off"}))
      /\ new.window <=> (x = "setup" \/ (panel.window /\ x # "sw_reset"))
      /\ new.lut <=> (x = "lut" \/ (panel.lut /\ x # "sw_reset"))
      /\ new.started <=> (x = "refresh" \/ (panel.started /\ x # "sw_reset"))
      /\ new.measured <=> IF x = "temperature" THEN panel.powered
                          ELSE panel.measured /\ x # "sw_reset"
      /\ x = "cursor" => new.cursor = 0
      /\ x \notin Loads \union {"sw_reset"} => new.placed = panel.placed
      /\ x \in Loads /\ size =< Window(epd_model) /\ panel.window
          /\ (epd_model = 1 \/ panel.cursor = 0)
         => new.placed = panel.placed \union {x}
  BY <1>3, <1>5, Effects
<1> HIDE DEF new
\* A reset comes first: nothing has been done before it.
<1>8. x = "sw_reset" => \A step : ~Done(step)
  <2>1. x = "sw_reset" => sent = 0
    <3>1. sent + 1 \in 1..Len(Script)
      BY <1>3, <1>4
    <3>2. Script[sent + 1] = "sw_reset" => sent + 1 = 1
      BY <1>4, <3>1 DEF Paced
    <3>3. QED
      BY <1>3, <3>2
  <2>2. QED
    BY <2>1 DEF Done
<1>9. (new.phase = "busy" => \E step \in Works : Just(step)')
  BY <1>3, <1>7
<1>10. /\ (new.phase = "refreshing" => Just("refresh")')
       /\ (new.phase = "asleep" <=> Just("sleep")')
  BY <1>3, <1>7 DEF Works
<1>11. /\ Done("setup")' => new.window
       /\ Done("lut")' <=> new.lut
       /\ Done("refresh")' => new.started
  BY <1>1, <1>3, <1>7, <1>8 DEF Driven
<1>12. \A step \in {"power_on", "measure"} : Just(step)' => new.powered
  BY <1>3, <1>7
<1>13. Done("temperature")' => new.measured
  <2>1. CASE x = "temperature"
    <3>0. sent + 1 \in 1..Len(Script) /\ (sent + 1) - 1 = sent /\ (sent + 1) - 2 = sent - 1
      BY <1>3, <1>4
    <3>1. sent + 1 > 2 /\ Script[sent] = "wait" /\ Script[sent - 1] \in {"power_on", "measure"}
      BY <1>3, <1>4, <2>1, <3>0 DEF Paced
    <3>2. panel.powered
      BY <1>1, <1>3, <3>1 DEF Driven, Just
    <3>3. QED
      BY <1>7, <2>1, <3>2
  <2>2. CASE x # "temperature"
    BY <1>1, <1>3, <1>7, <1>8, <2>2 DEF Driven
  <2>3. QED
    BY <2>1, <2>2
<1>14. Just("cursor")' => new.cursor = 0
  BY <1>3, <1>7
<1>15. size =< Window(epd_model) =>
         \A plane \in Loads : Done(plane)' => plane \in new.placed
  <2> SUFFICES ASSUME size =< Window(epd_model), NEW plane \in Loads, Done(plane)'
               PROVE  plane \in new.placed
    OBVIOUS
  <2>1. CASE x \in Loads
    <3>1. PICK j \in 1..((sent + 1) - 1) : Script[j] = "setup"
      BY <1>3, <1>4, <2>1 DEF Aimed
    <3>2. panel.window
      BY <1>1, <1>3, <3>1 DEF Driven, Done
    <3>3. epd_model # 1 => sent + 1 > 1 /\ Script[(sent + 1) - 1] = "cursor"
      BY <1>3, <1>4, <2>1 DEF Aimed
    <3>4. epd_model = 1 \/ panel.cursor = 0
      BY <1>1, <1>3, <3>3 DEF Driven, Just
    <3>5. new.placed = panel.placed \union {x}
      BY <1>7, <2>1, <3>2, <3>4
    <3>6. QED
      BY <1>1, <1>3, <3>5 DEF Driven
  <2>2. CASE x \notin Loads
    BY <1>1, <1>3, <1>7, <1>8, <2>2 DEF Driven
  <2>3. QED
    BY <2>1, <2>2
<1>16. ~Just("wait")'
  BY <1>3
<1>17. QED
  BY <1>2, <1>6, <1>9, <1>10, <1>11, <1>12, <1>13, <1>14, <1>15, <1>16 DEF Driven

\* Each window fits in the buffer.
LEMMA Windows ==
  /\ BufferSize \in Nat \ {0}
  /\ \A d \in Drivers : Window(d) \in Nat \ {0} /\ Window(d) =< BufferSize
<1>1. BufferSize \in Nat \ {0}
  BY DEF BufferSize
<1>2. ASSUME NEW d \in Drivers PROVE Window(d) \in Nat \ {0} /\ Window(d) =< 5000
  <2>1. d \in {1, 2, 3, 4, 5, 6}
    BY DEF Drivers
  <2>2. QED
    BY <2>1 DEF Window
<1>3. QED
  BY <1>1, <1>2 DEF BufferSize

LEMMA EffectTyped ==
  ASSUME panel \in Panels, size \in Nat,
         NEW step \in Steps \ (Tests \union {"wait", "delay"}),
         step \in Loads => epd_model \in Drivers
  PROVE  Effect(step) \in Panels
<1>0. /\ BufferSize \in Nat \ {0}
      /\ -1 \in -1..(BufferSize - 1) /\ 0 \in -1..(BufferSize - 1)
  BY Windows
<1>1. CASE step \in Loads
  <2> DEFINE from == IF epd_model = 1 THEN 0 ELSE panel.cursor
             next == IF from = -1 THEN -1 ELSE (from + size) % Window(epd_model)
  <2>1. Window(epd_model) \in Nat \ {0} /\ Window(epd_model) =< BufferSize
    BY <1>1, Windows
  <2>2. from \in Int /\ (from = -1 \/ from \in Nat)
    BY <1>0 DEF Panels
  <2> HIDE DEF from
  <2>3. next \in Int /\ next >= -1 /\ next =< BufferSize - 1
    <3>1. CASE from = -1
      BY <1>0, <3>1
    <3>2. CASE from # -1
      <4>1. from + size \in Nat
        BY <2>2, <3>2
      <4>2. (from + size) % Window(epd_model) \in 0..(Window(epd_model) - 1)
        BY <2>1, <4>1
      <4>3. QED
        BY <1>0, <2>1, <3>2, <4>2
    <3>3. QED
      BY <3>1, <3>2
  <2>4. \E new \in SUBSET {"load", "load_old", "load_red"} :
          Effect(step) = [panel EXCEPT !.placed = new, !.cursor = next]
    <3>1. Effect(step) = EPD_LoadImage(step)
      BY <1>1 DEF Effect, Loads
    <3> DEFINE whole == panel.window /\ from = 0 /\ size =< Window(epd_model)
               new == IF whole THEN panel.placed \union {step} ELSE panel.placed \ {step}
    <3>2. EPD_LoadImage(step) = [panel EXCEPT !.placed = new, !.cursor = next]
      BY DEF EPD_LoadImage, from
    <3>3. new \in SUBSET {"load", "load_old", "load_red"}
      BY <1>1 DEF Loads, Panels
    <3> HIDE DEF new, next
    <3>4. QED
      BY <3>1, <3>2, <3>3
  <2> HIDE DEF next
  <2>5. PICK new \in SUBSET {"load", "load_old", "load_red"} :
          Effect(step) = [panel EXCEPT !.placed = new, !.cursor = next]
    BY <2>4
  <2>6. next \in -1..(BufferSize - 1)
    BY <1>0, <2>3
  <2>7. QED
    BY <2>5, <2>6 DEF Panels
<1>2. CASE step = "sw_reset"
  <2>1. Effect(step) = [Fresh EXCEPT !.phase = "busy"]
    BY <1>2 DEF Effect
  <2>2. Fresh \in Panels
    BY <1>0 DEF Fresh, Panels
  <2>3. QED
    BY <2>1, <2>2 DEF Panels
<1>3. CASE step \in {"power_on", "power_off", "measure"}
  <2>1. \/ Effect(step) = [panel EXCEPT !.phase = "busy", !.powered = TRUE]
        \/ Effect(step) = [panel EXCEPT !.powered = FALSE]
    BY <1>3 DEF Effect
  <2>2. QED
    BY <2>1 DEF Panels
<1>4. CASE step \in {"setup", "temperature", "lut"}
  <2>1. \/ Effect(step) = [panel EXCEPT !.window = TRUE]
        \/ Effect(step) = [panel EXCEPT !.measured = panel.powered]
        \/ Effect(step) = [panel EXCEPT !.lut = TRUE]
    BY <1>4 DEF Effect
  <2>2. QED
    BY <2>1 DEF Panels
<1>5. CASE step \in {"cursor", "refresh", "sleep"}
  <2>1. \/ Effect(step) = [panel EXCEPT !.cursor = 0]
        \/ Effect(step) = [panel EXCEPT !.phase = "refreshing", !.started = TRUE]
        \/ Effect(step) = [panel EXCEPT !.phase = "asleep"]
    BY <1>5 DEF Effect
  <2>2. [panel EXCEPT !.cursor = 0] \in Panels
    BY <1>0 DEF Panels
  <2>3. /\ [panel EXCEPT !.phase = "refreshing", !.started = TRUE] \in Panels
        /\ [panel EXCEPT !.phase = "asleep"] \in Panels
    BY DEF Panels
  <2>4. QED
    BY <2>1, <2>2, <2>3
<1>6. QED
  BY <1>1, <1>2, <1>3, <1>4, <1>5 DEF Steps, Tests, Loads

\* Planes are written by displays, tests are done by detections.
LEMMA Callers ==
  ASSUME TypeOK, Remaining, program # <<>>
  PROVE  /\ call # "none"
         /\ Head(program) \in Loads => epd_model \in Drivers
         /\ Head(program) \in Tests => call = "detect"
         /\ call = "set_sleep" => Head(program) \in {"power_off", "sleep"}
         /\ call \in {"display", "read_temp"} => Head(program) # "delay"
<1>1. /\ Len(program) \in Nat /\ Len(Script) \in Nat /\ Len(program) > 0 /\ sent \in Nat
      /\ program \in Seq(Steps)
  BY ScriptTyped, EmptySeq DEF TypeOK
<1>2. sent + 1 \in 1..Len(Script) /\ Head(program) = Script[sent + 1]
  <2>1. 1 \in 1..Len(program)
    BY <1>1
  <2>2. QED
    BY <1>1, <2>1 DEF Remaining, sent
<1>3. call # "none"
  BY <1>1, ScriptFacts DEF Remaining
<1>4. CASE call = "detect"
  <2>1. \A i \in 1..Len(ThreeTests) : ThreeTests[i] \notin Loads
    BY DEF ThreeTests, Loads
  <2>2. QED
    BY <1>2, <1>3, <1>4, <2>1, ScriptFacts
<1>5. CASE call \in {"display", "read_temp"}
  <2>1. Script[sent + 1] \in Steps \ (Tests \union {"delay"})
    BY <1>2, <1>5, ScriptFacts, ElementOfSeq DEF Paced
  <2>2. QED
    BY <1>2, <1>3, <1>5, <2>1 DEF Remaining
<1>6. CASE call = "set_sleep"
  <2>1. Script[sent + 1] \in {"power_off", "sleep"}
    BY <1>2, <1>6, ScriptFacts, ElementOfSeq
  <2>2. QED
    BY <1>2, <1>3, <1>6, <2>1 DEF Loads, Tests, Remaining
<1>7. QED
  BY <1>3, <1>4, <1>5, <1>6 DEF TypeOK

\* A display that refreshes has come to its end, and so has written every plane.
LEMMA DrivenPrepared ==
  ASSUME TypeOK, Remaining, Driving, call \in {"display", "read_temp"}
  PROVE  RefreshPrepared
<1> SUFFICES ASSUME OwnFamily, panel.phase = "refreshing", ~timed_out,
                    size =< Window(epd_model)
             PROVE  /\ "load" \in panel.placed
                    /\ epd_model \in {2, 3, 5} => "load_red" \in panel.placed
                    /\ epd_model = 1 /\ ~full => "load_old" \in panel.placed
                    /\ panel.lut = ~full
  BY DEF RefreshPrepared
<1>1. Driven /\ Paced(Script) /\ Len(Script) \in Nat /\ sent \in Nat
  BY ScriptFacts, ScriptTyped DEF Driving, Kept
<1>2. sent > 0 /\ Script[sent] = "refresh"
  BY <1>1 DEF Driven, Just
<1>3. sent =< Len(Script)
  BY ScriptTyped DEF sent
<1>4. sent = Len(Script)
  BY <1>1, <1>2, <1>3 DEF Paced
<1>5. \A step : Done(step) <=> Has(Script, step)
  BY <1>4 DEF Done, Has
<1>6. call = "display"
  BY <1>2, <1>4, <1>5, ScriptFacts DEF Reads, Has
<1>7. Draws(Script, epd_model, full)
  BY <1>6, ScriptFacts
<1>8. QED
  BY <1>1, <1>5, <1>7 DEF Draws, Driven, Loads, TypeOK, Panels

\* The same of the next state.
LEMMA DrivenPreparedNext ==
  (TypeOK /\ Remaining /\ Driving /\ call \in {"display", "read_temp"}
     => RefreshPrepared)'
<1>1. TypeOK /\ Remaining /\ Driving /\ call \in {"display", "read_temp"}
        => RefreshPrepared
  BY DrivenPrepared
<1>2. QED
  BY <1>1, PTL
-----------------------------------------------------------------------------
(* The invariant *)

\* What a frame can be long.
FrameSizes == {4000, 5000}

\* Each action keeps the invariant.  Sending:
LEMMA SendKeeps == ASSUME IInv, Send PROVE IInv'
<1> DEFINE x == Head(program)
<1>1. /\ TypeOK /\ Remaining /\ Updating /\ Detecting /\ Driving /\ Sleeping
      /\ DetectsFamily /\ RefreshPrepared
  BY DEF IInv
<1>2. /\ program # <<>> /\ program' = Tail(program) /\ Script' = Script
      /\ x \notin Tests \union {"wait", "delay"}
      /\ hw' = hw /\ epd_model' = epd_model /\ call' = call /\ full' = full
      /\ size' = size /\ timed_out' = timed_out
      /\ epd_update_state' = epd_update_state
      /\ epd_temperature_is_read' = epd_temperature_is_read
  BY DEF Send, Script
<1>3. /\ x = Script[sent + 1] /\ x \in Steps \ (Tests \union {"wait", "delay"})
      /\ program' \in Seq(Steps)
      /\ sent \in Nat /\ sent + 1 =< Len(Script) /\ sent' = sent + 1
      /\ program' = <<>> <=> sent + 1 = Len(Script)
      /\ Len(program)' =< Len(Script)'
      /\ \A i \in 1..Len(program)' : program'[i] = Script'[sent' + i]
      /\ \A step : Just(step)' <=> step = x
  BY <1>1, <1>2, Advance
<1>4. /\ call # "none"
      /\ x \in Loads => epd_model \in Drivers
      /\ call = "set_sleep" => x \in {"power_off", "sleep"}
  BY <1>1, <1>2, Callers
<1>5. \/ panel' = panel
      \/ (panel.phase = "ready" /\ panel' = Effect(x))
  BY DEF Send
<1>6. OwnFamily /\ panel.phase = "ready" => panel' = Effect(x)
  BY DEF Send
<1> HIDE DEF x
<1>7. panel.phase = "ready" =>
        /\ Effect(x).phase = IF x \in Works THEN "busy"
                     ELSE IF x = "refresh" THEN "refreshing"
                     ELSE IF x = "sleep" THEN "asleep" ELSE "ready"
        /\ Effect(x).lut <=> (x = "lut" \/ (panel.lut /\ x # "sw_reset"))
        /\ Effect(x).started <=> (x = "refresh" \/ (panel.started /\ x # "sw_reset"))
  BY <1>1, <1>3, Effects DEF TypeOK
<1>8. TypeOK'
  <2>1. panel' \in Panels
    <3>1. panel \in Panels /\ size \in Nat
      BY <1>1 DEF TypeOK
    <3>2. Effect(x) \in Panels
      BY <1>3, <1>4, <3>1, EffectTyped
    <3>3. QED
      BY <1>5, <3>1, <3>2
  <2>2. QED
    BY <1>1, <1>2, <1>3, <2>1 DEF TypeOK
<1>9. Remaining'
  BY <1>1, <1>2, <1>3 DEF Remaining
<1>10. Updating'
  BY <1>1, <1>2 DEF Updating
<1>11. OwnFamily' <=> OwnFamily
  BY <1>2 DEF OwnFamily
<1>12. Detecting' /\ DetectsFamily'
  <2> SUFFICES ASSUME call = "detect" PROVE Detecting' /\ DetectsFamily'
    BY <1>2 DEF Detecting, DetectsFamily
  <2>1. Script = ThreeTests
    BY <1>1, ScriptFacts
  <2>2. /\ Len(ThreeTests) = 11 /\ ThreeTests[11] = "test_4" /\ ThreeTests[4] = "test_2"
        /\ \A i \in 1..11 : /\ ThreeTests[i] \in {"sw_reset", "lut", "delay"} \union Tests
                            /\ ThreeTests[i] = "sw_reset" => ThreeTests[i + 1] = "delay"
    BY DEF ThreeTests, Tests
  <2>3. sent + 1 \in 1..11 /\ sent + 1 # 11 /\ sent + 1 # 4 /\ x \in {"sw_reset", "lut"}
    BY <1>2, <1>3, <2>1, <2>2 DEF Tests
  <2>4. program' # <<>>
    BY <1>3, <2>1, <2>2, <2>3
  <2>5. panel'.phase \in {"ready", "busy"}
    BY <1>1, <1>5, <1>7, <2>3 DEF Detecting
  <2>6. ASSUME ~timed_out, hw # 1
        PROVE  /\ panel'.phase = "busy" => x = "sw_reset"
               /\ x = "lut" => panel'.lut
               /\ hw \in {2, 3, 5} => sent + 1 < 4
    <3>1. epd_model = 0 /\ OwnFamily
      BY <1>1, <1>2, <2>6 DEF Detecting, OwnFamily
    <3>2. panel.phase = "ready"
      <4> SUFFICES ASSUME panel.phase = "busy" PROVE FALSE
        BY <1>1 DEF Detecting
      <4>1. sent > 0 /\ ThreeTests[sent] = "sw_reset"
        BY <1>1, <1>2, <2>1, <2>6 DEF Detecting, Just
      <4>2. sent \in 1..11
        BY <1>3, <2>3, <4>1
      <4>3. QED
        BY <1>3, <2>1, <2>2, <2>3, <4>1, <4>2
    <3>3. panel' = Effect(x)
      BY <1>6, <3>1, <3>2
    <3>4. hw \in {2, 3, 5} => sent < 4
      BY <1>1, <1>2, <2>6 DEF Detecting
    <3>5. QED
      BY <1>3, <1>7, <2>3, <3>2, <3>3, <3>4 DEF Works
  <2>7. program' # <<>> => epd_model' = 0
    BY <1>1, <1>2 DEF Detecting
  <2>8. QED
    BY <1>2, <1>3, <2>4, <2>5, <2>6, <2>7 DEF Detecting, DetectsFamily
<1>13. Driving'
  <2> SUFFICES ASSUME call \in {"display", "read_temp"}, OwnFamily, ~timed_out PROVE Driven'
    BY <1>2, <1>11 DEF Driving, Kept
  <2>1. QED
    BY <1>1, SendDriven
<1>14. Sleeping'
  <2> SUFFICES ASSUME call = "set_sleep", OwnFamily, ~timed_out
               PROVE  /\ panel'.started
                      /\ panel'.phase \in {"ready", "asleep"}
                      /\ x = "sleep" => panel'.phase = "asleep"
    BY <1>2, <1>3, <1>4, <1>11 DEF Sleeping, Kept
  <2>1. panel.started /\ panel.phase \in {"ready", "asleep"}
    BY <1>1 DEF Sleeping, Kept
  <2>2. CASE panel.phase = "ready"
    BY <1>4, <1>6, <1>7, <2>1, <2>2 DEF Works
  <2>3. CASE panel.phase = "asleep"
    BY <1>5, <2>1, <2>3
  <2>4. QED
    BY <2>1, <2>2, <2>3
<1>15. RefreshPrepared'
  <2>1. CASE call \in {"display", "read_temp"}
    BY <1>2, <1>8, <1>9, <1>13, <2>1, DrivenPreparedNext
  <2>2. CASE call = "detect"
    BY <1>2, <1>12, <2>2 DEF Detecting, RefreshPrepared
  <2>3. CASE call = "set_sleep"
    BY <1>2, <1>11, <1>14, <2>3 DEF Sleeping, Kept, RefreshPrepared
  <2>4. QED
    BY <1>1, <1>4, <2>1, <2>2, <2>3 DEF TypeOK
<1>16. QED
  BY <1>8, <1>9, <1>10, <1>12, <1>13, <1>14, <1>15 DEF IInv

\* Waiting, where a panel of another family times out:
LEMMA WaitKeeps == ASSUME IInv, Wait PROVE IInv'
<1> DEFINE x == Head(program)
<1>1. /\ TypeOK /\ Remaining /\ Updating /\ Detecting /\ Driving /\ Sleeping
      /\ DetectsFamily /\ RefreshPrepared
  BY DEF IInv
<1>2. /\ program # <<>> /\ program' = Tail(program) /\ Script' = Script
      /\ x \in {"wait", "delay"}
      /\ hw' = hw /\ epd_model' = epd_model /\ call' = call /\ full' = full
      /\ size' = size /\ timed_out' = (timed_out \/ Working)
      /\ epd_update_state' = epd_update_state /\ panel' = panel
      /\ epd_temperature_is_read' = epd_temperature_is_read
  BY DEF Wait, Script
<1>3. /\ x = Script[sent + 1]
      /\ program' \in Seq(Steps)
      /\ sent \in Nat /\ sent + 1 =< Len(Script) /\ sent' = sent + 1
      /\ program' = <<>> <=> sent + 1 = Len(Script)
      /\ Len(program)' =< Len(Script)'
      /\ \A i \in 1..Len(program)' : program'[i] = Script'[sent' + i]
      /\ \A step : Done(step)' <=> Done(step) \/ step = x
      /\ \A step : Just(step)' <=> step = x
  BY <1>1, <1>2, Advance
<1>4. /\ call \notin {"none", "set_sleep"}
      /\ call \in {"display", "read_temp"} => x = "wait"
  BY <1>1, <1>2, Callers
<1> HIDE DEF x
<1>5. TypeOK'
  BY <1>1, <1>2, <1>3 DEF TypeOK, Working
<1>6. Remaining'
  BY <1>1, <1>2, <1>3 DEF Remaining
<1>7. Updating'
  BY <1>1, <1>2 DEF Updating
<1>8. /\ OwnFamily' <=> OwnFamily
      /\ ~timed_out' => ~timed_out /\ panel.phase \notin {"busy", "refreshing"}
  <2>1. OwnFamily' <=> OwnFamily
    BY <1>2 DEF OwnFamily
  <2>2. ~timed_out' => ~timed_out /\ ~Working
    BY <1>2, Zenon
  <2>3. QED
    BY <2>1, <2>2 DEF Working
<1>9. Detecting' /\ DetectsFamily'
  <2> SUFFICES ASSUME call = "detect" PROVE Detecting' /\ DetectsFamily'
    BY <1>2 DEF Detecting, DetectsFamily
  <2>1. Script = ThreeTests
    BY <1>1, ScriptFacts
  <2>2. Len(ThreeTests) = 11 /\ ThreeTests[11] = "test_4" /\ ThreeTests[4] = "test_2"
    BY DEF ThreeTests
  <2>3. sent + 1 # 11 /\ sent + 1 # 4
    BY <1>2, <1>3, <2>1, <2>2
  <2>4. program' # <<>>
    BY <1>3, <2>1, <2>2, <2>3
  <2>5. panel.phase \in {"ready", "busy"} /\ epd_model = 0
    BY <1>1, <1>2 DEF Detecting
  <2>6. ~timed_out' /\ hw # 1 /\ hw \in {2, 3, 5} => sent < 4
    BY <1>1, <1>2, <1>8 DEF Detecting
  <2>7. x \notin {"lut", "sw_reset"}
    BY <1>2
  <2>8. ~timed_out' /\ hw # 1 /\ hw \in {2, 3, 5} => sent + 1 < 4
    BY <1>3, <2>3, <2>6
  <2>9. QED
    BY <1>2, <1>3, <1>8, <2>4, <2>5, <2>7, <2>8 DEF Detecting, DetectsFamily
<1>10. Driving'
  <2> SUFFICES ASSUME call \in {"display", "read_temp"}, OwnFamily, ~timed_out'
               PROVE  Driven'
    BY <1>2, <1>8 DEF Driving, Kept
  <2>1. Driven /\ panel.phase \notin {"busy", "refreshing"}
    BY <1>1, <1>8 DEF Driving, Kept
  <2>2. panel.phase # "asleep"
    <3> SUFFICES ASSUME panel.phase = "asleep" PROVE FALSE
      OBVIOUS
    <3>1. sent > 0 /\ Script[sent] = "sleep"
      BY <2>1 DEF Driven, Just
    <3>2. sent = Len(Script)
      BY <1>1, <1>3, <3>1, ScriptFacts, ScriptTyped DEF Paced
    <3>3. QED
      BY <1>1, <1>3, <3>2, ScriptTyped
  <2>3. x = "wait"
    BY <1>4
  <2>4. \A step : Just(step)' <=> step = "wait"
    BY <1>3, <2>3
  <2>5. \A step : step # "wait" => (Done(step)' <=> Done(step))
    BY <1>3, <2>3
  <2>6. \A step \in {"power_on", "measure"} :
          Script'[sent' - 1] = step /\ sent' > 1 => panel.powered
    <3> SUFFICES ASSUME NEW step \in {"power_on", "measure"},
                        Script'[sent' - 1] = step, sent' > 1
                 PROVE  panel.powered
      OBVIOUS
    <3>1. sent > 0 /\ Script[sent] = step
      BY <1>2, <1>3
    <3>2. QED
      BY <2>1, <3>1 DEF Driven, Just
  <2>7. size =< Window(epd_model) =>
          \A plane \in Loads : Done(plane)' => plane \in panel.placed
    BY <2>1, <2>5 DEF Driven, Loads
  <2>8. /\ Done("setup")' => panel.window
        /\ Done("lut")' <=> panel.lut
        /\ Done("refresh")' => panel.started
        /\ Done("temperature")' => panel.measured
    BY <2>1, <2>5 DEF Driven
  <2>9. QED
    BY <1>2, <2>1, <2>2, <2>4, <2>6, <2>7, <2>8 DEF Driven
<1>11. Sleeping'
  BY <1>2, <1>4 DEF Sleeping
<1>12. RefreshPrepared'
  BY <1>1, <1>2, <1>8 DEF RefreshPrepared
<1>13. QED
  BY <1>5, <1>6, <1>7, <1>9, <1>10, <1>11, <1>12 DEF IInv

\* The panel finishing its work:
LEMMA PanelDoneKeeps == ASSUME IInv, PanelDone PROVE IInv'
<1>1. /\ TypeOK /\ Remaining /\ Updating /\ Detecting /\ Driving /\ Sleeping
      /\ DetectsFamily /\ RefreshPrepared
  BY DEF IInv
<1>2. /\ panel.phase \in {"busy", "refreshing"} /\ panel' = [panel EXCEPT !.phase = "ready"]
      /\ hw' = hw /\ epd_model' = epd_model /\ call' = call /\ full' = full
      /\ program' = program /\ size' = size /\ timed_out' = timed_out
      /\ epd_update_state' = epd_update_state
      /\ epd_temperature_is_read' = epd_temperature_is_read
  BY DEF PanelDone, Working
<1>3. /\ panel' \in Panels /\ panel'.phase = "ready"
      /\ panel'.powered = panel.powered /\ panel'.window = panel.window
      /\ panel'.cursor = panel.cursor /\ panel'.placed = panel.placed
      /\ panel'.lut = panel.lut /\ panel'.measured = panel.measured
      /\ panel'.started = panel.started
  <2>1. panel \in Panels
    BY <1>1 DEF TypeOK
  <2>2. QED
    BY <1>2, <2>1 DEF Panels
<1>4. /\ Script' = Script /\ sent' = sent /\ (OwnFamily' <=> OwnFamily)
      /\ \A step : Done(step)' <=> Done(step)
      /\ \A step : Just(step)' <=> Just(step)
  BY <1>2 DEF Script, sent, OwnFamily, Done, Just
<1>5. TypeOK'
  BY <1>1, <1>2, <1>3 DEF TypeOK
<1>6. Remaining'
  BY <1>1, <1>2, <1>4 DEF Remaining
<1>7. Updating'
  BY <1>1, <1>2 DEF Updating
<1>8. Detecting' /\ DetectsFamily'
  BY <1>1, <1>2, <1>3, <1>4 DEF Detecting, DetectsFamily
<1>9. Driving'
  <2> SUFFICES ASSUME call \in {"display", "read_temp"}, OwnFamily, ~timed_out
               PROVE  Driven'
    BY <1>2, <1>4 DEF Driving, Kept
  <2>1. Driven
    BY <1>1 DEF Driving, Kept
  <2>2. ~Just("sleep")
    BY <1>2, <2>1 DEF Driven
  <2>3. QED
    BY <1>2, <1>3, <1>4, <2>1, <2>2 DEF Driven
<1>10. Sleeping'
  BY <1>1, <1>2, <1>3, <1>4 DEF Sleeping, Kept
<1>11. RefreshPrepared'
  BY <1>3 DEF RefreshPrepared
<1>12. QED
  BY <1>5, <1>6, <1>7, <1>8, <1>9, <1>10, <1>11 DEF IInv

\* A test, which may select the driver and end the detection:
LEMMA TestKeeps == ASSUME IInv, Test PROVE IInv'
<1> DEFINE x == Head(program)
<1>1. /\ TypeOK /\ Remaining /\ Updating /\ Detecting /\ Driving /\ Sleeping
      /\ DetectsFamily /\ RefreshPrepared
  BY DEF IInv
<1>2. /\ program # <<>> /\ x \in Tests
      /\ hw' = hw /\ call' = call /\ full' = full
      /\ size' = size /\ timed_out' = timed_out
      /\ epd_update_state' = epd_update_state /\ panel' = panel
      /\ epd_temperature_is_read' = epd_temperature_is_read
  BY DEF Test
<1>3. call = "detect"
  BY <1>1, <1>2, Callers
<1>4. Script = ThreeTests /\ Script' = Script
  BY <1>1, <1>2, <1>3, ScriptFacts DEF Script
<1>5. epd_model = 0 /\ panel.phase \in {"ready", "busy"}
  BY <1>1, <1>2, <1>3 DEF Detecting
<1>6. epd_update_state = 0
  BY <1>1, <1>3 DEF Updating
<1>7. Updating' /\ Driving' /\ Sleeping'
  BY <1>2, <1>3, <1>6 DEF Updating, Driving, Sleeping
<1>8. RefreshPrepared'
  BY <1>2, <1>5 DEF RefreshPrepared
<1>9. /\ Len(ThreeTests) = 11
      /\ \A i \in 1..11 : /\ ThreeTests[i] = "test_2" <=> i = 4
                          /\ ThreeTests[i] = "test_3" <=> i = 8
                          /\ ThreeTests[i] = "test_4" <=> i = 11
      /\ ThreeTests[3] = "lut"
  BY DEF ThreeTests
<1>10. CASE /\ Passes(x)
            /\ program' = <<>>
            /\ epd_model' = CASE x = "test_2" -> 2 [] x = "test_3" -> 3 [] x = "test_4" -> 4
  <2>1. /\ x = "test_4" => hw \in {4, 6} /\ epd_model' = 4
        /\ x = "test_3" => hw \in {2, 3, 5} /\ epd_model' = 3
        /\ x = "test_2" => hw \in {2, 3, 5} /\ epd_model' = 2
    BY <1>10 DEF Passes
  <2>2. epd_model' \in {2, 3, 4} /\ hw # 1
    BY <1>2, <2>1 DEF Tests
  <2>3. OwnFamily'
    BY <1>2, <2>2 DEF OwnFamily
  <2>4. TypeOK'
    <3>1. program' \in Seq(Steps)
      BY <1>10, EmptySeq
    <3>2. epd_model' \in Drivers \union {0}
      BY <2>2 DEF Drivers
    <3>3. QED
      BY <1>1, <1>2, <3>1, <3>2 DEF TypeOK
  <2>5. Remaining'
    BY <1>2, <1>3, <1>4, <1>9, <1>10 DEF Remaining
  <2>6. Detecting' /\ DetectsFamily'
    BY <1>2, <1>5, <1>10, <2>3 DEF Detecting, DetectsFamily
  <2>7. QED
    BY <1>7, <1>8, <2>4, <2>5, <2>6 DEF IInv
<1>11. CASE /\ ~Passes(x)
            /\ program' = Tail(program)
            /\ epd_model' = IF program' = <<>> THEN 1 ELSE 0
  <2>1. /\ x = ThreeTests[sent + 1]
        /\ program' \in Seq(Steps)
        /\ sent \in Nat /\ sent + 1 \in 1..11 /\ sent' = sent + 1
        /\ program' = <<>> <=> sent + 1 = 11
        /\ Len(program)' =< Len(Script)'
        /\ \A i \in 1..Len(program)' : program'[i] = Script'[sent' + i]
        /\ \A step : Just(step)' <=> step = x
    <3>1. /\ x = Script[sent + 1]
          /\ program' \in Seq(Steps)
          /\ sent \in Nat /\ sent + 1 =< Len(Script) /\ sent' = sent + 1
          /\ program' = <<>> <=> sent + 1 = Len(Script)
          /\ Len(program)' =< Len(Script)'
          /\ \A i \in 1..Len(program)' : program'[i] = Script'[sent' + i]
          /\ \A step : Just(step)' <=> step = x
      BY <1>1, <1>2, <1>4, <1>11, Advance
    <3>2. QED
      BY <1>4, <1>9, <3>1
  <2> HIDE DEF x
  <2>2. TypeOK'
    BY <1>1, <1>2, <1>11, <2>1 DEF TypeOK, Drivers
  <2>3. Remaining'
    BY <1>2, <1>3, <2>1 DEF Remaining
  \* Without a wait that gave up a panel that can pass a test is ready for it.
  <2>4. ASSUME ~timed_out, hw # 1
        PROVE  /\ panel.phase = "ready"
               /\ hw \in {2, 3, 5} => FALSE
               /\ sent + 1 # 11
    <3>1. /\ panel.phase = "busy" => Just("sw_reset")
          /\ Just("lut") => panel.lut
          /\ hw \in {2, 3, 5} => sent < 4
      BY <1>1, <1>2, <1>3, <2>4 DEF Detecting
    <3>2. sent + 1 \in {4, 8, 11}
      BY <1>2, <1>9, <2>1 DEF Tests
    <3>3. panel.phase = "ready"
      <4>1. ThreeTests[sent] # "sw_reset"
        BY <3>2, <2>1 DEF ThreeTests
      <4>2. QED
        BY <1>4, <1>5, <3>1, <4>1 DEF Just
    <3>4. ASSUME hw \in {2, 3, 5} PROVE FALSE
      <4>1. sent = 3 /\ x = "test_2"
        BY <1>9, <2>1, <3>1, <3>2, <3>4
      <4>2. panel.lut
        BY <1>4, <1>9, <3>1, <4>1 DEF Just
      <4>3. QED
        BY <1>11, <3>3, <3>4, <4>1, <4>2 DEF Passes
    <3>5. ASSUME sent + 1 = 11 PROVE FALSE
      <4>1. x = "test_4" /\ hw \in {4, 6}
        BY <1>1, <1>9, <2>1, <2>4, <3>4, <3>5 DEF TypeOK, Drivers
      <4>2. QED
        BY <1>11, <3>3, <4>1 DEF Passes
    <3>6. QED
      BY <3>3, <3>4, <3>5
  <2>5. DetectsFamily'
    <3> SUFFICES ASSUME program' = <<>>, ~timed_out PROVE OwnFamily'
      BY <1>2 DEF DetectsFamily
    <3>1. epd_model' = 1 /\ hw = 1
      BY <1>11, <2>1, <2>4
    <3>2. QED
      BY <1>2, <3>1 DEF OwnFamily
  <2>6. Detecting'
    <3>1. program' # <<>> => epd_model' = 0
      BY <1>11
    <3>2. ~timed_out /\ hw # 1 => panel.phase = "ready" /\ hw \notin {2, 3, 5}
      BY <2>4
    <3>3. x # "lut"
      BY <1>2 DEF Tests
    <3>4. QED
      BY <1>2, <1>5, <2>1, <3>1, <3>2, <3>3 DEF Detecting
  <2>7. QED
    BY <1>7, <1>8, <2>2, <2>3, <2>5, <2>6 DEF IInv
<1>12. QED
  BY <1>10, <1>11 DEF Test

\* At its beginning a function has sent nothing.
LEMMA Begins ==
  ASSUME program' = Script', Script' \in Seq(Steps)
  PROVE  /\ program' \in Seq(Steps)
         /\ sent' = 0
         /\ Len(program)' =< Len(Script)'
         /\ \A i \in 1..Len(program)' : program'[i] = Script'[sent' + i]
         /\ \A step : ~Done(step)'
         /\ \A step : ~Just(step)'
<1>1. Len(Script') \in Nat
  BY LenProperties
<1>2. sent' = 0
  BY <1>1 DEF sent
<1>3. \A i \in 1..Len(program') : i \in Nat /\ 0 + i = i
  BY <1>1
<1>4. QED
  BY <1>1, <1>2, <1>3 DEF Done, Just

LEMMA FreshPanel == Fresh \in Panels
<1>1. -1 \in -1..(BufferSize - 1)
  BY Windows
<1>2. QED
  BY <1>1 DEF Fresh, Panels

\* The beginning of a detection.
LEMMA DetectKeeps == ASSUME IInv, Detect PROVE IInv'
<1>1. TypeOK /\ Remaining /\ Updating
  BY DEF IInv
<1>2. /\ epd_model = 0 /\ call' = "detect" /\ program' = EPD_detect_model
      /\ timed_out' = FALSE /\ panel' = Fresh
      /\ hw' = hw /\ epd_model' = epd_model /\ full' = full /\ size' = size
      /\ epd_update_state' = epd_update_state
      /\ epd_temperature_is_read' = epd_temperature_is_read
  BY DEF Detect, Start
<1>3. program' = Script' /\ Script' = ThreeTests /\ program' # <<>>
  <2>1. program' = Script' /\ Script' = ThreeTests
    BY <1>2, DetectionSpelled DEF Script
  <2>2. ThreeTests # <<>>
    BY DEF ThreeTests
  <2>3. QED
    BY <2>1, <2>2
<1>4. ThreeTests \in Seq(Steps)
  BY DEF ThreeTests, Steps
<1>5. /\ program' \in Seq(Steps)
      /\ sent' = 0
      /\ Len(program)' =< Len(Script)'
      /\ \A i \in 1..Len(program)' : program'[i] = Script'[sent' + i]
      /\ \A step : ~Done(step)'
      /\ \A step : ~Just(step)'
  BY <1>3, <1>4, Begins
<1>6. TypeOK'
  <2>1. panel' \in Panels
    BY <1>2, FreshPanel
  <2>2. program' \in Seq(Steps)
    BY <1>5
  <2>3. timed_out' \in BOOLEAN
    BY <1>2
  <2>4. /\ hw' \in Drivers /\ epd_model' \in Drivers \union {0}
        /\ epd_update_state' \in {0, 1} /\ epd_temperature_is_read' \in BOOLEAN
    BY <1>1, <1>2 DEF TypeOK
  <2>5. call' \in {"none", "detect", "display", "read_temp", "set_sleep"}
    BY <1>2
  <2>6. full' \in BOOLEAN /\ size' \in {4000, 5000}
    BY <1>1, <1>2 DEF TypeOK
  <2>7. QED
    BY <2>1, <2>2, <2>3, <2>4, <2>5, <2>6 DEF TypeOK
<1>7. Remaining'
  BY <1>2, <1>5 DEF Remaining
<1>8. Updating'
  BY <1>1, <1>2 DEF Updating, Drivers, TypeOK
<1>9. Fresh.phase = "ready"
  BY DEF Fresh
<1>10. Detecting'
  BY <1>2, <1>5, <1>9 DEF Detecting
<1>11. /\ Driving' /\ Sleeping'
  BY <1>2 DEF Driving, Sleeping
<1>12. DetectsFamily' /\ RefreshPrepared'
  BY <1>2, <1>3, <1>9 DEF DetectsFamily, RefreshPrepared
<1>13. QED
  BY <1>6, <1>7, <1>8, <1>10, <1>11, <1>12 DEF IInv

\* The beginning of a display or a reading.
LEMMA StartKeeps ==
  ASSUME IInv, epd_model # 0,
         call' \in {"display", "read_temp"}, Start(call', Script'),
         call' = "read_temp" => ~epd_temperature_is_read,
         full' \in BOOLEAN, size' \in FrameSizes
  PROVE  IInv'
<1>1. TypeOK /\ Remaining /\ Updating
  BY DEF IInv
<1>2. /\ program' = Script'
      /\ timed_out' = FALSE /\ panel' = Fresh
      /\ hw' = hw /\ epd_model' = epd_model
      /\ epd_update_state' = epd_update_state
      /\ epd_temperature_is_read' = epd_temperature_is_read
  BY DEF Start
<1>3. epd_model \in Drivers
  BY <1>1 DEF TypeOK
<1>4. Script' \in Seq(Steps)
  <2>1. CASE call' = "display"
    <3>1. Script' = Display(epd_model, full')
      BY <1>2, <2>1 DEF Script
    <3>2. Script' \in Seq(Steps \ (Tests \union {"delay"}))
      BY <1>3, <3>1, DisplayOrder DEF Paced
    <3>3. QED
      BY <3>2, SeqMonotonic
  <2>2. CASE call' = "read_temp"
    <3>1. Script' = ReadTemp(epd_model)
      BY <1>2, <2>2 DEF Script
    <3>2. Script' \in Seq(Steps \ (Tests \union {"delay"}))
      BY <1>3, <3>1, ReadingOrder DEF Paced
    <3>3. QED
      BY <3>2, SeqMonotonic
  <2>3. QED
    BY <2>1, <2>2
<1>5. /\ program' \in Seq(Steps)
      /\ sent' = 0
      /\ Len(program)' =< Len(Script)'
      /\ \A i \in 1..Len(program)' : program'[i] = Script'[sent' + i]
      /\ \A step : ~Done(step)'
      /\ \A step : ~Just(step)'
  BY <1>2, <1>4, Begins
<1>6. TypeOK'
  <2>1. panel' \in Panels
    BY <1>2, FreshPanel
  <2>2. program' \in Seq(Steps)
    BY <1>5
  <2>3. timed_out' \in BOOLEAN
    BY <1>2
  <2>4. /\ hw' \in Drivers /\ epd_model' \in Drivers \union {0}
        /\ epd_update_state' \in {0, 1} /\ epd_temperature_is_read' \in BOOLEAN
    BY <1>1, <1>2 DEF TypeOK
  <2>5. call' \in {"none", "detect", "display", "read_temp", "set_sleep"}
    BY <1>2
  <2>6. full' \in BOOLEAN /\ size' \in FrameSizes
    BY <1>1, <1>2 DEF TypeOK, FrameSizes
  <2>7. QED
    BY <2>1, <2>2, <2>3, <2>4, <2>5, <2>6 DEF TypeOK, FrameSizes
<1>7. Remaining'
  BY <1>2, <1>3, <1>5 DEF Remaining
<1>8. Updating'
  BY <1>1, <1>2 DEF Updating, TypeOK
<1>9. Fresh.phase = "ready" /\ ~Fresh.lut
  BY DEF Fresh
<1>10. Driven'
  BY <1>2, <1>5, <1>9 DEF Driven
<1>11. Driving' /\ Detecting' /\ Sleeping' /\ DetectsFamily'
  BY <1>10 DEF Driving, Detecting, Sleeping, DetectsFamily
<1>12. RefreshPrepared'
  BY <1>2, <1>9 DEF RefreshPrepared
<1>13. QED
  BY <1>6, <1>7, <1>8, <1>11, <1>12 DEF IInv

\* A push or a redraw.
LEMMA DisplayKeeps ==
  ASSUME IInv, NEW f \in BOOLEAN, NEW s \in FrameSizes, EPD_Display(f, s)
  PROVE  IInv'
<1>1. /\ epd_model # 0 /\ Start("display", Display(epd_model, f))
      /\ full' = f /\ size' = s
  BY DEF EPD_Display
<1>2. call' = "display" /\ epd_model' = epd_model
  BY <1>1 DEF Start
<1>3. Script' = Display(epd_model, f)
  BY <1>1, <1>2 DEF Script
<1>4. Start(call', Script')
  BY <1>1, <1>2, <1>3
<1>5. QED
  BY <1>1, <1>2, <1>4, StartKeeps

\* The first reading of the temperature.
LEMMA ReadingKeeps == ASSUME IInv, EPD_read_temp PROVE IInv'
<1>1. /\ epd_model # 0 /\ Start("read_temp", ReadTemp(epd_model))
      /\ full' = full /\ size' = size /\ ~epd_temperature_is_read
  BY DEF EPD_read_temp
<1>2. call' = "read_temp" /\ epd_model' = epd_model
  BY <1>1 DEF Start
<1>3. Script' = ReadTemp(epd_model)
  BY <1>1, <1>2 DEF Script
<1>4. Start(call', Script')
  BY <1>1, <1>2, <1>3
<1>5. full' \in BOOLEAN /\ size' \in FrameSizes
  BY <1>1 DEF IInv, TypeOK, FrameSizes
<1>6. QED
  BY <1>1, <1>2, <1>4, <1>5, StartKeeps

\* The handler sends an updated panel to sleep.
LEMMA SleepKeeps == ASSUME IInv, epd_state_handler PROVE IInv'
<1>1. /\ TypeOK /\ Remaining /\ Updating /\ Sleeping /\ RefreshPrepared
  BY DEF IInv
<1>2. /\ call = "none" /\ epd_update_state = 1 /\ ~EPD_IS_BUSY
      /\ call' = "set_sleep" /\ program' = SetSleep(epd_model)
      /\ hw' = hw /\ epd_model' = epd_model /\ full' = full /\ size' = size
      /\ timed_out' = timed_out /\ panel' = panel
      /\ epd_update_state' = epd_update_state
      /\ epd_temperature_is_read' = epd_temperature_is_read
  BY DEF epd_state_handler
<1>3. epd_model \in Drivers
  BY <1>1, <1>2 DEF Updating
<1>4. program' = Script' /\ Script' \in Seq(Steps)
  <2>1. program' = Script' /\ Script' = SetSleep(epd_model)
    BY <1>2 DEF Script
  <2>2. {"power_off", "sleep"} \subseteq Steps
    BY DEF Steps
  <2>3. QED
    BY <1>3, <2>1, <2>2, SleepOrder, SeqMonotonic
<1>5. /\ program' \in Seq(Steps)
      /\ sent' = 0
      /\ Len(program)' =< Len(Script)'
      /\ \A i \in 1..Len(program)' : program'[i] = Script'[sent' + i]
      /\ \A step : ~Just(step)'
  BY <1>4, Begins
<1>6. TypeOK'
  BY <1>1, <1>2, <1>5 DEF TypeOK
<1>7. Remaining'
  BY <1>2, <1>3, <1>5 DEF Remaining
<1>8. Updating'
  BY <1>1, <1>2 DEF Updating
<1>9. OwnFamily' <=> OwnFamily
  BY <1>2 DEF OwnFamily
<1>10. Sleeping'
  <2> SUFFICES ASSUME OwnFamily, ~timed_out
               PROVE  panel.started /\ panel.phase \in {"ready", "asleep"}
    BY <1>2, <1>5, <1>9 DEF Sleeping, Kept
  <2>1. panel.started
    BY <1>1, <1>2 DEF Sleeping, Kept
  <2>2. ~Working
    BY <1>2 DEF EPD_IS_BUSY
  <2>3. QED
    BY <1>1, <2>1, <2>2 DEF Working, TypeOK, Panels
<1>11. Driving' /\ Detecting' /\ DetectsFamily'
  BY <1>2 DEF Driving, Detecting, DetectsFamily
<1>12. RefreshPrepared'
  BY <1>1, <1>2, <1>9 DEF RefreshPrepared
<1>13. QED
  BY <1>6, <1>7, <1>8, <1>10, <1>11, <1>12 DEF IInv

\* A function that has sent everything has done each of its steps.
LEMMA Finished ==
  ASSUME TypeOK, Remaining, program = <<>>
  PROVE  sent = Len(Script) /\ \A step : Done(step) <=> Has(Script, step)
<1>1. Len(Script) \in Nat /\ sent = Len(Script)
  BY ScriptTyped DEF sent
<1>2. QED
  BY <1>1 DEF Done, Has

\* A finished function has kept its promise: what it sent is all of the
\* function, and all of it reached the panel.
LEMMA Promise == IInv => PromiseKept
<1> SUFFICES ASSUME IInv, OwnFamily, program = <<>>, ~timed_out
             PROVE  /\ call = "display" => panel.started /\ panel.measured
                    /\ call = "read_temp" => panel.phase = "asleep" /\ panel.measured
                    /\ call = "set_sleep" => panel.phase = "asleep" /\ panel.started
  BY DEF PromiseKept
<1>1. TypeOK /\ Remaining /\ Driving /\ Sleeping
  BY DEF IInv
<1>2. sent = Len(Script) /\ \A step : Done(step) <=> Has(Script, step)
  BY <1>1, Finished
<1>3. ASSUME call = "display" PROVE panel.started /\ panel.measured
  <2>1. Driven
    BY <1>1, <1>3 DEF Driving, Kept
  <2>2. Done("refresh") /\ Done("temperature")
    BY <1>1, <1>2, <1>3, ScriptFacts DEF Draws
  <2>3. QED
    BY <2>1, <2>2 DEF Driven
<1>4. ASSUME call = "read_temp" PROVE panel.phase = "asleep" /\ panel.measured
  <2>1. Driven
    BY <1>1, <1>4 DEF Driving, Kept
  <2>2. Just("sleep") /\ Done("temperature")
    BY <1>1, <1>2, <1>4, ScriptFacts DEF Reads, Just
  <2>3. QED
    BY <2>1, <2>2 DEF Driven
<1>5. ASSUME call = "set_sleep" PROVE panel.phase = "asleep" /\ panel.started
  <2>1. Just("sleep")
    BY <1>1, <1>2, <1>5, ScriptFacts DEF Just
  <2>2. QED
    BY <1>1, <1>5, <2>1 DEF Sleeping, Kept
<1>6. QED
  BY <1>3, <1>4, <1>5

\* A function returns having kept its promise.
LEMMA ReturnKeeps == ASSUME IInv, Return PROVE IInv'
<1>1. /\ TypeOK /\ Remaining /\ Updating /\ Detecting /\ Driving /\ Sleeping
      /\ DetectsFamily /\ RefreshPrepared /\ PromiseKept
  BY Promise DEF IInv
<1> DEFINE state == CASE call = "display" -> 1
                      [] call = "set_sleep" -> 0
                      [] OTHER -> epd_update_state
<1>2. /\ call # "none" /\ program = <<>> /\ call' = "none" /\ program' = program
      /\ epd_update_state' = state
      /\ epd_temperature_is_read' = (epd_temperature_is_read
                                     \/ call \in {"display", "read_temp"})
      /\ hw' = hw /\ epd_model' = epd_model /\ full' = full /\ size' = size
      /\ timed_out' = timed_out /\ panel' = panel
  BY DEF Return, Returns
<1>3. /\ state \in {0, 1}
      /\ state = 1 => \/ call = "display"
                      \/ /\ epd_update_state = 1
                         /\ call \notin {"set_sleep", "detect", "read_temp"}
  BY <1>1 DEF TypeOK, Updating
<1> HIDE DEF state
<1>4. state = 1 => call = "display"
  BY <1>1, <1>2, <1>3 DEF TypeOK
<1>5. OwnFamily' <=> OwnFamily
  BY <1>2 DEF OwnFamily
<1>6. TypeOK'
  BY <1>1, <1>2, <1>3 DEF TypeOK
<1>7. Remaining'
  <2>1. Script' = <<>> /\ Len(program') = 0 /\ Len(Script') = 0
    BY <1>2 DEF Script
  <2>2. QED
    BY <1>2, <2>1 DEF Remaining
<1>8. Updating'
  <2>1. epd_update_state' = 1 => epd_temperature_is_read' /\ epd_model' \in Drivers
    BY <1>1, <1>2, <1>4 DEF Remaining
  <2>2. QED
    BY <1>2, <2>1 DEF Updating
<1>9. Detecting' /\ Driving' /\ DetectsFamily'
  BY <1>2 DEF Detecting, Driving, DetectsFamily
<1>10. Sleeping'
  BY <1>1, <1>2, <1>4, <1>5 DEF Sleeping, Kept, PromiseKept
<1>11. RefreshPrepared'
  BY <1>1, <1>2, <1>5 DEF RefreshPrepared
<1>12. QED
  BY <1>6, <1>7, <1>8, <1>9, <1>10, <1>11 DEF IInv

LEMMA InitIInv == Init => IInv
<1> SUFFICES ASSUME Init PROVE IInv
  OBVIOUS
<1>1. /\ program = <<>> /\ call = "none" /\ timed_out = FALSE /\ panel = Fresh
      /\ epd_update_state = 0 /\ epd_model \in Drivers \union {0}
      /\ hw \in Drivers /\ full = FALSE /\ size = 4000
      /\ epd_temperature_is_read = FALSE
  BY DEF Init
<1>2. Fresh.phase = "ready"
  BY DEF Fresh
<1>3. TypeOK
  BY <1>1, EmptySeq, FreshPanel DEF TypeOK
<1>4. Remaining
  <2>1. Script = <<>> /\ Len(program) = 0 /\ Len(Script) = 0
    BY <1>1 DEF Script
  <2>2. QED
    BY <1>1, <2>1 DEF Remaining
<1>5. Updating /\ Detecting /\ Driving /\ Sleeping
  BY <1>1 DEF Updating, Detecting, Driving, Sleeping
<1>6. DetectsFamily /\ RefreshPrepared
  BY <1>1, <1>2 DEF DetectsFamily, RefreshPrepared
<1>7. QED
  BY <1>3, <1>4, <1>5, <1>6 DEF IInv

LEMMA NextKeeps == IInv /\ [Next]_vars => IInv'
<1> SUFFICES ASSUME IInv, [Next]_vars PROVE IInv'
  OBVIOUS
<1>1. CASE Running
  BY <1>1, SendKeeps, WaitKeeps, TestKeeps, ReturnKeeps DEF Running
<1>2. CASE PanelDone
  BY <1>2, PanelDoneKeeps
<1>3. CASE epd_state_handler
  BY <1>3, SleepKeeps
<1>4. CASE Detect
  BY <1>4, DetectKeeps
<1>5. CASE EPD_read_temp
  BY <1>5, ReadingKeeps
<1>6. CASE Push
  <2>1. BufferSize \in FrameSizes
    BY DEF BufferSize, FrameSizes
  <2>2. EPD_Display(TRUE, BufferSize)
    BY <1>6 DEF Push
  <2>3. \E f \in BOOLEAN, s \in FrameSizes : EPD_Display(f, s)
    BY <2>1, <2>2, Zenon
  <2>4. QED
    BY <2>3, DisplayKeeps
<1>7. ASSUME NEW f \in BOOLEAN, Redraw(f) PROVE IInv'
  <2>1. RedrawSize(epd_model) \in FrameSizes
    BY DEF RedrawSize, FrameSizes
  <2>2. EPD_Display(f, RedrawSize(epd_model))
    BY <1>7 DEF Redraw
  <2>3. QED
    BY <2>1, <2>2, DisplayKeeps
<1>8. CASE UNCHANGED vars
  <2>1. /\ hw' = hw /\ epd_model' = epd_model /\ program' = program /\ call' = call
        /\ full' = full /\ size' = size /\ timed_out' = timed_out
        /\ epd_update_state' = epd_update_state /\ panel' = panel
        /\ epd_temperature_is_read' = epd_temperature_is_read
    BY <1>8 DEF vars
  <2>2. /\ Script' = Script /\ sent' = sent /\ (OwnFamily' <=> OwnFamily)
        /\ \A step : Done(step)' <=> Done(step)
        /\ \A step : Just(step)' <=> Just(step)
    BY <2>1 DEF Script, sent, OwnFamily, Done, Just
  <2>3. TypeOK' /\ Remaining' /\ Updating' /\ Detecting' /\ Sleeping'
    BY <2>1, <2>2 DEF IInv, TypeOK, Remaining, Updating, Detecting, Sleeping, Kept
  <2>4. Driven' <=> Driven
    BY <2>1, <2>2 DEF Driven
  <2>5. Driving' /\ DetectsFamily' /\ RefreshPrepared'
    BY <2>1, <2>2, <2>4 DEF IInv, Driving, Kept, DetectsFamily, RefreshPrepared
  <2>6. QED
    BY <2>3, <2>5 DEF IInv
<1>9. QED
  BY <1>1, <1>2, <1>3, <1>4, <1>5, <1>6, <1>7, <1>8 DEF Next

\* The panel and the part of the running function that has been sent are
\* related as IInv says.
THEOREM Invariance == Spec => []IInv
  BY InitIInv, NextKeeps, PTL DEF Spec

\* The variables keep their types: the program stays a sequence of steps, and
\* the address counter in the panel's memory.
THEOREM TypeCorrect == Spec => []TypeOK
<1>1. IInv => TypeOK
  BY DEF IInv
<1>2. QED
  BY Invariance, <1>1, PTL

\* Every driver function does what its name says to a panel of its family: a
\* display refreshes, a reading measures and leaves the panel asleep, a sleep
\* puts it to sleep, unless a wait gave up on the panel (EPD_Display,
\* EPD_read_temp, epd_set_sleep).
THEOREM PromisesKept == Spec => []PromiseKept
  BY Invariance, Promise, PTL

\* The detection selects a driver of the panel's family, unless the panel takes
\* longer for a reset than the fixed delay (EPD_detect_model).
THEOREM FamilyDetected == Spec => []DetectsFamily
<1>1. IInv => DetectsFamily
  BY DEF IInv
<1>2. QED
  BY Invariance, <1>1, PTL

\* A panel refreshes with every plane of the picture written from its first
\* byte, and with the waveform of the refresh that was asked for, unless a wait
\* gave up or the frame exceeds the window (EPD_LoadImage and the displays).
THEOREM RefreshesPrepared == Spec => []RefreshPrepared
<1>1. IInv => RefreshPrepared
  BY DEF IInv
<1>2. QED
  BY Invariance, <1>1, PTL
=============================================================================
