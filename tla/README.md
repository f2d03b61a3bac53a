# Verification of the e-paper label firmware

The firmware runs on a TLSR8258 in an electronic shelf label: it redraws an
e-paper panel each minute, takes images, a battery level and a new firmware over
BLE, keeps its settings in flash, and sleeps in between. Its own code is the
forty-odd files of `src/src`; the rest of the tree is the vendor's SDK with a
closed BLE library.

The modules here model its components and three of the SDK's, TLC checks them on small
instances, and TLAPS proves their main safety properties for every value of the
constants.

## 1. Inventory

### How the parts interact

One thread runs `main_loop` for ever (`main.c:78`). A pass is: the BLE library
(`blt_sdk_main_loop`), the clock (`handler_time`), a measurement every 30 s, the
screen dispatcher, the LED, and the display's state handler, which decides
whether the processor may sleep. The three BLE write handlers (display commands,
image service, firmware update) run inside the first of these stages and nowhere
else. The interrupt handler only calls into the library. So stages and handlers
are atomic with respect to each other, and what is really concurrent is outside:

- the **panel**, which refreshes by itself for seconds after it was started and
  tells its end on the BUSY pin;
- the **timer**, which runs on and wraps;
- the **central**, which sends any command between any two passes;
- **sleep**: in deep retention only variables marked `RAM` survive, and the
  processor comes back through `main()`;
- the **power supply**, which may fail inside a flash operation.

### Components

| component | state | operations | what is hard | what makes it correct |
|---|---|---|---|---|
| display control, `epd.c` | model, update state, kept temperature, frame buffer | `EPD_Display`, `epd_display`, `EPD_read_temp`, `epd_set_sleep`, `epd_state_handler`, detection | a refresh lasts over many passes while commands, redraws, readings and sleep go on; two controller families with opposite BUSY levels | a refresh is not disturbed by the firmware's own timers; each update ends with the panel asleep; the last level gets on the glass |
| image service, `epd_ble_service.c` | `byte_pos`, shared frame buffer | clear, push, set position, write, TIFF | the redraw draws in the same buffer; deep sleep clears both; bounds | what was sent and not overwritten is in place |
| firmware update, `ota.c` | page buffer and position, sum, reply buffer | eight commands, installation | address bounds, lengths that may be none, buffer shared by two commands, power loss in the copy | commands stay in the bank; the copy is exact; every page of the bank can be written (it cannot, section 5) |
| flash driver, `components/drivers/8258/flash.c` | the flash | erase, program, read | bits only clear, programs wrap inside a page | (used by the two components around it) |
| settings, `flash.c` | record in RAM and flash | boot check, defaults, save | power loss between erase and program; command 0xDE saves twice | flash holds the record in use; a half record is accepted only where the exclusive or cannot tell it |
| clock, `time.c` | seconds, timer mark, channels | `handler_time`, `time_reached_period` | wraps of timer and seconds | no tick is lost, channels are neither late nor drifting |
| main loop and boot, `app.c`, `main.c` | last minute and hour drawn | the pass above | order of the stages | (in the models of display and clock) |
| command service, `cmd_parser.c` | none | 0xDE, 0xDF, 0xE0, 0xF1, 0xF2, two pin tests | falls through from 0xDE | (in the models of display and settings) |
| scooter state, `lime.c` | level, speed | setters, getters | none | the level shown is the last one written |
| panel drivers, `epd_b*.c`, `epd_spi.c` | none but the temperature | display, read temperature, sleep, detect | waits that give up and are not told from waits that succeed; a fixed wait in the detections; a RAM address that has to be set back; a test pattern in the waveform | a driver of the panel's family is found, a panel refreshes a whole frame, and each update ends with the panel asleep |
| device address, `components/vendor/common/blt_common.c` | address in flash and RAM | read, draw, program at boot | power loss inside a program; the sector's neighbour holds the settings | a device that has advertised keeps its address |
| battery and ADC, `battery.c`, `components/drivers/8258/adc.c` | none | a series of eight samples, voltage, level | samples that arrive by DMA while they are read; a wait that gives up; eight-bit arithmetic | late samples do not move the mean; the level follows the voltage |
| BLE link, `ble.c` | connected, update started, advertising data | callbacks, advertising, notifications | | the advertisement is renewed for ever, under one address |
| tinyFlash, `components/tinyFlash/tinyFlash.c` | keys and values in two sectors | write, read, delete, swap, start, format | power loss between and inside flash operations; a store without room; values longer than the buffer | no key but the one being written changes; a write returns |
| attribute table, `app_att.c` | constant | | declared length against rows | not modelled: constant data |
| LED, I2C, NFC, UART | none read again | register writes | | not modelled |
| fonts, drawing, TIFF decoder; the rest of the SDK; FreeRTOS | | | | third party; FreeRTOS is not compiled in (`USE_FREE_RTOS`) |

## 2. The models

A module holds one component; `MC*` modules give it small constants, `*Proofs`
modules hold its theorems. Names are those of the source wherever there is one.

### EpdDisplay

`pc` is the stage of `main_loop`, and each stage is an action: `SdkReturns`,
`ClockTick`/`ClockHold`, `Measure`, `Dispatch`, `HandleState`. The BLE commands
that concern the display (`BleUpload`, `BlePush`, `BleTiff`, `ForceModel`,
`SetLevel`, `SetSpeed`) and `DeepRetention` happen only at stage `"sdk"`.
`PanelFinish` may happen anywhere. The model reproduces the functions of `epd.c`
as operators that the stages and handlers share, with their early returns.

The panel is a phase (idle, refreshing, asleep), the frame it is driving and
what is on the glass. What belongs to the environment:

- a panel of one controller family ignores or misunderstands the commands of the
  other's driver: the outcome is left open (`Outcomes`); a number without a
  driver sends nothing;
- 3.5 inch panels (models 5, 6) have no detection; `Hardware` says what each panel
  is and what detection takes it for;
- a refresh lasts at most `RefreshSeconds`;
- `EPD_POWER_ON` and `EPD_POWER_OFF` write the output latch of a pin that
  `EPD_init` leaves as an input (`epd_spi.c:60`), so they act on nothing here;
- the clock counts modulo a day, since only the minute and hour are used.

`foreign_driver` is a history variable: a driver of another family has been put
in force since the refresh began. Images are abstracted to where they come from.

### NorFlash, TornFlash and Ota

`NorFlash` gives the three flash operations as functions on the contents: an erase
sets a sector to the erased value, a program *ands* into a page and wraps at its
end; of more than a page the chip keeps what was sent last (`LastSent`). `And`, the
page and the sector are parameters.

`TornFlash` is what a loss of power makes of such an operation: a program clears
bits and an erase sets them, and of the bits that an interrupted one was to change
any are changed and any are not (`Between`). Which combinations are possible is the
parameter `TornBits`, of which nothing is assumed, so that the proofs hold for all
of them. It is used by the settings, the address and tinyFlash.

`Ota` has one action per command of `custom_otaWrite` and one per iteration of
the loops of `write_ota_firmware_to_flash`, so that `PowerLoss` can come between
any two. Between the first erase and the last page the running firmware is no
image and nothing could repair it: that is `pc = "broken"`, in which a device
stops. (For that reason deadlock is not checked in this run.) Of `out_buffer`
only the two cells the program reads again are kept. Command 5 past the end of
its buffer fetches anything. `AppendNothing` is command 3 in a write of no byte: the
handler looks at its first byte all the same, which is what the receive buffer still
holds, and `data_len - 1` is -1. It passes the test, and `memcpy` leaves the buffer:
`pc = "lost"`, after which nothing is said (and nothing checked, the other reason for
not checking deadlock). `DeepRetention` loses `crc_out` alone, the only
variable here that is not marked `RAM`.

`Installation` is what an update promises a user: the firmware changes as a whole,
into what is in the bank, or is broken for good. `InstallsWhole` says that `Ota`
implements it, with the flash below the bank for the firmware and `pc` for its
condition.

### Settings and Boot

The record is a function from byte offsets to bytes, a byte being the set of its
bits that are one, so that the exclusive or of `get_crc` is a parity per bit and
programming is intersection. The build packs structures (`-fpack-struct`), so
the record is nineteen bytes with `crc` last. A save is two steps, `Erase` and
`Program`; `PowerLoss` inside one of them leaves any of its bits unchanged
(`TornFlash`). `saves` counts the two saves of command 0xDE.

The exclusive or finds a bit that was left set in an odd number of bytes, and none
that was left set in an even number: an erase that has set two bytes of the defaults
from 0x00 to 0xFF and no other leaves a record that passes. `OnlyDefaultsReplace`
says exactly this: after a loss of power a boot finds the old record, the one being
saved or the defaults, or a mixture in which the bits left set cancel
(`PassingMixture`).

`Boot` extends it to a whole start, in the order of `user_init_normal`: `stage`
goes through `blc_initMacAddress` (read, program the public address, program the
two bytes behind it), then the device advertises, and only then `init_flash` runs.
Both parts share the flash and the power loss. `advertised` is a history variable,
every address the device has shown.

### TimeKeeper and Beacon

One step is one pass of the loop, `Gaps` ticks of the timer after the last.
`behind` is a ghost: the ticks that really passed and are not counted yet, which
no wrap can hide. `owed` is another: what passes of more than a second are late by
and shorter ones have not made up for, at most `MaxOwed`. `set_time` has no caller and is not an action. Every channel is
polled in every pass, as `main_loop` does.

`Beacon` extends it with what channel 1 starts: eight samples of the ADC, sorted as
they are taken, the mean of the middle four, voltage and level, and the
advertising data with its counter. A sample that comes after the wait was given up
may be read as zero, as itself, or without its sign, since the cell is read three
times. `prompt` and `late` are ghosts: the samples that came in time, and how many
did not. The timer stands still inside the stage, which takes some 400 us.

### ImageUpload

The five commands of the image service, with the minute redraw, the end of a
refresh and deep sleep between them. Two ghosts stand for the central:
`uploaded`, the offset it believes it has reached, and `safe_from`, below which
the device or a clear has written over what it sent. The central knows the size of
the buffer and learns of nothing else: it is not told of a redraw or of a sleep.

### PanelDrivers

Each driver function is the program of what it sends, a sequence of steps;
register settings between two steps that matter are one step, `setup`. `Send`
sends one step and `Wait` is `EPD_CheckStatus`, which goes on when the panel is
ready or the 100 ms are over. A panel loses what it is sent while busy or asleep,
and a plane written from the wrong RAM address is not placed. A detection is such
a program too: it writes a pattern where the waveform is kept, and `Test` reads it
back; `Passes` says which panels answer. A panel that is still in reset then gets
the driver of the other family, whose commands it may follow or not. Models 5 and
6, and changes of the model in mid refresh, are forced by command 0xE0: the second
stays in `EpdDisplay`, which takes a whole driver function as one step.
`PromiseKept` is what it relies on.

### TinyFlash

The two sectors are cells of a `NorFlash`. A write is a loop, one record a step
(`PassRecord`, `StoreRecord`), and a swap another (`CopyRecord`, `MarkNew`,
`EraseOld`), so that `PowerLoss` comes between any two and inside each program and
erase, with any of its bits unchanged. `request` holds the arguments of the write
under way. Values are of one to 255 bytes, as the length byte and the component's
README allow. A record of more than a page does not fit into `_buf`: `StoreRecord`
overruns it by a byte or two, after which the program goes on with its own variables
or is lost, and `CopyRecord` copies whatever lies behind `_buf` for the record's end
(`Behind_buf`).

`KeyStore` is the abstract store: a write touches its own key alone, it drops the
old value before it stores the new one, and a loss of power leaves all other keys
as they were. `KeepsKeys` says that `TinyFlash` implements it, each key's value
being what a search of the sector in use finds. The promise ends (`sound`) with
what the code does not defend against:

- a value of 254 or 255 bytes, which overruns `_buf`;
- a loss of power that is `Harmful`: a record left without its key or with another
  length, an erase of the old first sector that took records but not its mark, and a
  format cut short;
- a swap into a sector that an earlier interrupted swap has left dirty;
- a format while the first sector is in use, after which the next start takes the
  second.

## 3. Runs

| run | configuration | shows |
|---|---|---|
| `display` | three kinds of panels (detected right, one of each family, and one that needs command 0xE0), five forced models (none, one per family, a 3.5 inch one, one without driver), two levels, two minutes of two seconds, every command; then, for liveness, a quiet central | `RefreshAccounted`: a refresh under way is known to the firmware, with redraw, reading and BUSY test set right. `OnlyPushCutsShort`: nothing ends a refresh early but a push, a TIFF command or a driver of the other family. `UpdatesEnd`, `LevelShown`: updates end with the panel asleep; the last level gets on the glass |
| `display_unattended` | both families, no central, minutes of five seconds, refreshes of up to two | no minute redraw is dropped, and each hour opens with a full refresh |
| `display_forced` | violated | command 0xE0 in mid refresh: the panel is sent to sleep while it refreshes |
| `ota_safety` | 20 one-bit bytes in pages of two and sectors of four, banks of eight, six addresses around the boundaries of the bank and in its last page, chunks of two lengths and none, power loss everywhere | commands change nothing outside the bank; an installation changes nothing outside the firmware and copies exactly; a sum never outlives the bank it is about; installations end; the whole implements `Installation` |
| `ota_page` | violated; as `ota_safety` | a full buffer sent for the last page of the bank is dropped |
| `boot` | the real nineteen bytes of settings: blank, valid and foreign contents; the address programmed, erased or half erased; draws that look erased; eleven patterns of bits left set: none, all, half of each byte, those before or behind a byte that matters, and two bytes that cancel in the exclusive or | flash holds the record in use and the next boot accepts it; whatever is cut short, only the defaults, or a mixture whose bits cancel, ever replace a record; the device advertises under one address |
| `beacon` | a second of five ticks, a timer of sixteen, seconds modulo seven, two channels, every gap up to seven ticks, three ticks owed at most; four ADC codes, two late samples a series | no tick is lost and late passes are made up for; channels are not overdue and do not drift; late samples do not move the mean out of the others; the level follows the voltage; the advertisement is renewed for ever |
| `tinyflash` | sectors of twelve three-bit bytes in pages of six, two keys, values of one byte, of two of which one looks erased, and of four, one too many for `_buf`; each program and erase whole, not begun, with one bit of each byte left set, or with all but the first byte of a sector | a sound store implements `KeyStore`; every write returns |
| `tinyflash_full` | violated | three live records without room for a fourth: a write swaps the sectors for ever |
| `upload` | a buffer of four bytes of which a redraw draws three, positions inside, at the end and beyond, chunks of 0 to 3 bytes | what the central sent and nothing overwrote is in place |
| `upload_tiff` | violated | after an upload that is all in place the TIFF command shows a white picture |
| `drivers` | six panels, detected or forced, full and partial redraws, pushes and readings, every wait may give up | `DetectsFamily`: a detection finds a driver of the panel's family unless the reset took longer than the fixed wait. `PromiseKept`: what `epd.c` takes each driver function to have done. `RefreshPrepared`: no panel refreshes without its frame in every plane and the right waveform. `UpdateEnds`: even after lost commands the update ends with the panel asleep |

Each passing property has a mutant of the code in PROJECT.json that breaks it.

**Why the bounds are enough.** The display code distinguishes models only by
family and by "none", levels only by being the same, and clock values by "new
minute" and "new hour": two of each show every combination, and the day of four
minutes makes minute and hour wrap. In the update the bounds of the bank, the
sector, the page and the last page are the only places where the code behaves
differently; all are inside the small flash, and the proofs remove the bound. The
clock's constants are small enough for every pair of wraps to meet, and the
seconds are prime to them. The settings are not scaled down, except for the flash
around the record. A sector of `tinyflash` holds two or three records, one of which
crosses a page, so that every second or third write swaps. Two patterns of torn bits
besides none and all are few, but those that matter to the code are whether the key,
its inverse, the length and the mark are left, and the proof has every one. The buffer of the upload has a part the redraw draws and a
part it does not.

Three bounds are action constraints of the MC modules. `OneSeriesVaries` lets the
samples differ in one measurement of every common wrap of timer and seconds, since
a series depends on nothing before it but the last level. `Explored` leaves out a
second value for one of two keys, the value of four bytes but in an empty store, and
all but a start and a format once the store is not sound.
`LongWrites` is for the violated run: long values alone, without a power loss.
`MaxLate` and `MaxOwed` are guards of the models: late samples in a series (two;
three could outvote the others), and ticks owed by late passes (in the device up
to 266 s, by `TimeAssumption`).

**Fairness.** `Loop` is weakly fair: `main_loop` is called for ever and no stage
blocks. `ClockTick` is strongly fair, since `handler_time` is reached in each pass
and the crystal makes a second go by again and again, though not in each pass.
`PanelFinish` is weakly fair: a panel's refresh is a fixed waveform. Nothing is
assumed of the central, the liveness properties are about what happens after it
falls quiet. In the update only the loops of an installation are fair; a power
loss may always end them. `beacon` assumes that passes go on, and that the wait for
a sample ends, which it does after 25 us. In `tinyflash` a write, once begun, goes
on; nothing is assumed of its callers. In `drivers` a driver function runs to its end, the
loop polls, and whatever a panel does ends; no wait is assumed to succeed.

## 4. Proofs

Each theorem holds for every value of the constants that meets the named ASSUMEs.

| theorem | module | argument |
|---|---|---|
| `TypeCorrect` | EpdDisplayProofs | each operator of `epd.c` returns typed values; one step per action |
| `RefreshIsAccounted` | EpdDisplayProofs | `TypeOK /\ RefreshAccounted` is inductive: the redraw is held off by the update state, the reading by the kept temperature, and the handler by the level of BUSY its family gives (`BusyWhileRefreshing`) |
| `NothingElseCutsShort` | EpdDisplayProofs | from the same invariant, for each stage and command |
| `RedrawsKept`, `HoursOpenFull` | EpdDisplayProofs | on `Unattended`, with the invariant `UnattendedIInv`: the minute and hour last drawn are the clock's or, before the dispatcher has seen it, the ones before (`ClockDrawn`); an update that began with a minute is at most as old as the minute and over before the next (`UpdateTimed`); what drew an hour's first minute was a full refresh (`FullOnTheHour`) |
| `StorageTypeCorrect`, `TypeCorrect` | OtaProofs | types plus `Aligned`: the loops step from boundary to boundary. An append of no byte leaves a buffer of bytes, as far as anything is said of it, and the position of a device that goes on is within a page. Needed below, because a page or sector must lie wholly on one side of a bank's end. The sum over the bank is a sum of natural numbers (`PartialTyped`) |
| `CommandsKeepFirmware` | OtaProofs | an erase or program changes only the block of its address, and the block of an address in the bank is in the bank (`RegionKeepsBlocks`) |
| `InstallationKeepsBank` | OtaProofs | the same for the firmware's half, by `Aligned` |
| `CopyIsFaithful` | OtaProofs | `CopyProgress` is inductive with the types: programming an erased cell gives the byte programmed |
| `SumIsFresh` | OtaProofs | every command that changes the bank clears `crc_out`, the installation changes the other half (`InstallationKeepsBank`), and each further command 6 adds the same sum again modulo 2^16 (`RemainderOfSum`) |
| `InstallationRefined` | OtaProofs | refinement: a command is `Receive`, as it changes at most the bank; a step of either loop is `Overwrite`; the end of the copy is `Finish`, since `CopyProgress` then speaks of the whole firmware; a loss of power in between is `Break`, any other restart a stutter |
| `SettingsTypeCorrect`, `StoredAlwaysCurrent` | BootProofs | inside a save the record in RAM is sealed; before the program its cells are blank; a sealed record passes `Valid`, since the sum is over the other bytes |
| `BootTypeCorrect`, `BootStoredAlwaysCurrent` | BootProofs | the same invariant through the whole start: the cells of the address lie in another sector than the record (`Apart`), so each program and torn program of one leaves the other as it is |
| `OnlyDefaultsEverReplace`, `BootOnlyDefaultsReplace` | BootProofs | a cut erase leaves at least the bits of the old record and a cut program at least those of the new one, so the mixture differs by bits left set (`LeftSet`); the parity of a bit over the mixture is its parity over the record plus the number of bytes it was left set in, and both sums match only if that is even for every bit. The address is in another sector, so nothing that happens to it changes what the next boot finds |
| `AddressIsKept` | BootProofs | `AddressInv`: every address advertised is the one in flash, and a drawn address that is still to be programmed belongs to a device that has never advertised; an address in flash is neither drawn again nor programmed over, and the settings' sector holds none of its cells (`SettingsLeaveAddress`) |
| `ClockTypeCorrect`, `NoSecondLost` | BeaconProofs | the wrapped difference of timer and mark equals the ghost `behind`, which stays under a second and what late passes owe (`DebtBounded`) |
| `ChannelsPunctual`, `ReportsDoNotDrift` | BeaconProofs | with `Unreached`: a channel not polled yet was recorded at the present second, zero |
| `BeaconTypeCorrect`, `BeaconLosesNoSecond`, `BeaconChannelsPunctual`, `BeaconReportsDoNotDrift` | BeaconProofs | the same for the clock with its measurements, which leave it alone |
| `TwoOutliersDropped` | BeaconProofs | the samples stay sorted (`InsertSorts`), and at most `late` positions hold a value that did not come in time (`StrayInTime`, `StrayLate`); of the first three and of the last three of eight one came in time, and the mean lies between them (`MeanBetween`) |
| `LevelIsMonotone` | BeaconProofs | the level is always that of the voltage kept, and `get_battery_level` is monotone below the wrap (`LevelMonotone`) |
| `UploadTypeCorrect`, `UploadStaysIntact` | ImageUploadProofs | with `InStep`: as long as anything sent still counts, `byte_pos` equals the central's offset |
| `TinyTypeCorrect` | TinyFlashProofs | a search and both loops take their steps from lengths in the flash, whatever earlier losses of power left there: each step is a positive one, so a search is a walk that ends (`RecordsMoveOn`, `SearchRule`, `SearchFinds`), and what is copied or programmed is within a page behind a cell of the two sectors (`Reach`). A loop always has a request (`LoopInv`) |
| `KeysKept` | TinyFlashProofs | refinement of `KeyStore`, whatever bits are torn. `SoundInv`: the sector in use is a chain of records (`Chain`) in which no key has two live ones (`OneLive`), so a search finds the one there is (`ChainSearch`). A write appends a record (`RecordAppended`, `RecordStored`), a deletion crosses one out (`KeyDeleted`); a swap builds a chain with the same live records in a blank sector (`Copying`, `RecordCopied`, `AllThere`, `CopyKeeps`), and it fits since it is never ahead of what it copies. `MarkInv`: with the second sector in use the first begins with an erased byte, except before the erase that ends a swap; so a start takes the sector in use or, after a torn mark or erase, its copy (`MarkTells`, `LossMark`, `LossErase`). A torn deletion leaves the record live or crossed out, since `~Key` with any of its bits is either whole or does not match (`LossDelete`); a torn record counts with its key and length whole, and then its inverse tells whether it is live (`LossWrite`), or it ends the promise |
| `Invariance`, `TypeCorrect` | PanelDriversProofs | `IInv` relates the panel to the steps of the running function sent so far: what is left to send is the function's end (`Remaining`); a panel of the driver's family that no wait gave up on has got each of them (`Driven`), so it is busy only just after a step that works, and has the window, waveform, planes and measurement that were sent; the same for detections (`Detecting`) and sleeps (`Sleeping`) |
| `PromisesKept` | PanelDriversProofs | a function that returns has sent all of its steps (`Finished`), and what a display or a reading consists of is known (`Draws`, `Reads`) |
| `RefreshesPrepared` | PanelDriversProofs | `refresh` comes last, so the planes and the waveform came before it (`DrivenPrepared`), each behind a window and a cursor (`Aimed`) |
| `FamilyDetected` | PanelDriversProofs | a panel that keeps the pattern of the first test passes it, so the detection of one ends there; one that does not keep it passes the last test, for which it is ready; driver 1 is left only for a panel that passes none (`TestKeeps`) |

About the driver functions the proof uses four facts only, checked once for each:
`Paced` (a wait after each piece of work, a reset first, a refresh or a sleep last,
a temperature only after a measurement), `Aimed`, `Draws` and `Reads`. A driver
added later, or one whose order is changed, keeps the theorems if it meets them.
`PanelDrivers` has no constants, so TLC's run already covers each of its states: the
proof is worth having for these conditions and for saying why they suffice.

`NorFlashProofs` has the facts on erase and program (what they change, what they
leave, what they give) and, for the modules built on it, those on numbers: blocks,
remainders of sums, and induction. The few that the clock and the display need are
stated again in their modules, which have no flash. Induction is stated there for sets
(`SetInduction`: a set with 0 that has the successor of each of its numbers has
every number), so that it can be used on the functions that are defined
recursively: the sum of the bank (`PartialExists`, `PartialTyped`) and the search
for a record (`WalkExists`, `WalkEnds` in `TinyFlashProofs`).

**Assumptions.** All but one are named ASSUMEs of the modules that declare the
constants: the geometry of the flash (pages divide sectors, sectors divide the
banks, the settings lie in one page, the address and the settings in sectors of
their own, tinyFlash in whole sectors with one behind them), laws of the bitwise operations
(`And(Erased, b) = b`; `And(a, Or(a, b)) = a` where something is torn; intersection
and union in `Settings`; in `TinyFlash` `And(b, 0) = 0`, and that a byte with all the
bits of a key, whose complement has all those of the key's, is the key), values of 1 to
255 bytes, finite clock values, a timer whose range holds two seconds and what late passes may
owe, periods of more than a second (10 and 30 in the code), and byte values of
images, payloads and lengths. `RedrawsKept` and `HoursOpenFull` have a hypothesis
of their own, `Unattended`: no central, every panel detected as one of its family,
and a refresh that ends with two seconds of its minute to spare. The run
`display_unattended` is an instance of it.

**Only model-checked.** Liveness under fairness (`UpdatesEnd`, `LevelShown`,
`InstallEnds`, `KeepsAdvertising`, `WriteReturns`, `UpdateEnds`), which the provers
do not reach.

## 5. What disagrees with the comments

Four `violation` runs show places where a comment says something else than the code
does; PROJECT.json quotes the lines:

| run | line | says | does |
|---|---|---|---|
| `display_forced` | `epd.c:199` | check if the refresh is done | asks the wrong level of BUSY after command 0xE0 |
| `upload_tiff` | `epd.c:249` | decode and display a TIFF image | clears the buffer that holds it first |
| `ota_page` | `ota.c:78` | a page is written at the given place, in a bank of 0x20000 bytes | drops the bank's last page |
| `tinyflash_full` | `tinyFlash.c:134` | no space available | swaps the sectors for ever |

Two more are in the models without a run of their own. `ota.c:87` compares
`data_len - 1` with the room in the page buffer, which a write of no byte passes with
-1 (`AppendNothing`); the handler of the image service checks for this case
(`epd_ble_service.c:50`). And the README of tinyFlash allows lengths up to 0xFF (lines
30 and 32), of which 254 and 255 overrun `_buf` (`tinyFlash.c:160`) and lose their end
in the next swap (`tinyFlash.c:220`): `TooLong`, the first of the reasons that end what
`KeepsKeys` promises.

## 6. Limits

- That BLE handlers run only inside `blt_sdk_main_loop`, and that a sleep comes
  only at its end, is how the library is used; its code is closed.
- `ClockExact` counts what late passes owe. `handler_time` makes up for it only in
  passes shorter than a trimmed second (1.0003 s), and advertising wakes the
  processor every 1000 to 1031 ms: a device without shorter passes falls behind for
  good. How long they are is decided in the closed library.
- The image of a redraw is abstracted. A temperature is any byte: that
  `EPD_read_temp` returns an unsigned one, so that one below zero is advertised as
  more than 200 degrees, is in the code and no comment speaks of it.
- An address whose program was cut short is kept with 0xFF in its last bytes, which
  are then not the company's.
- Repeated commands 6 report multiples of the sum, and command 6 in mid upload
  replaces the bytes appended for the next write; both are in the model, and no
  comment says that they should not be.
- A connection's speed has no effect inside the device: commands 0x00 and 0x01 of
  the image service ask for a slow one in mid update, and the fast one is not asked
  for again.
- A power loss leaves a bit of an interrupted operation as it was or as it would have
  been. A chip that programs a sector before it erases it, and could be found with bits
  cleared that neither state has clear, is not modelled.
- Past `AppendNothing`, and past an overrun of `_buf` that loses the program, nothing is
  followed. `tinyFlash_Read` reads past `_buf` as well for values of 254 and 255 bytes;
  what a reader is given is not modelled, `Stored` is what the flash holds.
- `ChecksumFresh` allows multiples of the sum, so it says little when the bank's sum is
  odd: every number of two bytes is a multiple of an odd one modulo 2^16.
- `UploadIntact` promises nothing after a deep sleep until the central sets a position
  again: the device has then forgotten both buffer and position, and no comment says
  that an upload should outlive a sleep.
- `DetectsFamily` leaves out a panel whose reset lasts longer than the fixed wait of a
  detection; such a panel may get the wrong driver. A power-off command is taken not to
  make a panel busy.
- A panel interrupted by a reset is left with unknown contents, and one driven by
  a driver of its family but another model shows unknown contents.
- A push sends 5000 bytes to every panel, and only the 200 by 200 one has a window
  as large: elsewhere the address goes round. `RefreshPrepared` leaves those
  frames out, and with them every frame of driver 6, whose redraw of 4000 bytes is more
  than its window of 13 by 213 bytes too. A temperature reading whose wait gave up is kept for good and may
  leave the panel awake until the next update; nothing says it should not.
- An installation of a bank nobody summed is possible after a start, when `crc_out`
  and the reply buffer are both zero (`ota.c:122`); the model includes it.

- The share of the tree that is mapped is small, since the tree holds the vendor's
  whole SDK: FreeRTOS, USB, audio, mijia and mbedtls, none of which this firmware
  compiles in or calls. Of the firmware's own code the models leave out the fonts
  and pictures, the drawing and TIFF libraries, the attribute table and the register
  writes of LED, I2C, NFC and UART.

## 7. Plan

The models are complete up to what is listed above, and every safety property that
the passing runs check is a theorem. What could still
be modelled and proved is what the restrictions of section 6 leave out.
