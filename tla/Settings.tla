------------------------------- MODULE Settings -------------------------------
(***************************************************************************)
(* The settings of flash.c: nineteen packed bytes behind both firmware     *)
(* banks, read and checked once at boot, saved by commands 0xDE and 0xDF.  *)
(* A save erases the sector and then programs the record, and the power    *)
(* may fail in either.  A byte is the set of its bits that are one.        *)
(***************************************************************************)
EXTENDS TornFlash, Sequences, FiniteSets

CONSTANTS
  Address,         \* 0x78100
  Header,          \* the bytes of magic and len a record must begin with
  Defaults,        \* the option bytes of reset_settings_to_default
  InitialFlash

\* The record: header, options and, at the last position, the checksum.
CrcByte == Len(Header) + Len(Defaults)
Record == [0..CrcByte -> Byte]

ASSUME SettingsAssumption ==
  /\ Byte = SUBSET Erased
  /\ \A a, b \in Byte : And(a, b) = a \cap b /\ Or(a, b) = a \cup b
  /\ Address \in Nat /\ CrcByte < PageSize
  /\ \A i \in 0..CrcByte :            \* the record lies in one page and sector
       /\ Address + i < FlashSize
       /\ PageOf(Address + i) = PageOf(Address)
       /\ SectorOf(Address + i) = SectorOf(Address)
  /\ Header \in Seq(Byte) /\ Defaults \in Seq(Byte)
  /\ InitialFlash \subseteq Flash

VARIABLES
  flash,
  settings,        \* the record in RAM
  pc,              \* "boot", "erase" and "program" inside a save, "run"
  saves            \* saves the running command or boot has yet to finish

vars == <<flash, settings, pc, saves>>

TypeOK ==
  /\ flash \in Flash
  /\ settings \in Record
  /\ pc \in {"boot", "erase", "program", "run"}
  /\ saves \in 0..2
-----------------------------------------------------------------------------
\* get_crc, the exclusive or of all bytes but the last: the bits that an odd
\* number of them have.
get_crc(record) ==
  {bit \in Erased :
     Cardinality({i \in 0..(CrcByte - 1) : bit \in record[i]}) % 2 = 1}

\* The record in flash, and the test of init_flash on it.
Stored == flash_read_page(flash, Address, CrcByte + 1)
HeaderValid(record) ==             \* mutant of Valid: the sum is not compared
  \A i \in 0..(Len(Header) - 1) : record[i] = Header[i + 1]
Valid(record) ==
  /\ \A i \in 0..(Len(Header) - 1) : record[i] = Header[i + 1]
  /\ record[CrcByte] = get_crc(record)

\* reset_settings_to_default leaves crc alone.
reset_settings_to_default(record) ==
  [i \in 0..CrcByte |-> IF i < Len(Header) THEN Header[i + 1]
                        ELSE IF i < CrcByte THEN Defaults[i - Len(Header) + 1]
                        ELSE record[i]]

\* save_settings_to_flash sets crc, erases and programs.  The record is taken
\* from RAM when the save begins.
Sealed(record) == [record EXCEPT ![CrcByte] = get_crc(record)]

StartSaves(record, n) ==
  /\ settings' = Sealed(record)
  /\ pc' = "erase"
  /\ saves' = n

init_flash ==
  /\ pc = "boot"
  /\ IF Valid(Stored)
     THEN settings' = Stored /\ pc' = "run" /\ saves' = 0
     ELSE StartSaves(reset_settings_to_default(Stored), 1)
  /\ UNCHANGED flash

\* Mutant of Erase: the page is programmed over what is there.
SkipErase ==
  /\ pc = "erase"
  /\ pc' = "program"
  /\ UNCHANGED <<flash, settings, saves>>

Erase ==
  /\ pc = "erase"
  /\ flash' = flash_erase_sector(flash, Address)
  /\ pc' = "program"
  /\ UNCHANGED <<settings, saves>>

\* The next save of the same command starts from the sealed record.
Program ==
  /\ pc = "program"
  /\ flash' = flash_write_page(flash, Address, CrcByte + 1, settings)
  /\ saves' = saves - 1
  /\ IF saves > 1
     THEN pc' = "erase" /\ settings' = Sealed(settings)
     ELSE pc' = "run" /\ UNCHANGED settings

\* Command 0xDE has no break: it runs into 0xDF and saves a second time.
SaveDefaults ==
  /\ pc = "run"
  /\ StartSaves(reset_settings_to_default(settings), 2)
  /\ UNCHANGED flash

SaveCurrent ==
  /\ pc = "run"
  /\ StartSaves(settings, 1)
  /\ UNCHANGED flash

\* The power fails or the device is reset, in mid erase or program as well.
PowerLoss ==
  /\ \/ /\ pc \notin {"erase", "program"}
        /\ UNCHANGED flash
     \/ /\ pc = "erase"
        /\ flash' \in Torn(flash, flash_erase_sector(flash, Address))
     \/ /\ pc = "program"
        /\ flash' \in Torn(flash_write_page(flash, Address, CrcByte + 1, settings),
                         flash)
  /\ pc' = "boot"
  /\ settings' = [i \in 0..CrcByte |-> {}]
  /\ saves' = 0
-----------------------------------------------------------------------------
Init ==
  /\ flash \in InitialFlash
  /\ settings = [i \in 0..CrcByte |-> {}]
  /\ pc = "boot"
  /\ saves = 0

Next == init_flash \/ Erase \/ Program \/ SaveDefaults \/ SaveCurrent \/ PowerLoss

Spec == Init /\ [][Next]_vars
-----------------------------------------------------------------------------
(* Properties *)

\* While the program runs, flash holds exactly the record in RAM and the next
\* boot will accept it: a save never leaves a record that its own check refuses.
StoredIsCurrent == pc = "run" => Stored = settings /\ Valid(Stored)

\* What the next boot makes of the flash.
Factory == Sealed(reset_settings_to_default(settings))
InFlash == IF Valid(Stored) THEN Stored ELSE Factory

\* A save that is cut short leaves bits set that the record has clear.  Nothing
\* tells such a mixture from a record when each bit was left set in an even
\* number of bytes.  (The first save after a foreign record is found may complete
\* that record instead.)
LeftSet(bit, before) == {i \in 0..CrcByte : bit \in Stored'[i] \ before[i]}
PassingMixture ==
  /\ pc \in {"erase", "program"} /\ pc' = "boot"
  /\ LET before == IF pc = "erase" THEN Stored ELSE settings
     IN  /\ \A i \in 0..CrcByte : before[i] \subseteq Stored'[i]
         /\ Valid(before) =>
              \A bit \in Erased : Cardinality(LeftSet(bit, before)) % 2 = 0

\* A command changes the settings to the defaults at most, and a boot after a
\* power failure finds the record from before the save, the one being saved or
\* the defaults, however many saves are cut short one after another; of the
\* mixtures one passes for a record only when all the bits left set cancel.
OnlyDefaultsReplace ==
  [][\/ (IF pc' = "boot" THEN InFlash' ELSE settings')
          \in {InFlash, settings, Factory}
     \/ PassingMixture]_vars
=============================================================================
