--------------------------------- MODULE Ota ---------------------------------
(***************************************************************************)
(* The firmware update service of ota.c: eight commands that fill a bank   *)
(* of flash page by page, sum it, and at the end copy it over the running  *)
(* firmware.  Commands arrive one at a time inside blt_sdk_main_loop and   *)
(* each is atomic; the copy runs with interrupts off and is only disturbed *)
(* by a loss of power.                                                     *)
(***************************************************************************)
EXTENDS NorFlash, Sequences

CONSTANTS
  OTA_MAX_SIZE,    \* 0x20000: bytes of the firmware and of the bank after it
  Chunks,          \* payloads of the append command: sequences of bytes
  Addresses,       \* addresses the central sends; 0 without four bytes for one
  InitialFlash     \* what the flash may hold at first

OTA_BANK_START == OTA_MAX_SIZE
ASSUME OtaAssumption ==
  /\ Byte = 0..Erased /\ Erased \in Nat \ {0}
  /\ OTA_MAX_SIZE \in Nat \ {0}
  /\ OTA_MAX_SIZE % SectorSize = 0 /\ OTA_MAX_SIZE % PageSize = 0
  /\ 2 * OTA_MAX_SIZE =< FlashSize
  /\ Addresses \subseteq Nat
  /\ InitialFlash \subseteq Flash
  /\ Chunks \subseteq Seq(Byte)

VARIABLES
  flash,
  ramd_to_flash_temp_buffer,
  ram_position,
  out_buffer,      \* cells 5 and 6, the only ones the program reads again
  crc_out,
  pc,              \* "run", "erase" and "copy" while installing; "broken",
                   \* and "lost" once memcpy has left the buffer
  copy_address     \* the loop variable of write_ota_firmware_to_flash

ram == <<ramd_to_flash_temp_buffer, ram_position, out_buffer, crc_out>>
vars == <<flash, ram, pc, copy_address>>

Buffer == [0..(PageSize - 1) -> Byte]
Zeroed == [i \in 0..(PageSize - 1) |-> 0]
Base == Erased + 1                 \* 2^8
Firmware == 0..(OTA_MAX_SIZE - 1)
Bank == OTA_BANK_START..(OTA_BANK_START + OTA_MAX_SIZE - 1)

StorageTypeOK ==
  /\ flash \in Flash
  /\ ramd_to_flash_temp_buffer \in Buffer
  /\ ram_position \in Nat /\ (pc # "lost" => ram_position =< PageSize)
  /\ out_buffer \in [{5, 6} -> Byte]
  /\ pc \in {"run", "erase", "copy", "broken", "lost"}
  /\ copy_address \in Nat

\* The loops step from boundary to boundary.
Aligned ==
  /\ pc = "erase" => copy_address % SectorSize = 0
  /\ pc = "copy" => copy_address % PageSize = 0

TypeOK == StorageTypeOK /\ Aligned /\ crc_out \in 0..(Base * Base - 1)
-----------------------------------------------------------------------------
(* The commands *)

Command == pc = "run" /\ UNCHANGED <<pc, copy_address>>

\* Every command but 6 and 7 starts the sum over.  Mutant: it is kept.
KeepSum == UNCHANGED crc_out
ClearSum == crc_out' = 0

\* Mutant of the next test: no upper bound.
AboveStart(address) == address >= OTA_BANK_START

\* The test of commands 1 and 2.
InBank(address) ==
  /\ address >= OTA_BANK_START
  /\ address < OTA_BANK_START + OTA_MAX_SIZE - PageSize

ResetBuffer ==
  /\ ramd_to_flash_temp_buffer' = Zeroed
  /\ ram_position' = 0

\* Command 1
EraseSector(address) ==
  /\ Command
  /\ ClearSum
  /\ flash' = IF InBank(address) THEN flash_erase_sector(flash, address)
                                 ELSE flash
  /\ ResetBuffer
  /\ UNCHANGED out_buffer

\* Command 2
WritePage(address) ==
  /\ Command
  /\ ClearSum
  /\ flash' = IF InBank(address)
              THEN flash_write_page(flash, address, ram_position,
                                    ramd_to_flash_temp_buffer)
              ELSE flash
  /\ ResetBuffer
  /\ UNCHANGED out_buffer

\* The test of command 3 on len = data_len - 1, the bytes behind the command's.
\* Mutant: the length is forgotten.
HasRoom(len) == ram_position =< PageSize
Fits(len) == ram_position + len =< PageSize

\* Command 3: a chunk that does not fit is dropped.
AppendChunk(chunk) ==
  /\ Command
  /\ ClearSum
  /\ \/ /\ ~Fits(Len(chunk))
        /\ UNCHANGED <<ramd_to_flash_temp_buffer, ram_position>>
     \/ /\ Fits(Len(chunk))
        /\ ramd_to_flash_temp_buffer' =
             [i \in 0..(PageSize - 1) |->
                IF i - ram_position \in 0..(Len(chunk) - 1)
                THEN chunk[i - ram_position + 1]
                ELSE ramd_to_flash_temp_buffer[i]]
        /\ ram_position' = ram_position + Len(chunk)
  /\ UNCHANGED <<flash, out_buffer>>

\* A write without any byte, while the receive buffer still holds a 3 of the
\* last one, is a command 3 as well: data_len - 1 is -1, which passes the test.
\* memcpy then never comes to an end (its int length counts down from -1) and
\* overwrites the memory around the buffer: nothing is said of what follows.
AppendNothing ==
  /\ pc = "run" /\ Fits(-1)
  /\ ClearSum
  /\ pc' = "lost"
  /\ ramd_to_flash_temp_buffer' \in Buffer
  /\ ram_position' = (ram_position - 1) % (Base * Base)
  /\ UNCHANGED <<flash, out_buffer, copy_address>>

\* Commands 4 and 5 fetch bytes of the flash or of the page buffer into
\* out_buffer.  Addresses count from cell 5; past the array anything is read.
Fetch(memory, address) ==
  out_buffer' \in {out \in [{5, 6} -> Byte] :
                     \A i \in {5, 6} : address + i - 5 \in DOMAIN memory =>
                                         out[i] = memory[address + i - 5]}

ReadFlash(address) ==
  /\ Command
  /\ ClearSum
  /\ Fetch(flash, address)
  /\ UNCHANGED <<flash, ramd_to_flash_temp_buffer, ram_position>>

ReadBuffer(address) ==
  /\ Command
  /\ ClearSum
  /\ Fetch(ramd_to_flash_temp_buffer, address)
  /\ UNCHANGED <<flash, ramd_to_flash_temp_buffer, ram_position>>

\* Command 6 adds every byte of the bank to crc_out, page by page through the
\* page buffer, in which the last page stays.
BankSum ==
  LET sum[n \in 0..OTA_MAX_SIZE] ==
        IF n = 0 THEN 0 ELSE sum[n - 1] + flash[OTA_BANK_START + (n - 1)]
  IN sum[OTA_MAX_SIZE]

Checksum ==
  /\ Command
  /\ crc_out' = (crc_out + BankSum) % (Base * Base)
  /\ ramd_to_flash_temp_buffer' =
       flash_read_page(flash, OTA_BANK_START + OTA_MAX_SIZE - PageSize, PageSize)
  /\ UNCHANGED <<flash, ram_position, out_buffer>>

\* The test of command 7.
InstallAllowed(magic) ==
  /\ magic
  /\ out_buffer[5] = crc_out \div Base
  /\ out_buffer[6] = crc_out % Base

Install(magic) ==
  /\ pc = "run"
  /\ InstallAllowed(magic)
  /\ pc' = "erase"
  /\ copy_address' = 0
  /\ UNCHANGED <<flash, ram>>
-----------------------------------------------------------------------------
(* write_ota_firmware_to_flash *)

\* A start of main() from a reset: RAM is loaded afresh.
Restart ==
  /\ ramd_to_flash_temp_buffer' = Zeroed
  /\ ram_position' = 0
  /\ out_buffer' = [i \in {5, 6} |-> 0]
  /\ crc_out' = 0
  /\ copy_address' = 0

\* The test of both loops.  Mutant: one round too many.
OneMoreRound == copy_address =< OTA_MAX_SIZE
MoreToDo == copy_address < OTA_MAX_SIZE

\* Mutant of EraseStep: the address never moves on.
EraseSame ==
  /\ pc = "erase"
  /\ MoreToDo
  /\ flash' = flash_erase_sector(flash, copy_address)
  /\ UNCHANGED <<ram, pc, copy_address>>

EraseStep ==
  /\ pc = "erase"
  /\ MoreToDo
  /\ flash' = flash_erase_sector(flash, copy_address)
  /\ copy_address' = copy_address + SectorSize
  /\ UNCHANGED <<ram, pc>>

\* Mutant of EraseDone: the address is not set back for the copy.
EraseDoneHere ==
  /\ pc = "erase"
  /\ ~MoreToDo
  /\ pc' = "copy"
  /\ UNCHANGED <<flash, ram, copy_address>>

EraseDone ==
  /\ pc = "erase"
  /\ ~MoreToDo
  /\ pc' = "copy"
  /\ copy_address' = 0
  /\ UNCHANGED <<flash, ram>>

CopyStep ==
  /\ pc = "copy"
  /\ MoreToDo
  /\ ramd_to_flash_temp_buffer' =
       flash_read_page(flash, OTA_BANK_START + copy_address, PageSize)
  /\ flash' = flash_write_page(flash, copy_address, PageSize,
                               ramd_to_flash_temp_buffer')
  /\ copy_address' = copy_address + PageSize
  /\ UNCHANGED <<ram_position, out_buffer, crc_out, pc>>

CopyDone ==
  /\ pc = "copy"
  /\ ~MoreToDo
  /\ pc' = "run"
  /\ Restart
  /\ UNCHANGED flash

Installing == EraseStep \/ EraseDone \/ CopyStep \/ CopyDone
-----------------------------------------------------------------------------
(* Restarts *)

\* Command 0.
Reboot == pc = "run" /\ Restart /\ UNCHANGED <<flash, pc>>

\* Waking from deep retention keeps what is marked RAM; crc_out is not.
DeepRetention ==
  /\ Command
  /\ crc_out' = 0
  /\ UNCHANGED <<flash, ramd_to_flash_temp_buffer, ram_position, out_buffer>>

\* Between the first erase and the last page of an installation the firmware
\* bank is no whole image, and nothing is left that could repair it.
PowerLoss ==
  /\ pc \in {"run", "erase", "copy"}
  /\ pc' = IF pc = "run" \/ (pc = "erase" /\ copy_address = 0)
           THEN "run" ELSE "broken"
  /\ Restart
  /\ UNCHANGED flash
-----------------------------------------------------------------------------
Init ==
  /\ flash \in InitialFlash
  /\ ramd_to_flash_temp_buffer = Zeroed
  /\ ram_position = 0
  /\ out_buffer = [i \in {5, 6} |-> 0]
  /\ crc_out = 0
  /\ pc = "run"
  /\ copy_address = 0

Next ==
  \/ \E address \in Addresses :
       \/ EraseSector(address) \/ WritePage(address)
       \/ ReadFlash(address) \/ ReadBuffer(address)
  \/ AppendNothing \/ \E chunk \in Chunks : AppendChunk(chunk)
  \/ \E magic \in BOOLEAN : Install(magic)
  \/ Checksum \/ Reboot \/ DeepRetention \/ PowerLoss
  \/ Installing

\* The copy is a loop with interrupts off.
Fairness == WF_vars(Installing)

Spec == Init /\ [][Next]_vars
FairSpec == Spec /\ Fairness
-----------------------------------------------------------------------------
(* Properties *)

\* Whatever addresses the central sends, its commands change no byte outside
\* the bank: not the running firmware, not the settings behind the bank.  (As
\* far as the program is still itself: AppendNothing ends what can be said.)
CommandsStayInBank ==
  [][pc = "run" => \A a \in Cells \ Bank : flash'[a] = flash[a]]_vars

\* An installation leaves the bank as it is, so the image it copies is the one
\* that was in the bank when it began.
InstallKeepsBank ==
  [][pc # "run" => \A a \in Cells \ Firmware : flash'[a] = flash[a]]_vars

\* The copy made so far: before the first page all of the firmware is erased;
\* then the pages passed equal those of the bank and the rest is still erased.
\* A device that restarts after an installation runs exactly the bank's image.
CopyProgress ==
  /\ pc = "erase" => \A a \in Firmware : a < copy_address => flash[a] = Erased
  /\ pc = "copy" => \A a \in Firmware :
       flash[a] = IF a < copy_address THEN flash[OTA_BANK_START + a] ELSE Erased

\* A checksum never outlives the bank it is about: a crc_out other than zero is
\* the bank's present sum, or a multiple of it when command 6 was repeated.
ChecksumFresh ==
  pc = "run" /\ crc_out # 0 =>
    \E k \in 1..(Base * Base) : crc_out = (k * BankSum) % (Base * Base)

\* "writing one bank (256byte) to flash at given sector" (ota.c:75), in a bank
\* of OTA_MAX_SIZE bytes (ota.c:35): command 2 programs a full buffer into
\* whatever page of the bank it is sent for.
EveryPageWritable ==
  [][\A address \in Addresses :
       /\ address \in Bank /\ address % PageSize = 0
       /\ ram_position = PageSize /\ WritePage(address)
       => \A i \in 0..(PageSize - 1) :
            flash'[address + i] =
              And(flash[address + i], ramd_to_flash_temp_buffer[i])]_vars

\* An installation ends with a restart, unless the power fails for good.
InstallEnds == pc = "erase" ~> pc \in {"run", "broken"}

\* The commands, the loops and every restart together keep the promise of
\* Installation: what a restart runs is the firmware from before or, byte for
\* byte, the whole bank.  The firmware is gone from the first erase on.  A
\* device that is lost to AppendNothing takes no further step here.
Promise == INSTANCE Installation WITH
  Images <- [Firmware -> Byte],
  firmware <- [a \in Firmware |-> flash[a]],
  bank <- [a \in Firmware |-> flash[OTA_BANK_START + a]],
  condition <- CASE pc = "broken" -> "broken"
                 [] pc = "copy" \/ (pc = "erase" /\ copy_address > 0) -> "installing"
                 [] OTHER -> "whole"

InstallsWhole == Promise!Spec
=============================================================================
