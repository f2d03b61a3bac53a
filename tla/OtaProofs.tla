------------------------------ MODULE OtaProofs ------------------------------
(* Proofs about Ota, for flashes, banks, chunks and addresses of any size. *)
EXTENDS Ota, NorFlashProofs

\* The firmware and the bank begin and end at sector and page boundaries.
LEMMA Boundaries ==
  /\ OTA_MAX_SIZE \in Nat \ {0} /\ OTA_BANK_START = OTA_MAX_SIZE
  /\ 0 % SectorSize = 0 /\ 0 % PageSize = 0
  /\ OTA_MAX_SIZE % SectorSize = 0 /\ OTA_MAX_SIZE % PageSize = 0
  /\ (OTA_MAX_SIZE + OTA_MAX_SIZE) % SectorSize = 0
  /\ (OTA_MAX_SIZE + OTA_MAX_SIZE) % PageSize = 0
<1>1. /\ OTA_MAX_SIZE \in Nat \ {0} /\ OTA_MAX_SIZE \in Nat
      /\ SectorSize \in Nat \ {0} /\ PageSize \in Nat \ {0}
      /\ OTA_MAX_SIZE % SectorSize = 0 /\ OTA_MAX_SIZE % PageSize = 0
  BY OtaAssumption, FlashAssumption
<1>2. 0 % SectorSize = 0 /\ 0 % PageSize = 0
  BY <1>1, SMT
<1>3. QED
  BY <1>1, <1>2, MultipleSum DEF OTA_BANK_START

\* The guard of commands 1 and 2 lets through addresses of the bank only.
LEMMA InBankIsBank ==
  ASSUME NEW address \in Nat, InBank(address)
  PROVE  address \in OTA_MAX_SIZE..(OTA_MAX_SIZE + OTA_MAX_SIZE - 1)
  BY Boundaries, FlashAssumption, SMT DEF InBank

LEMMA BankCells ==
  /\ Bank = OTA_MAX_SIZE..(OTA_MAX_SIZE + OTA_MAX_SIZE - 1)
  /\ Firmware \subseteq Cells /\ Bank \subseteq Cells
  BY Boundaries, OtaAssumption, FlashAssumption, SMT
  DEF Bank, Firmware, Cells, OTA_BANK_START
\* Sixteen bits.
LEMMA Width == Base * Base \in Nat \ {0} /\ 0 \in 0..(Base * Base - 1)
<1>1. Base \in Nat \ {0}
  BY OtaAssumption, SMT DEF Base
<1>2. QED
  BY <1>1, SMT
-----------------------------------------------------------------------------
(* Types of everything but the sum, which is a fold over the bank. *)

IInv == StorageTypeOK /\ Aligned

\* A step that leaves the loops alone keeps their address aligned.
LEMMA AlignedKept ==
  ASSUME Aligned, \/ UNCHANGED <<pc, copy_address>>
                  \/ copy_address' = 0 /\ pc' \in {"run", "erase", "copy", "broken"}
  PROVE  Aligned'
  BY Boundaries DEF Aligned

\* The loops step to the next boundary, and the last block ends the region.
LEMMA LoopStep ==
  ASSUME IInv, copy_address < OTA_MAX_SIZE
  PROVE  /\ pc = "erase" => /\ (copy_address + SectorSize) % SectorSize = 0
                            /\ copy_address + SectorSize =< OTA_MAX_SIZE
         /\ pc = "copy" => /\ (copy_address + PageSize) % PageSize = 0
                           /\ copy_address + PageSize =< OTA_MAX_SIZE
<1>1. /\ copy_address \in Nat /\ OTA_MAX_SIZE \in Nat
      /\ SectorSize \in Nat \ {0} /\ PageSize \in Nat \ {0}
      /\ SectorSize \in Nat /\ PageSize \in Nat
      /\ SectorSize % SectorSize = 0 /\ PageSize % PageSize = 0
  BY Boundaries, FlashAssumption, SMT DEF IInv, StorageTypeOK
<1>2. CASE pc = "erase"
  BY <1>1, <1>2, Boundaries, MultipleSum DEF IInv, Aligned
<1>3. CASE pc = "copy"
  BY <1>1, <1>3, Boundaries, MultipleSum DEF IInv, Aligned
<1>4. QED
  BY <1>2, <1>3

\* A page read from the flash fills the page buffer with bytes.
LEMMA ReadTyped ==
  ASSUME NEW address \in Nat, address + PageSize =< FlashSize, flash \in Flash
  PROVE  flash_read_page(flash, address, PageSize) \in Buffer
<1>1. \A i \in 0..(PageSize - 1) : address + i \in Cells
  BY FlashAssumption DEF Cells
<1>2. QED
  BY <1>1 DEF flash_read_page, Buffer, Flash

\* A buffer of zeros is a buffer of bytes.
LEMMA ZeroedTyped == Zeroed \in Buffer /\ 0 \in Byte
  BY OtaAssumption, FlashAssumption DEF Zeroed, Buffer

\* The variables keep their types, for flashes and banks of any size.
THEOREM StorageTypeCorrect == Spec => []IInv
<1>1. Init => IInv
  BY ZeroedTyped, OtaAssumption, FlashAssumption, Boundaries
  DEF Init, IInv, StorageTypeOK, Aligned
<1>2. IInv /\ [Next]_vars => StorageTypeOK'
  <2> SUFFICES ASSUME IInv, [Next]_vars PROVE StorageTypeOK'
    OBVIOUS
  <2> USE DEF IInv
  <2>1. CASE UNCHANGED vars
    BY <2>1 DEF StorageTypeOK, vars, ram
  <2>2. ASSUME NEW address \in Addresses, EraseSector(address)
        PROVE  StorageTypeOK'
    <3>1. flash' \in Flash
      BY <2>2, EraseTyped DEF EraseSector, StorageTypeOK
    <3>2. QED
      BY <2>2, <3>1, ZeroedTyped, FlashAssumption
      DEF EraseSector, Command, ResetBuffer, StorageTypeOK
  <2>3. ASSUME NEW address \in Addresses, WritePage(address)
        PROVE  StorageTypeOK'
    <3>1. flash' \in Flash
      <4>1. address \in Nat /\ ram_position \in Nat /\ flash \in Flash
        BY OtaAssumption, FlashAssumption DEF StorageTypeOK
      <4>2. \A i \in Nat : i < ram_position => ramd_to_flash_temp_buffer[i] \in Byte
        <5>1. ram_position =< PageSize /\ PageSize \in Nat
          BY <2>3, FlashAssumption DEF WritePage, Command, StorageTypeOK
        <5>2. \A i \in 0..(PageSize - 1) : ramd_to_flash_temp_buffer[i] \in Byte
          BY DEF StorageTypeOK, Buffer
        <5>3. QED
          BY <4>1, <5>1, <5>2
      <4>3. QED
        BY <2>3, <4>1, <4>2, WriteTyped DEF WritePage
    <3>2. QED
      BY <2>3, <3>1, ZeroedTyped, FlashAssumption
      DEF WritePage, Command, ResetBuffer, StorageTypeOK
  <2>4. ASSUME NEW address \in Addresses, ReadFlash(address) \/ ReadBuffer(address)
        PROVE  StorageTypeOK'
    BY <2>4 DEF ReadFlash, ReadBuffer, Fetch, Command, StorageTypeOK
  <2>5. ASSUME NEW chunk \in Chunks, AppendChunk(chunk)
        PROVE  StorageTypeOK'
    <3>1. chunk \in Seq(Byte) /\ Len(chunk) \in Nat
      BY OtaAssumption
    <3>2. CASE ~Fits(Len(chunk))
      BY <2>5, <3>2 DEF AppendChunk, Command, StorageTypeOK
    <3>3. CASE Fits(Len(chunk))
      <4>1. ram_position' \in Nat /\ ram_position' =< PageSize
        BY <2>5, <3>1, <3>3, FlashAssumption DEF AppendChunk, Fits, StorageTypeOK
      <4>2. ASSUME NEW i \in 0..(PageSize - 1),
                   i - ram_position \in 0..(Len(chunk) - 1)
            PROVE  chunk[i - ram_position + 1] \in Byte
        <5>1. i - ram_position + 1 \in 1..Len(chunk)
          BY <3>1, <4>2, FlashAssumption DEF StorageTypeOK
        <5>2. QED
          BY <3>1, <5>1
      <4>3. ramd_to_flash_temp_buffer' \in Buffer
        BY <2>5, <3>3, <4>2 DEF AppendChunk, StorageTypeOK, Buffer
      <4>4. QED
        BY <2>5, <4>1, <4>3 DEF AppendChunk, Command, StorageTypeOK
    <3>4. QED
      BY <3>2, <3>3
  <2>6. ASSUME NEW magic \in BOOLEAN, Install(magic)
        PROVE  StorageTypeOK'
    BY <2>6 DEF Install, StorageTypeOK, ram
  <2>7. CASE Checksum
    <3>1. ramd_to_flash_temp_buffer' \in Buffer
      <4>1. PageSize =< OTA_MAX_SIZE
        BY OtaAssumption, FlashAssumption, SMT
      <4>2. /\ OTA_BANK_START + OTA_MAX_SIZE - PageSize \in Nat
            /\ (OTA_BANK_START + OTA_MAX_SIZE - PageSize) + PageSize =< FlashSize
        BY <4>1, Boundaries, OtaAssumption, FlashAssumption, SMT
      <4>3. QED
        BY <2>7, <4>2, ReadTyped DEF Checksum, StorageTypeOK
    <3>2. QED
      BY <2>7, <3>1 DEF Checksum, Command, StorageTypeOK
  <2>8. CASE Reboot \/ PowerLoss \/ CopyDone
    BY <2>8, ZeroedTyped, FlashAssumption
    DEF Reboot, PowerLoss, CopyDone, Restart, StorageTypeOK
  <2>9. CASE DeepRetention
    BY <2>9 DEF DeepRetention, Command, StorageTypeOK
  <2>10. CASE EraseStep
    <3>1. flash' \in Flash
      BY <2>10, EraseTyped DEF EraseStep, StorageTypeOK
    <3>2. QED
      BY <2>10, <3>1, FlashAssumption DEF EraseStep, StorageTypeOK, ram
  <2>11. CASE EraseDone
    BY <2>11 DEF EraseDone, StorageTypeOK, ram
  <2>12. CASE CopyStep
    <3>1. /\ OTA_BANK_START + copy_address \in Nat
          /\ (OTA_BANK_START + copy_address) + PageSize =< FlashSize
      BY <2>12, LoopStep, Boundaries, OtaAssumption, FlashAssumption
      DEF CopyStep, MoreToDo, StorageTypeOK
    <3>2. ramd_to_flash_temp_buffer' \in Buffer
      BY <2>12, <3>1, ReadTyped DEF CopyStep, StorageTypeOK
    <3>3. flash' \in Flash
      <4>1. copy_address \in Nat /\ PageSize \in Nat /\ flash \in Flash
        BY FlashAssumption DEF StorageTypeOK
      <4>2. \A i \in 0..(PageSize - 1) : ramd_to_flash_temp_buffer'[i] \in Byte
        BY <3>2 DEF Buffer
      <4>3. QED
        BY <2>12, <4>1, <4>2, WriteTyped DEF CopyStep
    <3>4. QED
      BY <2>12, <3>2, <3>3, FlashAssumption DEF CopyStep, StorageTypeOK
  <2>13. CASE AppendNothing
    <3>1. ram_position' \in Nat
      <4> DEFINE m == Base * Base
                 n == ram_position - 1
      <4>1. m \in Nat \ {0} /\ n \in Int /\ ram_position' = n % m
        BY <2>13, Width DEF AppendNothing, StorageTypeOK
      <4> HIDE DEF m, n
      <4>2. QED
        BY <4>1, SMT
    <3>2. QED
      BY <2>13, <3>1 DEF AppendNothing, StorageTypeOK
  <2>14. QED
    BY <2>1, <2>2, <2>3, <2>4, <2>5, <2>6, <2>7, <2>8, <2>9, <2>10, <2>11, <2>12,
       <2>13
    DEF Next, Installing
<1>3. IInv /\ [Next]_vars => Aligned'
  <2> SUFFICES ASSUME IInv, [Next]_vars PROVE Aligned'
    OBVIOUS
  <2>1. CASE UNCHANGED <<pc, copy_address>>
    BY <2>1, AlignedKept DEF IInv
  <2>2. CASE EraseStep
    BY <2>2, LoopStep DEF EraseStep, MoreToDo, Aligned
  <2>3. CASE CopyStep
    BY <2>3, LoopStep DEF CopyStep, MoreToDo, Aligned
  <2>4. CASE EraseDone \/ CopyDone \/ Reboot \/ PowerLoss
    BY <2>4, AlignedKept
    DEF EraseDone, CopyDone, Reboot, PowerLoss, Restart, IInv, StorageTypeOK
  <2>5. CASE \E magic \in BOOLEAN : Install(magic)
    BY <2>5, AlignedKept DEF Install, IInv
  <2>6. CASE AppendNothing
    BY <2>6 DEF AppendNothing, Aligned
  <2>7. QED
    BY <2>1, <2>2, <2>3, <2>4, <2>5, <2>6
    DEF Next, Installing, EraseSector, WritePage, ReadFlash, ReadBuffer,
        AppendChunk, Checksum, DeepRetention, Command, vars
<1>4. QED
  BY <1>1, <1>2, <1>3, PTL DEF Spec, IInv
-----------------------------------------------------------------------------
(* What the commands and the installation may change. *)

\* No command changes a byte outside the bank, whatever address it carries:
\* sectors and pages of addresses that pass the guard lie within the bank.
THEOREM CommandsKeepFirmware == Spec => CommandsStayInBank
<1>1. IInv /\ [Next]_vars =>
        [pc = "run" => \A a \in Cells \ Bank : flash'[a] = flash[a]]_vars
  <2> SUFFICES ASSUME IInv, Next, pc = "run", NEW a \in Cells \ Bank
               PROVE  flash'[a] = flash[a]
    OBVIOUS
  <2> DEFINE top == OTA_MAX_SIZE + OTA_MAX_SIZE
  <2>1. /\ flash \in Flash /\ top \in Nat /\ OTA_MAX_SIZE \in Nat
        /\ a \in Cells \ (OTA_MAX_SIZE..(top - 1))
        /\ OTA_MAX_SIZE % SectorSize = 0 /\ OTA_MAX_SIZE % PageSize = 0
        /\ top % SectorSize = 0 /\ top % PageSize = 0
    BY Boundaries, BankCells DEF IInv, StorageTypeOK
  <2>2. \A address \in Addresses :
          InBank(address) => address \in OTA_MAX_SIZE..(top - 1)
    BY InBankIsBank, OtaAssumption
  <2> HIDE DEF top
  <2>3. ASSUME NEW address \in Addresses, EraseSector(address)
        PROVE  flash'[a] = flash[a]
    BY <2>1, <2>2, <2>3, EraseOutside DEF EraseSector
  <2>4. ASSUME NEW address \in Addresses, WritePage(address)
        PROVE  flash'[a] = flash[a]
    BY <2>1, <2>2, <2>4, WriteOutside DEF WritePage
  <2>5. CASE UNCHANGED flash
    BY <2>5
  <2>6. QED
    BY <2>3, <2>4, <2>5
    DEF Next, Installing, ReadFlash, ReadBuffer, AppendChunk,
        AppendNothing, Install, Checksum, Reboot, DeepRetention, PowerLoss,
        EraseStep, EraseDone, CopyStep, CopyDone
<1>2. QED
  BY <1>1, StorageTypeCorrect, PTL DEF CommandsStayInBank, Spec

\* An installation changes no byte outside the firmware: the bank it copies
\* from, and the settings behind it, stay as they are.
THEOREM InstallationKeepsBank == Spec => InstallKeepsBank
<1>1. IInv /\ [Next]_vars =>
        [pc # "run" => \A a \in Cells \ Firmware : flash'[a] = flash[a]]_vars
  <2> SUFFICES ASSUME IInv, Next, pc # "run", NEW a \in Cells \ Firmware
               PROVE  flash'[a] = flash[a]
    OBVIOUS
  <2>1. /\ flash \in Flash /\ 0 \in Nat /\ OTA_MAX_SIZE \in Nat
        /\ a \in Cells \ (0..(OTA_MAX_SIZE - 1))
        /\ OTA_MAX_SIZE % SectorSize = 0 /\ OTA_MAX_SIZE % PageSize = 0
        /\ 0 % SectorSize = 0 /\ 0 % PageSize = 0
    BY Boundaries DEF IInv, StorageTypeOK, Firmware
  <2>2. copy_address < OTA_MAX_SIZE => copy_address \in 0..(OTA_MAX_SIZE - 1)
    BY <2>1 DEF IInv, StorageTypeOK
  <2>3. CASE EraseStep
    BY <2>1, <2>2, <2>3, EraseOutside DEF EraseStep, MoreToDo
  <2>4. CASE CopyStep
    BY <2>1, <2>2, <2>4, WriteOutside DEF CopyStep, MoreToDo
  <2>5. CASE UNCHANGED flash
    BY <2>5
  <2>6. QED
    BY <2>3, <2>4, <2>5
    DEF Next, Installing, ReadFlash, ReadBuffer, AppendChunk,
        AppendNothing, Install, Checksum, Reboot, DeepRetention, PowerLoss,
        EraseDone, CopyDone, EraseSector,
        WritePage, Command
<1>2. QED
  BY <1>1, StorageTypeCorrect, PTL DEF InstallKeepsBank, Spec
-----------------------------------------------------------------------------
(* The copy itself. *)

\* While erasing, everything below the address is erased.
LEMMA EraseProgress ==
  ASSUME IInv, CopyProgress, EraseStep
  PROVE  CopyProgress'
<1>1. /\ flash \in Flash /\ copy_address \in Nat
      /\ copy_address % SectorSize = 0 /\ SectorSize \in Nat
    BY FlashAssumption DEF EraseStep, IInv, StorageTypeOK, Aligned
<1>2. ASSUME NEW a \in Firmware, a < copy_address'
      PROVE  flash'[a] = Erased
  <2>1. a \in Cells /\ a \in Nat
    BY BankCells, Boundaries DEF Firmware
  <2>2. flash'[a] = IF a \in copy_address..(copy_address + SectorSize - 1)
                    THEN Erased ELSE flash[a]
    BY <1>1, <2>1, EraseAt DEF EraseStep
  <2>3. a < copy_address => flash[a] = Erased
    BY DEF EraseStep, CopyProgress
  <2>4. QED
    BY <1>1, <1>2, <2>1, <2>2, <2>3 DEF EraseStep
<1>3. pc' = "erase"
  BY DEF EraseStep
<1>4. QED
  BY <1>2, <1>3 DEF CopyProgress

\* While copying, the pages passed equal the bank's, the others are erased.
LEMMA CopyStepProgress ==
  ASSUME IInv, CopyProgress, CopyStep
  PROVE  CopyProgress'
<1> DEFINE data == flash_read_page(flash, OTA_BANK_START + copy_address, PageSize)
<1>1. /\ flash \in Flash /\ copy_address \in Nat /\ OTA_MAX_SIZE \in Nat
      /\ copy_address % PageSize = 0 /\ PageSize \in Nat \ {0}
      /\ copy_address < OTA_MAX_SIZE /\ OTA_BANK_START = OTA_MAX_SIZE
      /\ copy_address + PageSize =< OTA_MAX_SIZE
  BY LoopStep, FlashAssumption, Boundaries
  DEF CopyStep, MoreToDo, IInv, StorageTypeOK, Aligned
<1>2. data \in [0..(PageSize - 1) -> Byte]
  <2>1. /\ OTA_BANK_START + copy_address \in Nat
        /\ (OTA_BANK_START + copy_address) + PageSize =< FlashSize
    BY <1>1, OtaAssumption, FlashAssumption
  <2>2. QED
    BY <1>1, <2>1, ReadTyped DEF Buffer
<1>3. flash' = flash_write_page(flash, copy_address, PageSize, data)
  BY DEF CopyStep
<1>4. \A i \in 0..(PageSize - 1) :
        data[i] = flash[(OTA_BANK_START + copy_address) + i]
  BY DEF flash_read_page
<1> HIDE DEF data
<1>5. ASSUME NEW a \in Firmware
      PROVE  /\ a \in Cells /\ a \in Nat /\ OTA_BANK_START + a \in Cells
             /\ OTA_BANK_START + a \notin copy_address..(copy_address + PageSize - 1)
             /\ flash[a] = IF a < copy_address
                           THEN flash[OTA_BANK_START + a] ELSE Erased
  BY <1>1, BankCells, OtaAssumption, FlashAssumption
  DEF Firmware, Cells, CopyProgress, CopyStep
<1>6. ASSUME NEW a \in Firmware
      PROVE  flash'[OTA_BANK_START + a] = flash[OTA_BANK_START + a]
  <2> DEFINE b == OTA_BANK_START + a
  <2>1. b \in Cells /\ b \notin copy_address..(copy_address + PageSize - 1)
    BY <1>5, <1>6
  <2> HIDE DEF b
  <2>2. flash_write_page(flash, copy_address, PageSize, data)[b] = flash[b]
    BY <1>1, <1>2, <2>1, WriteAt
  <2>3. QED
    BY <1>3, <2>2 DEF b
<1>7. ASSUME NEW a \in Firmware
      PROVE  flash'[a] = IF a \in copy_address..(copy_address + PageSize - 1)
                         THEN data[a - copy_address] ELSE flash[a]
  BY <1>1, <1>2, <1>3, <1>5, WriteAt
<1>8. ASSUME NEW a \in Firmware
      PROVE  flash'[a] = IF a < copy_address + PageSize
                         THEN flash'[OTA_BANK_START + a] ELSE Erased
  <2>1. CASE a \in copy_address..(copy_address + PageSize - 1)
    <3>1. a - copy_address \in 0..(PageSize - 1)
      BY <1>1, <2>1
    <3>2. data[a - copy_address]
            = flash[(OTA_BANK_START + copy_address) + (a - copy_address)]
      BY <1>4, <3>1
    <3>3. (OTA_BANK_START + copy_address) + (a - copy_address) = OTA_BANK_START + a
      BY <1>1, <1>5
    <3>4. a < copy_address + PageSize
      BY <1>1, <2>1
    <3>5. QED
      BY <1>6, <1>7, <2>1, <3>2, <3>3, <3>4
  <2>2. CASE a \notin copy_address..(copy_address + PageSize - 1)
    <3>1. flash'[a] = flash[a]
      BY <1>7, <2>2
    <3>2. a < copy_address + PageSize <=> a < copy_address
      BY <1>1, <1>5, <2>2
    <3>3. QED
      BY <1>5, <1>6, <3>1, <3>2
  <2>3. QED
    BY <2>1, <2>2
<1>9. pc' = "copy" /\ copy_address' = copy_address + PageSize
  BY DEF CopyStep
<1>10. QED
  BY <1>8, <1>9 DEF CopyProgress

\* At every moment of an installation the firmware is as far copied as the
\* loop says; when it ends the device starts exactly the image of the bank.
THEOREM CopyIsFaithful == Spec => []CopyProgress
<1>1. Init => CopyProgress
  BY DEF Init, CopyProgress
<1>2. IInv /\ CopyProgress /\ [Next]_vars => CopyProgress'
  <2> SUFFICES ASSUME IInv, CopyProgress, [Next]_vars PROVE CopyProgress'
    OBVIOUS
  <2>1. CASE UNCHANGED vars
    BY <2>1 DEF CopyProgress, vars
  <2>2. CASE EraseStep
    BY <2>2, EraseProgress
  <2>3. CASE EraseDone
    <3>1. /\ pc = "erase" /\ pc' = "copy" /\ copy_address' = 0 /\ flash' = flash
          /\ copy_address \in Nat /\ OTA_MAX_SIZE \in Nat /\ ~MoreToDo
      BY <2>3, Boundaries DEF EraseDone, IInv, StorageTypeOK
    <3>2. \A a \in Firmware : a < copy_address /\ ~(a < 0)
      BY <3>1 DEF Firmware, MoreToDo
    <3>3. QED
      BY <3>1, <3>2 DEF CopyProgress
  <2>4. CASE CopyStep
    BY <2>4, CopyStepProgress
  <2>5. CASE pc' \in {"run", "broken"}
    BY <2>5 DEF CopyProgress
  <2>6. CASE \E magic \in BOOLEAN : Install(magic)
    <3>1. pc' = "erase" /\ copy_address' = 0 /\ \A a \in Firmware : ~(a < 0)
      BY <2>6, Boundaries DEF Install, Firmware
    <3>2. QED
      BY <3>1 DEF CopyProgress
  <2>7. CASE AppendNothing
    BY <2>7 DEF AppendNothing, CopyProgress
  <2>8. QED
    BY <2>1, <2>2, <2>3, <2>4, <2>5, <2>6, <2>7
    DEF Next, Installing, EraseSector, WritePage, ReadFlash, ReadBuffer,
        AppendChunk, Checksum, Reboot, DeepRetention, PowerLoss, CopyDone, Command
<1>3. QED
  BY <1>1, <1>2, StorageTypeCorrect, PTL DEF Spec
-----------------------------------------------------------------------------
(* The sum *)

\* The sum over the bank exists and is a number, for banks of any size.
LEMMA SumTyped ==
  ASSUME flash \in Flash
  PROVE  BankSum \in Nat
<1> DEFINE g == [i \in 0..(OTA_MAX_SIZE - 1) |-> flash[OTA_BANK_START + i]]
           F == CHOOSE sum : sum = [n \in 0..OTA_MAX_SIZE |->
                  IF n = 0 THEN 0 ELSE sum[n - 1] + flash[OTA_BANK_START + (n - 1)]]
<1>1. \A i \in 0..(OTA_MAX_SIZE - 1) : g[i] \in Nat
  <2>1. \A i \in 0..(OTA_MAX_SIZE - 1) : OTA_BANK_START + i \in Cells
    BY Boundaries, OtaAssumption, FlashAssumption DEF Cells
  <2>2. Byte \subseteq Nat
    BY OtaAssumption
  <2>3. QED
    BY <2>1, <2>2 DEF Flash
<1>2. ASSUME NEW f
      PROVE  Partial(f, OTA_MAX_SIZE, g) <=>
               f = [n \in 0..OTA_MAX_SIZE |->
                 IF n = 0 THEN 0 ELSE f[n - 1] + flash[OTA_BANK_START + (n - 1)]]
  <2>1. \A n \in 0..OTA_MAX_SIZE :
          n # 0 => g[n - 1] = flash[OTA_BANK_START + (n - 1)]
    BY Boundaries
  <2> HIDE DEF g
  <2>2. [n \in 0..OTA_MAX_SIZE |-> IF n = 0 THEN 0 ELSE f[n - 1] + g[n - 1]]
          = [n \in 0..OTA_MAX_SIZE |->
               IF n = 0 THEN 0 ELSE f[n - 1] + flash[OTA_BANK_START + (n - 1)]]
    BY <2>1
  <2>3. QED
    BY <2>2 DEF Partial
<1>3. BankSum = F[OTA_MAX_SIZE]
  BY DEF BankSum
<1> HIDE DEF g
<1>4. \E f : Partial(f, OTA_MAX_SIZE, g)
  BY Boundaries, PartialExists
<1>5. F = [n \in 0..OTA_MAX_SIZE |->
             IF n = 0 THEN 0 ELSE F[n - 1] + flash[OTA_BANK_START + (n - 1)]]
  BY <1>2, <1>4
<1> HIDE DEF F
<1>6. Partial(F, OTA_MAX_SIZE, g)
  BY <1>2, <1>5
<1>7. QED
  BY <1>1, <1>3, <1>6, Boundaries, PartialTyped

SumInv == crc_out \in 0..(Base * Base - 1) /\ ChecksumFresh

LEMMA ChecksumKeeps ==
  ASSUME IInv, SumInv, Checksum
  PROVE  SumInv'
<1> DEFINE M == Base * Base
<1>1. /\ M \in Nat \ {0} /\ BankSum \in Nat /\ pc = "run" /\ flash' = flash
      /\ crc_out' = (crc_out + BankSum) % M /\ crc_out \in 0..(M - 1)
  BY SumTyped, Width DEF IInv, StorageTypeOK, SumInv, Checksum, Command
<1>2. BankSum' = BankSum
  BY <1>1 DEF BankSum
<1> HIDE DEF M
<1>3. crc_out' \in 0..(M - 1)
  BY <1>1, Division
<1>4. \E k \in 1..M : crc_out' = (k * BankSum) % M
  <2>1. CASE crc_out = 0
    <3>1. crc_out + BankSum = 1 * BankSum /\ 1 \in 1..M
      BY <1>1, <2>1
    <3>2. QED
      BY <1>1, <3>1
  <2>2. CASE crc_out # 0
    <3>1. PICK k \in 1..M : crc_out = (k * BankSum) % M
      BY <1>1, <2>2 DEF SumInv, ChecksumFresh, M
    <3>2. QED
      BY <1>1, <3>1, NextMultiple
  <2>3. QED
    BY <2>1, <2>2
<1>5. QED
  BY <1>2, <1>3, <1>4 DEF SumInv, ChecksumFresh, M

LEMMA NextSumInv == IInv /\ SumInv /\ [Next]_vars => SumInv'
<1> SUFFICES ASSUME IInv, SumInv, [Next]_vars PROVE SumInv'
  OBVIOUS
<1>1. CASE crc_out' = 0
  BY <1>1, Width DEF SumInv, ChecksumFresh
<1>2. CASE Checksum
  BY <1>2, ChecksumKeeps
<1>3. CASE pc' # "run" /\ crc_out' = crc_out
  BY <1>3 DEF SumInv, ChecksumFresh
<1>4. CASE UNCHANGED <<crc_out, flash, pc>>
  BY <1>4 DEF SumInv, ChecksumFresh, BankSum
<1>5. QED
  BY <1>1, <1>2, <1>3, <1>4
  DEF Next, Installing, EraseSector, WritePage, ReadFlash, ReadBuffer, AppendChunk,
      AppendNothing, ClearSum, Install, EraseStep, EraseDone, CopyStep, CopyDone,
      Reboot, Restart, DeepRetention, PowerLoss, vars, ram

\* Every variable keeps its type, the sum its sixteen bits, and the position
\* stays within the buffer until an append of nothing has lost the device.
THEOREM TypeCorrect == Spec => []TypeOK
<1>1. Init => SumInv
  BY Width DEF Init, SumInv, ChecksumFresh
<1>2. IInv /\ SumInv => TypeOK
  BY DEF IInv, SumInv, TypeOK
<1>3. QED
  BY <1>1, <1>2, StorageTypeCorrect, NextSumInv, PTL DEF Spec

\* A sum that is not zero is that of the present bank, or a multiple of it: the
\* commands that change the bank start it over, a restart and a wake-up too.
THEOREM SumIsFresh == Spec => []ChecksumFresh
<1>1. Init => SumInv
  BY Width DEF Init, SumInv, ChecksumFresh
<1>2. SumInv => ChecksumFresh
  BY DEF SumInv
<1>3. QED
  BY <1>1, <1>2, StorageTypeCorrect, NextSumInv, PTL DEF Spec
-----------------------------------------------------------------------------
(* The refinement *)

firmware_image == [a \in Firmware |-> flash[a]]
bank_image == [a \in Firmware |-> flash[OTA_BANK_START + a]]
condition ==
  CASE pc = "broken" -> "broken"
    [] pc = "copy" \/ (pc = "erase" /\ copy_address > 0) -> "installing"
    [] OTHER -> "whole"

LEMMA ImagesTyped ==
  ASSUME NEW f \in Flash
  PROVE  /\ [a \in Firmware |-> f[a]] \in [Firmware -> Byte]
         /\ [a \in Firmware |-> f[OTA_BANK_START + a]] \in [Firmware -> Byte]
<1>1. \A a \in Firmware : a \in Cells /\ OTA_BANK_START + a \in Cells
  BY BankCells, Boundaries DEF Bank, Firmware
<1>2. QED
  BY <1>1 DEF Flash

\* The images change with the flash alone.
LEMMA ImagesKept ==
  ASSUME UNCHANGED flash
  PROVE  UNCHANGED <<firmware_image, bank_image>>
  BY DEF firmware_image, bank_image

LEMMA ConditionOf ==
  ASSUME IInv
  PROVE  /\ pc = "run" => condition = "whole"
         /\ pc = "broken" => condition = "broken"
         /\ pc = "copy" => condition = "installing"
         /\ pc = "erase" /\ copy_address = 0 => condition = "whole"
         /\ pc = "erase" /\ copy_address # 0 => condition = "installing"
  BY DEF condition, IInv, StorageTypeOK

\* A command fills the bank, if it changes anything.
LEMMA CommandRefines ==
  ASSUME IInv, IInv', pc = "run", pc' = "run",
         \A a \in Cells \ Bank : flash'[a] = flash[a]
  PROVE  Promise!Receive
<1>1. condition = "whole" /\ condition' = "whole"
  BY ConditionOf DEF condition
<1>2. bank_image' \in [Firmware -> Byte]
  BY ImagesTyped DEF IInv, StorageTypeOK, bank_image
<1>3. \A a \in Firmware : a \in Cells \ Bank
  BY BankCells, Boundaries DEF Bank, Firmware
<1>4. firmware_image' = firmware_image
  BY <1>3 DEF firmware_image
<1>5. QED
  BY <1>1, <1>2, <1>4 DEF Promise!Receive, condition, bank_image, firmware_image

\* A step of one of the two loops overwrites a part of the firmware.
LEMMA LoopRefines ==
  ASSUME IInv, IInv', EraseStep \/ CopyStep,
         \A a \in Cells \ Firmware : flash'[a] = flash[a]
  PROVE  Promise!Overwrite
<1>1. condition \in {"whole", "installing"}
  BY DEF EraseStep, CopyStep, condition
<1>2. condition' = "installing"
  <2>1. CASE EraseStep
    <3>1. pc' = "erase" /\ copy_address' > 0
      BY <2>1, FlashAssumption DEF EraseStep, IInv, StorageTypeOK
    <3>2. QED
      BY <3>1 DEF condition
  <2>2. CASE CopyStep
    BY <2>2 DEF CopyStep, condition
  <2>3. QED
    BY <2>1, <2>2
<1>3. firmware_image' \in [Firmware -> Byte]
  BY ImagesTyped DEF IInv, StorageTypeOK, firmware_image
<1>4. \A a \in Firmware : OTA_BANK_START + a \in Cells \ Firmware
  BY BankCells, Boundaries DEF Bank, Firmware
<1>5. bank_image' = bank_image
  BY <1>4 DEF bank_image
<1>6. QED
  BY <1>1, <1>2, <1>3, <1>5 DEF Promise!Overwrite, condition, bank_image, firmware_image

\* When the copy ends, the firmware is the bank.
LEMMA EndRefines ==
  ASSUME IInv, CopyProgress, CopyDone
  PROVE  Promise!Finish
<1>1. condition = "installing" /\ condition' = "whole"
  BY DEF CopyDone, condition
<1>2. UNCHANGED <<firmware_image, bank_image>>
  BY ImagesKept DEF CopyDone
<1>3. \A a \in Firmware : a < copy_address
  BY Boundaries DEF CopyDone, MoreToDo, IInv, StorageTypeOK, Firmware
<1>4. firmware_image = bank_image
  BY <1>3 DEF CopyDone, CopyProgress, firmware_image, bank_image
<1>5. QED
  BY <1>1, <1>2, <1>4 DEF Promise!Finish, condition, bank_image, firmware_image

\* The commands, the two loops, and every restart and loss of power together do
\* what Installation promises: the firmware is replaced as a whole or not at
\* all, and from the first erase to the last page it is gone.
THEOREM InstallationRefined == Spec => InstallsWhole
<1>1. IInv /\ Init => Promise!Init
  <2> SUFFICES ASSUME IInv, Init PROVE Promise!Init
    OBVIOUS
  <2>1. condition = "whole"
    BY DEF Init, condition
  <2>2. QED
    BY <2>1, ImagesTyped
    DEF IInv, StorageTypeOK, Promise!Init, condition, bank_image, firmware_image
<1>2. /\ IInv /\ IInv' /\ CopyProgress /\ [Next]_vars
      /\ [pc = "run" => \A a \in Cells \ Bank : flash'[a] = flash[a]]_vars
      /\ [pc # "run" => \A a \in Cells \ Firmware : flash'[a] = flash[a]]_vars
      => [Promise!Next]_(Promise!vars)
  <2> SUFFICES ASSUME IInv, IInv', CopyProgress, [Next]_vars,
        [pc = "run" => \A a \in Cells \ Bank : flash'[a] = flash[a]]_vars,
        [pc # "run" => \A a \in Cells \ Firmware : flash'[a] = flash[a]]_vars
               PROVE  [Promise!Next]_(Promise!vars)
    OBVIOUS
  <2>1. CASE UNCHANGED <<flash, pc, copy_address>>
    <3>1. UNCHANGED <<firmware_image, bank_image, condition>>
      BY <2>1, ImagesKept DEF condition
    <3>2. QED
      BY <3>1 DEF Promise!vars, condition, bank_image, firmware_image
  <2>2. CASE pc = "run" /\ pc' = "run" /\ ~UNCHANGED vars
    BY <2>2, CommandRefines DEF Promise!Next
  <2>3. CASE EraseStep \/ CopyStep
    <3>1. pc # "run" /\ ~UNCHANGED vars
      BY <2>3, FlashAssumption DEF EraseStep, CopyStep, vars, IInv, StorageTypeOK
    <3>2. QED
      BY <2>3, <3>1, LoopRefines DEF Promise!Next
  <2>4. CASE CopyDone
    BY <2>4, EndRefines DEF Promise!Next
  <2>5. CASE EraseDone
    <3>1. copy_address > 0 /\ copy_address' = 0 /\ pc = "erase" /\ pc' = "copy"
      BY <2>5, Boundaries DEF EraseDone, MoreToDo, IInv, StorageTypeOK
    <3>2. condition' = condition
      BY <3>1 DEF condition
    <3>3. UNCHANGED <<firmware_image, bank_image>>
      BY <2>5, ImagesKept DEF EraseDone
    <3>4. QED
      BY <3>2, <3>3 DEF Promise!vars, condition, bank_image, firmware_image
  <2>6. CASE PowerLoss
    <3>1. UNCHANGED <<firmware_image, bank_image>>
      BY <2>6, ImagesKept DEF PowerLoss
    <3>2. CASE pc = "run" \/ (pc = "erase" /\ copy_address = 0)
      <4>1. condition = "whole" /\ condition' = "whole"
        BY <2>6, <3>2 DEF PowerLoss, condition
      <4>2. QED
        BY <3>1, <4>1 DEF Promise!vars, condition, bank_image, firmware_image
    <3>3. CASE ~(pc = "run" \/ (pc = "erase" /\ copy_address = 0))
      <4>1. condition = "installing" /\ condition' = "broken"
        BY <2>6, <3>3 DEF PowerLoss, condition, IInv, StorageTypeOK
      <4>2. QED
        BY <3>1, <4>1
        DEF Promise!Next, Promise!Break, condition, bank_image, firmware_image
    <3>4. QED
      BY <3>2, <3>3
  <2>7. ASSUME NEW magic \in BOOLEAN, Install(magic)
        PROVE  UNCHANGED Promise!vars
    <3>1. condition = "whole" /\ condition' = "whole"
      BY <2>7 DEF Install, condition
    <3>2. UNCHANGED <<firmware_image, bank_image>>
      BY <2>7, ImagesKept DEF Install
    <3>3. QED
      BY <3>1, <3>2 DEF Promise!vars, condition, bank_image, firmware_image
  <2>8. CASE AppendNothing
    <3>1. condition = "whole" /\ condition' = "whole"
      BY <2>8 DEF AppendNothing, condition
    <3>2. UNCHANGED <<firmware_image, bank_image>>
      BY <2>8, ImagesKept DEF AppendNothing
    <3>3. QED
      BY <3>1, <3>2 DEF Promise!vars, condition, bank_image, firmware_image
  <2>9. QED
    BY <2>1, <2>2, <2>3, <2>4, <2>5, <2>6, <2>7, <2>8
    DEF Next, Installing, EraseSector, WritePage, ReadFlash, ReadBuffer,
        AppendChunk, Checksum, Reboot, DeepRetention, Command, vars
<1>3. QED
  BY <1>1, <1>2, StorageTypeCorrect, CopyIsFaithful, CommandsKeepFirmware,
     InstallationKeepsBank, PTL
  DEF Spec, InstallsWhole, Promise!Spec, CommandsStayInBank, InstallKeepsBank
=============================================================================
