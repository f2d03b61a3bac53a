------------------------------ MODULE BootProofs ------------------------------
(* Proofs about Settings and Boot: whenever the program runs, flash holds the  *)
(* record in RAM and the next boot will accept it; nothing but the defaults    *)
(* replaces a record, unless the bits a torn save leaves set cancel; and the   *)
(* device has never advertised under two addresses.                            *)
EXTENDS Boot, NorFlashProofs, FiniteSetTheorems

LEMMA Layout ==
  /\ CrcByte \in Nat /\ Len(Header) \in Nat /\ Len(Defaults) \in Nat
  /\ CrcByte = Len(Header) + Len(Defaults)
  /\ CrcByte < PageSize /\ PageSize \in Nat \ {0} /\ Address \in Nat
  /\ \A i \in 0..CrcByte : Address + i \in Cells
  BY SettingsAssumption, FlashAssumption DEF CrcByte, Cells

LEMMA OptionBytes ==
  /\ \A i \in 0..(Len(Header) - 1) : Header[i + 1] \in Byte
  /\ \A i \in 0..(CrcByte - 1) :
       i >= Len(Header) => Defaults[i - Len(Header) + 1] \in Byte
<1>1. ASSUME NEW i \in 0..(Len(Header) - 1) PROVE Header[i + 1] \in Byte
  <2>1. i + 1 \in 1..Len(Header)
    BY Layout
  <2>2. QED
    BY <2>1, SettingsAssumption
<1>2. ASSUME NEW i \in 0..(CrcByte - 1), i >= Len(Header)
      PROVE  Defaults[i - Len(Header) + 1] \in Byte
  <2>1. i - Len(Header) + 1 \in 1..Len(Defaults)
    BY <1>2, Layout
  <2>2. QED
    BY <2>1, SettingsAssumption
<1>3. QED
  BY <1>1, <1>2

LEMMA ResetTyped ==
  ASSUME NEW record \in Record
  PROVE  reset_settings_to_default(record) \in Record
  BY Layout, OptionBytes DEF reset_settings_to_default, Record

LEMMA StoredTyped ==
  ASSUME flash \in Flash
  PROVE  /\ Stored \in Record
         /\ \A i \in 0..CrcByte : Stored[i] = flash[Address + i]
<1>1. Stored = [i \in 0..CrcByte |-> flash[Address + i]]
  BY Layout DEF Stored, flash_read_page
<1>2. QED
  BY <1>1, Layout DEF Record, Flash
-----------------------------------------------------------------------------
(* The checksum *)

\* get_crc does not read the checksum itself.
LEMMA CrcOfRest ==
  ASSUME NEW r1, NEW r2, \A i \in 0..(CrcByte - 1) : r1[i] = r2[i]
  PROVE  get_crc(r1) = get_crc(r2)
<1>1. ASSUME NEW bit
      PROVE  {i \in 0..(CrcByte - 1) : bit \in r1[i]}
               = {i \in 0..(CrcByte - 1) : bit \in r2[i]}
  OBVIOUS
<1>2. QED
  BY <1>1 DEF get_crc

LEMMA SealedIsValid ==
  ASSUME NEW record \in Record, HeaderValid(record)
  PROVE  /\ Sealed(record) \in Record
         /\ Valid(Sealed(record))
<1>1. get_crc(record) \in Byte
  BY SettingsAssumption DEF get_crc
<1>2. /\ Sealed(record) \in Record
      /\ Sealed(record)[CrcByte] = get_crc(record)
      /\ \A i \in 0..(CrcByte - 1) : Sealed(record)[i] = record[i]
  BY <1>1, Layout DEF Sealed, Record
<1>3. get_crc(Sealed(record)) = get_crc(record)
  BY <1>2, CrcOfRest
<1>4. \A i \in 0..(Len(Header) - 1) : Sealed(record)[i] = Header[i + 1]
  BY <1>2, Layout DEF HeaderValid
<1>5. QED
  BY <1>2, <1>3, <1>4 DEF Valid

LEMMA ResetHasHeader ==
  ASSUME NEW record PROVE HeaderValid(reset_settings_to_default(record))
  BY Layout DEF HeaderValid, reset_settings_to_default
\* The defaults are the same whatever record they replace.
LEMMA FactoryIsOne ==
  ASSUME NEW r1 \in Record, NEW r2 \in Record
  PROVE  Sealed(reset_settings_to_default(r1)) = Sealed(reset_settings_to_default(r2))
<1> DEFINE d1 == reset_settings_to_default(r1)
           d2 == reset_settings_to_default(r2)
<1>1. d1 \in Record /\ d2 \in Record
  BY ResetTyped
<1>2. \A i \in 0..(CrcByte - 1) : d1[i] = d2[i]
  BY Layout DEF reset_settings_to_default
<1> HIDE DEF d1, d2
<1>3. get_crc(d1) = get_crc(d2)
  BY <1>2, CrcOfRest
<1>4. \A i \in 0..CrcByte : i # CrcByte => d1[i] = d2[i]
  BY <1>2, Layout
<1>5. /\ Sealed(d1) = [i \in 0..CrcByte |->
                        IF i = CrcByte THEN get_crc(d1) ELSE d1[i]]
      /\ Sealed(d2) = [i \in 0..CrcByte |->
                        IF i = CrcByte THEN get_crc(d2) ELSE d2[i]]
  BY <1>1 DEF Sealed, Record
<1>6. Sealed(d1) = Sealed(d2)
  BY <1>3, <1>4, <1>5
<1>7. QED
  BY <1>6 DEF d1, d2

LEMMA SealedAlready ==
  ASSUME NEW record \in Record, Valid(record) PROVE Sealed(record) = record
  BY DEF Sealed, Valid, Record

\* The positions of a record, the checksum's among them, that have a bit.
Having(bit, record) == {i \in 0..CrcByte : bit \in record[i]}

\* In a record that passes they are even in number.
LEMMA ValidIsEven ==
  ASSUME NEW record \in Record, Valid(record), NEW bit \in Erased
  PROVE  /\ IsFiniteSet(Having(bit, record))
         /\ Cardinality(Having(bit, record)) \in Nat
         /\ Cardinality(Having(bit, record)) % 2 = 0
<1> DEFINE rest == {i \in 0..(CrcByte - 1) : bit \in record[i]}
           n == Cardinality(rest)
<1>1. IsFiniteSet(rest)
  <2>1. IsFiniteSet(0..(CrcByte - 1))
    BY Layout, FS_Interval
  <2>2. QED
    BY <2>1, FS_Subset
<1>2. n \in Nat
  BY <1>1, FS_CardinalityType
<1>3. bit \in record[CrcByte] <=> n % 2 = 1
  BY DEF Valid, get_crc
<1>4. CrcByte \notin rest
  BY Layout
<1>5. CASE bit \in record[CrcByte]
  <2>1. Having(bit, record) = rest \cup {CrcByte}
    BY <1>5, Layout DEF Having
  <2> HIDE DEF rest
  <2>2. /\ IsFiniteSet(Having(bit, record))
        /\ Cardinality(Having(bit, record)) = n + 1
    BY <1>1, <1>4, <2>1, FS_AddElement
  <2> HIDE DEF n
  <2>3. (n + 1) % 2 = 0
    BY <1>2, <1>3, <1>5, SMT
  <2>4. QED
    BY <1>2, <2>2, <2>3
<1>6. CASE bit \notin record[CrcByte]
  <2>1. Having(bit, record) = rest
    BY <1>6, Layout DEF Having
  <2> HIDE DEF rest
  <2>2. /\ IsFiniteSet(Having(bit, record))
        /\ Cardinality(Having(bit, record)) = n
    BY <1>1, <2>1
  <2> HIDE DEF n
  <2>3. n % 2 = 0
    BY <1>2, <1>3, <1>6, SMT
  <2>4. QED
    BY <1>2, <2>2, <2>3
<1>7. QED
  BY <1>5, <1>6

\* So of two records that pass, the bits that only the larger has cancel.
LEMMA LeftBitsCancel ==
  ASSUME NEW less \in Record, NEW more \in Record, Valid(less), Valid(more),
         \A i \in 0..CrcByte : less[i] \subseteq more[i], NEW bit \in Erased
  PROVE  Cardinality({i \in 0..CrcByte : bit \in more[i] \ less[i]}) % 2 = 0
<1> DEFINE A == Having(bit, less)
           B == Having(bit, more)
           m == Cardinality(A)
           n == Cardinality(B)
<1>1. /\ IsFiniteSet(A) /\ m \in Nat /\ m % 2 = 0
      /\ IsFiniteSet(B) /\ n \in Nat /\ n % 2 = 0
  BY ValidIsEven
<1>2. A \subseteq B
        /\ {i \in 0..CrcByte : bit \in more[i] \ less[i]} = B \ A
  BY DEF Having
<1> HIDE DEF A, B
<1>3. B \cap A = A
  BY <1>2
<1>4. Cardinality(B \ A) = n - m
  BY <1>1, <1>3, FS_Difference
<1> HIDE DEF m, n
<1>5. (n - m) % 2 = 0
  BY <1>1, SMT
<1>6. QED
  BY <1>2, <1>4, <1>5
-----------------------------------------------------------------------------
(* The record in flash *)

LEMMA EraseBlanks ==
  ASSUME NEW i \in 0..CrcByte
  PROVE  flash_erase_sector(flash, Address)[Address + i] = Erased
  BY Layout, SettingsAssumption DEF flash_erase_sector

LEMMA ProgramTyped ==
  ASSUME flash \in Flash, NEW record \in Record, NEW n \in 0..(CrcByte + 1)
  PROVE  flash_write_page(flash, Address, n, record) \in Flash
<1>1. \A i \in Nat : i < n => record[i] \in Byte
  BY Layout DEF Record
<1>2. n \in Nat
  BY Layout
<1>3. QED
  BY <1>1, <1>2, Layout, WriteTyped

\* Programming blank cells leaves exactly the record.
LEMMA ProgramWrites ==
  ASSUME flash \in Flash, NEW record \in Record, NEW i \in 0..CrcByte,
         flash[Address + i] = Erased
  PROVE  flash_write_page(flash, Address, CrcByte + 1, record)[Address + i]
           = record[i]
<1>1. /\ Address + i \in Cells /\ i \in 0..(PageSize - 1) /\ i < CrcByte + 1
      /\ (Address + i) - Address = i
      /\ PageOf(Address + i) = PageOf(Address)
  BY Layout, SettingsAssumption
<1>2. i % PageSize = i
  BY <1>1, Layout, SmallRest
<1>3. And(Erased, record[i]) = record[i]
  BY AndAssumption DEF Record
<1>4. CrcByte + 1 \in Nat /\ CrcByte + 1 =< PageSize
  BY Layout
<1>5. flash_write_page(flash, Address, CrcByte + 1, record) =
        [a \in Cells |->
           IF PageOf(a) = PageOf(Address) /\ (a - Address) % PageSize < CrcByte + 1
           THEN And(flash[a], record[(a - Address) % PageSize]) ELSE flash[a]]
  BY <1>4, Layout, WriteShort
<1>6. QED
  BY <1>1, <1>2, <1>3, <1>5

\* What a loss of power leaves of an erase or a program is a flash.
LEMMA TornSaveTyped ==
  ASSUME flash \in Flash, settings \in Record, PowerLoss
  PROVE  flash' \in Flash
<1>1. flash_erase_sector(flash, Address) \in Flash
  BY EraseTyped
<1>2. flash_write_page(flash, Address, CrcByte + 1, settings) \in Flash
  <2>1. CrcByte + 1 \in 0..(CrcByte + 1)
    BY Layout
  <2>2. QED
    BY <2>1, ProgramTyped
<1>3. QED
  BY <1>1, <1>2, TornTyped DEF PowerLoss
-----------------------------------------------------------------------------
(* The invariant *)

\* Inside a save the record in RAM is sealed, and before it is programmed its
\* cells are blank.
IInv ==
  /\ TypeOK
  /\ pc \in {"erase", "program"} => Valid(settings) /\ saves > 0
  /\ pc = "program" => \A i \in 0..CrcByte : flash[Address + i] = Erased
  /\ StoredIsCurrent

LEMMA InitIInv == Init => IInv
<1> SUFFICES ASSUME Init PROVE IInv
  OBVIOUS
<1>1. {} \in Byte
  BY SettingsAssumption
<1>2. TypeOK
  BY <1>1, SettingsAssumption DEF Init, TypeOK, Record
<1>3. QED
  BY <1>2 DEF Init, IInv, StoredIsCurrent

\* Starting to save a record with the right header.
LEMMA StartKeeps ==
  ASSUME IInv, NEW record \in Record, HeaderValid(record), NEW n \in {1, 2},
         StartSaves(record, n), UNCHANGED flash
  PROVE  IInv'
<1>1. Sealed(record) \in Record /\ Valid(Sealed(record))
  BY SealedIsValid
<1>2. TypeOK'
  BY <1>1 DEF IInv, TypeOK, StartSaves
<1>3. QED
  BY <1>1, <1>2 DEF IInv, StartSaves, StoredIsCurrent, Valid, get_crc

LEMMA NextIInv == IInv /\ [Next]_vars => IInv'
<1> SUFFICES ASSUME IInv, [Next]_vars PROVE IInv'
  OBVIOUS
<1> USE DEF StoredIsCurrent
<1>1. /\ flash \in Flash /\ settings \in Record /\ Stored \in Record
  BY StoredTyped DEF IInv, TypeOK
<1>2. CASE init_flash
  <2>1. CASE Valid(Stored)
    <3>1. settings' = Stored /\ pc' = "run" /\ saves' = 0 /\ flash' = flash
      BY <1>2, <2>1 DEF init_flash
    <3>2. Stored' = Stored /\ TypeOK'
      BY <1>1, <3>1 DEF Stored, TypeOK
    <3>3. QED
      BY <2>1, <3>1, <3>2 DEF IInv, Valid, get_crc
  <2>2. CASE ~Valid(Stored)
    BY <1>1, <1>2, <2>2, ResetTyped, ResetHasHeader, StartKeeps DEF init_flash
  <2>3. QED
    BY <2>1, <2>2
<1>3. CASE Erase
  <2>1. flash' \in Flash
    BY <1>1, <1>3, EraseTyped DEF Erase
  <2>2. \A i \in 0..CrcByte : flash'[Address + i] = Erased
    BY <1>3, EraseBlanks DEF Erase
  <2>3. Valid(settings)'
    BY <1>3 DEF Erase, IInv, Valid, get_crc
  <2>4. QED
    BY <1>3, <2>1, <2>2, <2>3 DEF Erase, IInv, TypeOK
<1>4. CASE Program
  <2>1. flash' \in Flash
    <3>1. CrcByte + 1 \in 0..(CrcByte + 1)
      BY Layout
    <3>2. QED
      BY <1>1, <1>4, <3>1, ProgramTyped DEF Program
  <2>2. \A i \in 0..CrcByte : flash'[Address + i] = settings[i]
    BY <1>1, <1>4, ProgramWrites DEF Program, IInv
  <2>3. Valid(settings) /\ HeaderValid(settings)
    BY <1>4 DEF Program, IInv, Valid, HeaderValid
  <2>4. CASE saves > 1
    <3>1. Sealed(settings) \in Record /\ Valid(Sealed(settings))
      BY <1>1, <2>3, SealedIsValid
    <3>2. pc' = "erase" /\ settings' = Sealed(settings) /\ saves' = saves - 1
      BY <1>4, <2>4 DEF Program
    <3>3. saves' \in 0..2 /\ saves' > 0
      BY <2>4, <3>2 DEF IInv, TypeOK
    <3>4. Valid(settings)'
      BY <3>1, <3>2 DEF Valid, get_crc
    <3>5. QED
      BY <2>1, <3>1, <3>2, <3>3, <3>4 DEF IInv, TypeOK
  <2>5. CASE ~(saves > 1)
    <3>1. pc' = "run" /\ settings' = settings /\ saves' = saves - 1
      BY <1>4, <2>5 DEF Program
    <3>2. Stored' = settings
      BY <1>1, <2>2, Layout DEF Stored, flash_read_page, Record
    <3>3. saves' \in 0..2
      BY <1>4, <2>5, <3>1 DEF Program, IInv, TypeOK
    <3>4. Valid(Stored)'
      BY <2>3, <3>2 DEF Valid, get_crc
    <3>5. QED
      BY <1>1, <2>1, <3>1, <3>2, <3>3, <3>4 DEF IInv, TypeOK
  <2>6. QED
    BY <2>4, <2>5
<1>5. CASE SaveDefaults
  BY <1>1, <1>5, ResetTyped, ResetHasHeader, StartKeeps DEF SaveDefaults
<1>6. CASE SaveCurrent
  <2>1. HeaderValid(settings)
    BY <1>6 DEF SaveCurrent, IInv, Valid, HeaderValid
  <2>2. QED
    BY <1>1, <1>6, <2>1, StartKeeps DEF SaveCurrent
<1>7. CASE PowerLoss
  <2>1. flash' \in Flash
    BY <1>1, <1>7, TornSaveTyped
  <2>2. settings' \in Record
    BY <1>7, SettingsAssumption DEF PowerLoss, Record
  <2>3. QED
    BY <1>7, <2>1, <2>2 DEF PowerLoss, IInv, TypeOK
<1>8. CASE UNCHANGED vars
  BY <1>8 DEF vars, IInv, TypeOK, Valid, get_crc, Stored
<1>9. QED
  BY <1>2, <1>3, <1>4, <1>5, <1>6, <1>7, <1>8 DEF Next

\* Every variable of the settings model keeps its type, whatever the layout of
\* the record and however the flash tears.
THEOREM SettingsTypeCorrect == Spec => []TypeOK
<1>1. IInv => TypeOK
  BY DEF IInv
<1>2. QED
  BY InitIInv, NextIInv, <1>1, PTL DEF Spec

\* However often power fails inside a save, by the time the program runs flash
\* holds the record in RAM, and the check of the next boot accepts it.
THEOREM StoredAlwaysCurrent == Spec => []StoredIsCurrent
<1>1. IInv => StoredIsCurrent
  BY DEF IInv
<1>2. QED
  BY InitIInv, NextIInv, <1>1, PTL DEF Spec
-----------------------------------------------------------------------------
(* What the next boot finds *)

\* A step replaces the settings by nothing but the defaults, or leaves a mixture
\* that passes.
Replaces ==
  \/ (IF pc' = "boot" THEN InFlash' ELSE settings') \in {InFlash, settings, Factory}
  \/ PassingMixture

LEMMA FactoryKept ==
  ASSUME settings \in Record, settings' \in Record PROVE Factory' = Factory
<1>1. Sealed(reset_settings_to_default(settings'))
        = Sealed(reset_settings_to_default(settings))
  BY FactoryIsOne
<1>2. QED
  BY <1>1 DEF Factory, Sealed, reset_settings_to_default, get_crc

LEMMA InFlashPrimed == InFlash' = IF Valid(Stored') THEN Stored' ELSE Factory'
  BY DEF InFlash, Valid, get_crc

LEMMA StoredPrimed ==
  ASSUME flash' \in Flash
  PROVE  Stored' \in Record /\ \A i \in 0..CrcByte : Stored'[i] = flash'[Address + i]
<1>1. Stored' = [i \in 0..CrcByte |-> flash'[Address + i]]
  BY Layout DEF Stored, flash_read_page
<1>2. QED
  BY <1>1, Layout DEF Record, Flash

\* Where the cells of the record keep their contents, the next boot finds what
\* this one would have found.
LEMMA SameRecord ==
  ASSUME flash \in Flash, flash' \in Flash, settings \in Record, settings' \in Record,
         \A i \in 0..CrcByte : flash'[Address + i] = flash[Address + i]
  PROVE  InFlash' = InFlash
<1>1. /\ Stored = [i \in 0..CrcByte |-> flash[Address + i]]
      /\ Stored' = [i \in 0..CrcByte |-> flash'[Address + i]]
  BY Layout DEF Stored, flash_read_page
<1>2. Stored' = Stored
  BY <1>1
<1>3. Factory' = Factory
  BY FactoryKept
<1>4. QED
  BY <1>2, <1>3, InFlashPrimed DEF InFlash

\* Bits an interrupted operation leaves set are added to those it would clear.
LEMMA TornAbove ==
  ASSUME NEW fewer \in Flash, NEW more \in Flash, NEW torn \in Torn(fewer, more),
         NEW a \in Cells, fewer[a] \subseteq more[a]
  PROVE  fewer[a] \subseteq torn[a]
<1>1. PICK bits \in TornBits : torn[a] = And(more[a], Or(fewer[a], bits[a]))
  BY DEF Torn, Between
<1>2. more[a] \in Byte /\ fewer[a] \in Byte /\ bits[a] \in Byte
  BY TornAssumption DEF Flash
<1>3. Or(fewer[a], bits[a]) \in Byte
  BY <1>2, TornAssumption
<1>4. torn[a] = more[a] \cap (fewer[a] \cup bits[a])
  BY <1>1, <1>2, <1>3, SettingsAssumption
<1>5. QED
  BY <1>4

\* A save cut short: either the check refuses what is left, or it is a mixture
\* whose left bits cancel.
LEMMA CutShort ==
  ASSUME NEW before \in Record, before = IF pc = "erase" THEN Stored ELSE settings,
         pc \in {"erase", "program"}, pc' = "boot", settings \in Record,
         settings' \in Record, flash' \in Flash,
         \A i \in 0..CrcByte : before[i] \subseteq Stored'[i]
  PROVE  Replaces
<1>1. Factory' = Factory /\ Stored' \in Record
  BY FactoryKept, StoredPrimed
<1>2. CASE ~Valid(Stored')
  BY <1>1, <1>2, InFlashPrimed DEF Replaces
<1>3. CASE Valid(Stored')
  <2>1. ASSUME Valid(before), NEW bit \in Erased
        PROVE  Cardinality(LeftSet(bit, before)) % 2 = 0
    BY <1>1, <1>3, <2>1, LeftBitsCancel DEF LeftSet
  <2>2. PassingMixture
    BY <2>1 DEF PassingMixture
  <2>3. QED
    BY <2>2 DEF Replaces
<1>4. QED
  BY <1>2, <1>3

LEMMA PowerLossReplaces == ASSUME IInv, PowerLoss PROVE Replaces
<1>1. /\ flash \in Flash /\ settings \in Record /\ Stored \in Record
      /\ flash' \in Flash /\ settings' \in Record /\ pc' = "boot"
  <2>1. flash \in Flash /\ settings \in Record
    BY DEF IInv, TypeOK
  <2>2. settings' \in Record /\ pc' = "boot"
    BY SettingsAssumption DEF PowerLoss, Record
  <2>3. QED
    BY <2>1, <2>2, TornSaveTyped, StoredTyped
<1>2. CASE pc \notin {"erase", "program"}
  <2>1. flash' = flash
    BY <1>2 DEF PowerLoss
  <2>2. InFlash' = InFlash
    BY <1>1, <2>1, SameRecord
  <2>3. QED
    BY <1>1, <2>2 DEF Replaces
<1>3. CASE pc = "erase"
  <2> DEFINE blank == flash_erase_sector(flash, Address)
  <2>1. flash' \in Torn(flash, blank) /\ blank \in Flash
    BY <1>1, <1>3, EraseTyped DEF PowerLoss
  <2>2. ASSUME NEW i \in 0..CrcByte PROVE Stored[i] \subseteq Stored'[i]
    <3> DEFINE a == Address + i
    <3>1. a \in Cells /\ blank[a] = Erased
      BY Layout, EraseBlanks
    <3>2. flash[a] \subseteq blank[a]
      BY <1>1, <3>1, SettingsAssumption DEF Flash
    <3> HIDE DEF a, blank
    <3>3. flash[a] \subseteq flash'[a]
      BY <1>1, <2>1, <3>1, <3>2, TornAbove
    <3>4. QED
      BY <1>1, <3>3, StoredTyped, StoredPrimed DEF a
  <2>3. QED
    BY <1>1, <1>3, <2>2, CutShort
<1>4. CASE pc = "program"
  <2> DEFINE whole == flash_write_page(flash, Address, CrcByte + 1, settings)
  <2>1. flash' \in Torn(whole, flash) /\ whole \in Flash
    <3>1. CrcByte + 1 \in 0..(CrcByte + 1)
      BY Layout
    <3>2. QED
      BY <1>1, <1>4, <3>1, ProgramTyped DEF PowerLoss
  <2>2. ASSUME NEW i \in 0..CrcByte PROVE settings[i] \subseteq Stored'[i]
    <3> DEFINE a == Address + i
    <3>1. a \in Cells /\ flash[a] = Erased
      BY <1>4, Layout DEF IInv
    <3>2. whole[a] = settings[i]
      BY <1>1, <3>1, ProgramWrites
    <3>3. settings[i] \in Byte
      BY <1>1 DEF Record
    <3>4. whole[a] \subseteq flash[a]
      BY <3>1, <3>2, <3>3, SettingsAssumption
    <3> HIDE DEF a, whole
    <3>5. whole[a] \subseteq flash'[a]
      BY <1>1, <2>1, <3>1, <3>4, TornAbove
    <3>6. QED
      BY <1>1, <3>2, <3>5, StoredPrimed DEF a
  <2>3. QED
    BY <1>1, <1>4, <2>2, CutShort
<1>5. QED
  BY <1>2, <1>3, <1>4 DEF PowerLoss

LEMMA SettingsReplace == ASSUME IInv, Next, IInv' PROVE Replaces
<1>1. /\ flash \in Flash /\ settings \in Record /\ Stored \in Record
  BY StoredTyped DEF IInv, TypeOK
<1>2. CASE init_flash
  <2>1. CASE Valid(Stored)
    <3>1. settings' = InFlash /\ pc' = "run"
      BY <1>2, <2>1 DEF init_flash, InFlash
    <3>2. QED
      BY <3>1 DEF Replaces
  <2>2. CASE ~Valid(Stored)
    <3>1. settings' = Sealed(reset_settings_to_default(Stored)) /\ pc' = "erase"
      BY <1>2, <2>2 DEF init_flash, StartSaves
    <3>2. settings' = Factory
      BY <1>1, <3>1, FactoryIsOne DEF Factory
    <3>3. QED
      BY <3>1, <3>2 DEF Replaces
  <2>3. QED
    BY <2>1, <2>2
<1>3. CASE Erase
  BY <1>3 DEF Erase, Replaces
<1>4. CASE Program
  <2>1. Sealed(settings) = settings
    BY <1>1, <1>4, SealedAlready DEF Program, IInv
  <2>2. settings' = settings /\ pc' # "boot"
    BY <1>4, <2>1 DEF Program
  <2>3. QED
    BY <2>2 DEF Replaces
<1>5. CASE SaveDefaults
  <2>1. settings' = Factory /\ pc' # "boot"
    BY <1>5 DEF SaveDefaults, StartSaves, Factory
  <2>2. QED
    BY <2>1 DEF Replaces
<1>6. CASE SaveCurrent
  <2>1. Valid(settings)
    BY <1>6 DEF SaveCurrent, IInv, StoredIsCurrent, Valid
  <2>2. settings' = settings /\ pc' # "boot"
    BY <1>1, <1>6, <2>1, SealedAlready DEF SaveCurrent, StartSaves
  <2>3. QED
    BY <2>2 DEF Replaces
<1>7. CASE PowerLoss
  BY <1>7, PowerLossReplaces
<1>8. QED
  BY <1>2, <1>3, <1>4, <1>5, <1>6, <1>7 DEF Next

\* A command puts at most the defaults in place of the settings, and after a power
\* failure the next boot finds what this one had, what it was saving or the
\* defaults; a mixture is taken for a record only when its left bits cancel.
THEOREM OnlyDefaultsEverReplace == Spec => OnlyDefaultsReplace
<1>1. IInv /\ IInv' /\ [Next]_vars => [Replaces]_vars
  BY SettingsReplace
<1>2. [Replaces]_vars =>
        [\/ (IF pc' = "boot" THEN InFlash' ELSE settings')
              \in {InFlash, settings, Factory}
         \/ PassingMixture]_vars
  BY DEF Replaces
<1>3. QED
  BY InitIInv, NextIInv, <1>1, <1>2, PTL DEF Spec, OnlyDefaultsReplace
-----------------------------------------------------------------------------
(* The public address in flash *)

\* The six bytes that blc_initMacAddress reads and tests.
InFlashAddress == flash_read_page(flash, CFG_ADR_MAC, 6)
Drawn == \E i \in 0..5 : flash[CFG_ADR_MAC + i] # Erased

LEMMA AddressLayout ==
  /\ PageSize \in Nat \ {0} /\ SectorSize \in Nat \ {0}
  /\ CFG_ADR_MAC \in Nat /\ Address \in Nat
  /\ \A i \in 0..7 : CFG_ADR_MAC + i \in Cells /\ CFG_ADR_MAC + i \in Nat
  BY BootAssumption, SettingsAssumption, FlashAssumption DEF Cells

\* Eight bytes fit into the page.
LEMMA AddressFits == PageSize >= 8
<1> DEFINE last == CFG_ADR_MAC + 7
           r == last % PageSize
           s == CFG_ADR_MAC % PageSize
<1>1. last \in Nat
  BY AddressLayout
<1>2. r \in 0..(PageSize - 1)
  BY <1>1, AddressLayout, Division
<1>3. s \in 0..(PageSize - 1)
  BY AddressLayout, Division
<1>4. last - r = CFG_ADR_MAC - s
  <2>1. PageOf(CFG_ADR_MAC + 7) = PageOf(CFG_ADR_MAC)
    BY BootAssumption
  <2>2. QED
    BY <2>1 DEF PageOf
<1>5. last = CFG_ADR_MAC + 7
  OBVIOUS
<1> HIDE DEF r, s, last
<1>6. QED
  BY <1>2, <1>3, <1>4, <1>5, AddressLayout

\* The cells of the address and those of the settings share neither sector
\* nor page.
LEMMA Apart ==
  ASSUME NEW i \in 0..7
  PROVE  /\ SectorOf(CFG_ADR_MAC + i) # SectorOf(Address)
         /\ PageOf(CFG_ADR_MAC + i) # PageOf(Address)
<1>1. CFG_ADR_MAC + i \in Nat
  BY AddressLayout
<1>2. SectorOf(CFG_ADR_MAC + i) = SectorOf(CFG_ADR_MAC)
  BY <1>1, AddressLayout, BootAssumption, SamePageSameSector
<1>3. SectorOf(CFG_ADR_MAC + i) # SectorOf(Address)
  BY <1>2, BootAssumption
<1>4. QED
  BY <1>1, <1>3, AddressLayout, SamePageSameSector

\* No step of the settings reaches the cells of the address.
LEMMA SettingsLeaveAddress ==
  ASSUME Next, flash \in Flash, settings \in Record, NEW i \in 0..7
  PROVE  flash'[CFG_ADR_MAC + i] = flash[CFG_ADR_MAC + i]
<1> DEFINE a == CFG_ADR_MAC + i
<1>1. /\ a \in Cells /\ SectorOf(a) # SectorOf(Address)
      /\ PageOf(a) # PageOf(Address)
  BY AddressLayout, Apart
<1> HIDE DEF a
<1>2. CASE UNCHANGED flash
  BY <1>2 DEF a
<1>3. flash_erase_sector(flash, Address)[a] = flash[a]
  BY <1>1, EraseElsewhere
<1>4. \A n : flash_write_page(flash, Address, n, settings)[a] = flash[a]
  BY <1>1, WriteElsewhere
<1>5. CASE PowerLoss
  <2>1. flash_erase_sector(flash, Address) \in Flash
    BY EraseTyped
  <2>2. flash_write_page(flash, Address, CrcByte + 1, settings) \in Flash
    <3>1. CrcByte + 1 \in 0..(CrcByte + 1)
      BY Layout
    <3>2. QED
      BY <3>1, ProgramTyped
  <2>3. QED
    BY <1>1, <1>3, <1>4, <1>5, <2>1, <2>2, TornSame DEF PowerLoss, a
<1>6. QED
  BY <1>2, <1>3, <1>4, <1>5
  DEF Next, init_flash, Erase, Program, SaveDefaults, SaveCurrent, a

\* Programming n bytes of a drawn address into erased cells.
LEMMA PublicCells ==
  ASSUME NEW mac \in PublicAddress, NEW n \in 0..6, NEW i \in 0..5,
         flash \in Flash, flash[CFG_ADR_MAC + i] = Erased
  PROVE  flash_write_page(flash, CFG_ADR_MAC, n, mac)[CFG_ADR_MAC + i] =
           IF i < n THEN mac[i] ELSE Erased
<1>1. i \in 0..(PageSize - 1) /\ i \in 0..7
  BY AddressFits, AddressLayout
<1>2. /\ CFG_ADR_MAC + i \in Cells /\ i \in 0..(PageSize - 1)
      /\ (CFG_ADR_MAC + i) - CFG_ADR_MAC = i
      /\ PageOf(CFG_ADR_MAC + i) = PageOf(CFG_ADR_MAC)
  BY <1>1, AddressLayout, BootAssumption
<1>3. And(Erased, mac[i]) = mac[i]
  BY AndAssumption DEF PublicAddress
<1>4. i % PageSize = i
  BY <1>2, AddressLayout, SmallRest
<1>5. n \in Nat /\ n =< PageSize
  BY AddressFits, AddressLayout
<1>6. QED
  BY <1>2, <1>3, <1>4, <1>5, AddressLayout, WriteShort

LEMMA PublicTyped ==
  ASSUME NEW mac \in PublicAddress, NEW n \in 0..6, flash \in Flash
  PROVE  flash_write_page(flash, CFG_ADR_MAC, n, mac) \in Flash
<1>1. \A i \in Nat : i < n => mac[i] \in Byte
  BY AddressLayout DEF PublicAddress
<1>2. QED
  BY <1>1, AddressLayout, WriteTyped

\* The two bytes behind the address are programmed without touching it.
LEMMA StaticCells ==
  ASSUME NEW draw \in StaticDraws, NEW n \in 0..2, NEW i \in 0..5, flash \in Flash
  PROVE  /\ flash_write_page(flash, CFG_ADR_MAC + 6, n, draw) \in Flash
         /\ flash_write_page(flash, CFG_ADR_MAC + 6, n, draw)[CFG_ADR_MAC + i]
              = flash[CFG_ADR_MAC + i]
<1>1. draw \in [0..1 -> Byte]
  BY BootAssumption
<1>2. \A k \in Nat : k < n => draw[k] \in Byte
  BY <1>1, AddressLayout
<1>3. CFG_ADR_MAC + 6 \in Nat /\ n \in Nat
  BY AddressLayout
<1>4. ((CFG_ADR_MAC + i) - (CFG_ADR_MAC + 6)) % PageSize >= 2
  <2>1. /\ i \in 0..(PageSize - 1) /\ 6 \in 0..(PageSize - 1) /\ i < 6
        /\ (CFG_ADR_MAC + i) - (CFG_ADR_MAC + 6) = i - 6
    BY AddressFits, AddressLayout
  <2>2. (i - 6) % PageSize = (i - 6) + PageSize
    BY <2>1, AddressLayout, WrappedDifference
  <2>3. QED
    BY <2>1, <2>2, AddressFits, AddressLayout
<1>5. ~(((CFG_ADR_MAC + i) - (CFG_ADR_MAC + 6)) % PageSize < n)
  <2> DEFINE m == ((CFG_ADR_MAC + i) - (CFG_ADR_MAC + 6)) % PageSize
  <2>1. m \in Int
    BY AddressLayout, SMT
  <2> HIDE DEF m
  <2>2. m >= 2
    BY <1>4 DEF m
  <2>3. ~(m < n)
    BY <2>1, <2>2
  <2>4. QED
    BY <2>3 DEF m
<1>6. CFG_ADR_MAC + i \in Cells
  BY AddressLayout
<1>7. flash_write_page(flash, CFG_ADR_MAC + 6, n, draw)[CFG_ADR_MAC + i]
        = flash[CFG_ADR_MAC + i]
  BY <1>5, <1>6 DEF flash_write_page
<1>8. QED
  BY <1>2, <1>3, <1>7, WriteTyped
-----------------------------------------------------------------------------
(* The invariant of the start *)

\* Once the device has advertised, its address is in flash; a drawn address that
\* is not, is still to be programmed into erased cells and was never advertised.
AddressInv ==
  /\ \A a \in advertised : a = InFlashAddress /\ Drawn
  /\ stage = "public" =>
       /\ advertised = {} /\ ~Drawn
       /\ \A i \in 3..5 : mac_public[i] = Company[i]
  /\ stage = "static" => mac_public = InFlashAddress /\ Drawn

BootIInv == IInv /\ BootTypeOK /\ AddressInv

LEMMA AddressTyped == ASSUME flash \in Flash PROVE InFlashAddress \in PublicAddress
<1>1. InFlashAddress = [i \in 0..5 |-> flash[CFG_ADR_MAC + i]]
  BY DEF InFlashAddress, flash_read_page
<1>2. \A i \in 0..5 : CFG_ADR_MAC + i \in Cells
  BY AddressLayout
<1>3. QED
  BY <1>1, <1>2 DEF PublicAddress, Flash

LEMMA NoAddressTyped == NoAddress \in PublicAddress
<1>1. {} \in Byte
  BY SettingsAssumption
<1>2. QED
  BY <1>1 DEF NoAddress, PublicAddress

LEMMA InitBootIInv == BootInit => BootIInv
<1> SUFFICES ASSUME BootInit PROVE BootIInv
  OBVIOUS
<1>1. IInv
  BY InitIInv DEF BootInit
<1>2. BootTypeOK
  BY <1>1, NoAddressTyped DEF BootInit, Init, BootTypeOK, IInv
<1>3. QED
  BY <1>1, <1>2 DEF BootInit, BootIInv, AddressInv

\* Until the settings are read, any flash will do for them.
LEMMA SettledKeeps ==
  ASSUME IInv, pc = "boot", Settled, flash' \in Flash
  PROVE  IInv'
  BY DEF IInv, TypeOK, Settled, StoredIsCurrent

\* The first six cells stay, so the address in flash does.
LEMMA SameCells ==
  ASSUME \A i \in 0..5 : flash'[CFG_ADR_MAC + i] = flash[CFG_ADR_MAC + i]
  PROVE  InFlashAddress' = InFlashAddress /\ Drawn' = Drawn
<1>1. InFlashAddress = [i \in 0..5 |-> flash[CFG_ADR_MAC + i]]
  BY DEF InFlashAddress, flash_read_page
<1>2. InFlashAddress' = [i \in 0..5 |-> flash'[CFG_ADR_MAC + i]]
  BY DEF InFlashAddress, flash_read_page
<1>3. QED
  BY <1>1, <1>2 DEF Drawn

LEMMA NextBootIInv == BootIInv /\ [BootNext]_boot_vars => BootIInv'
<1> SUFFICES ASSUME BootIInv, [BootNext]_boot_vars PROVE BootIInv'
  OBVIOUS
<1>1. /\ IInv /\ TypeOK /\ BootTypeOK /\ AddressInv /\ flash \in Flash
      /\ mac_public \in PublicAddress /\ advertised \subseteq PublicAddress
  BY DEF BootIInv, BootTypeOK, TypeOK
<1>2. CASE TakeAddress
  <2>1. stage = "read" /\ Drawn /\ flash' = flash /\ Settled
        /\ mac_public' = InFlashAddress /\ AfterPublic(InFlashAddress)
    BY <1>2 DEF TakeAddress, Drawn, InFlashAddress
  <2>2. InFlashAddress' = InFlashAddress /\ Drawn' = Drawn
    BY <2>1 DEF InFlashAddress, Drawn
  <2>3. IInv'
    BY <1>1, <2>1, SettledKeeps DEF BootTypeOK
  <2>4. InFlashAddress \in PublicAddress
    BY <1>1, AddressTyped
  <2>5. \/ stage' = "static" /\ advertised' = advertised
        \/ stage' = "done" /\ advertised' = advertised \union {InFlashAddress}
    BY <2>1 DEF AfterPublic, Advertise
  <2>6. BootTypeOK'
    BY <1>1, <2>1, <2>3, <2>4, <2>5 DEF BootTypeOK, IInv, Settled
  <2>7. AddressInv'
    BY <1>1, <2>1, <2>2, <2>5 DEF AddressInv
  <2>8. QED
    BY <2>3, <2>6, <2>7 DEF BootIInv
<1>3. ASSUME NEW draw \in PublicDraws, DrawAddress(draw) PROVE BootIInv'
  <2>1. /\ stage = "read" /\ ~Drawn /\ flash' = flash /\ Settled
        /\ mac_public' = [i \in 0..5 |-> IF i < 3 THEN draw[i] ELSE Company[i]]
        /\ stage' = "public" /\ advertised' = advertised
    BY <1>3 DEF DrawAddress, Drawn
  <2>2. mac_public' \in PublicAddress
    <3>1. draw \in [0..2 -> Byte] /\ Company \in [3..5 -> Byte]
      BY BootAssumption
    <3>2. QED
      BY <2>1, <3>1 DEF PublicAddress
  <2>3. Drawn' = Drawn
    BY <2>1 DEF Drawn
  <2>4. IInv'
    BY <1>1, <2>1, SettledKeeps DEF BootTypeOK
  <2>5. BootTypeOK'
    BY <1>1, <2>1, <2>2, <2>4 DEF BootTypeOK, IInv, Settled
  <2>6. AddressInv'
    BY <1>1, <2>1, <2>3 DEF AddressInv
  <2>7. QED
    BY <2>4, <2>5, <2>6 DEF BootIInv
<1>4. CASE ProgramPublic
  <2>1. /\ stage = "public" /\ Settled /\ mac_public' = mac_public
        /\ flash' = flash_write_page(flash, CFG_ADR_MAC, 6, mac_public)
        /\ AfterPublic(mac_public)
    BY <1>4 DEF ProgramPublic
  <2>2. \A i \in 0..5 : flash'[CFG_ADR_MAC + i] = mac_public[i]
    <3> SUFFICES ASSUME NEW i \in 0..5
                 PROVE  flash'[CFG_ADR_MAC + i] = mac_public[i]
      OBVIOUS
    <3>1. flash[CFG_ADR_MAC + i] = Erased
      BY <1>1, <2>1 DEF AddressInv, Drawn
    <3>2. flash_write_page(flash, CFG_ADR_MAC, 6, mac_public)[CFG_ADR_MAC + i] =
            IF i < 6 THEN mac_public[i] ELSE Erased
      BY <1>1, <3>1, PublicCells
    <3>3. QED
      BY <2>1, <3>2
  <2>3. InFlashAddress' = mac_public
    <3>1. InFlashAddress' = [i \in 0..5 |-> flash'[CFG_ADR_MAC + i]]
      BY DEF InFlashAddress, flash_read_page
    <3>2. QED
      BY <1>1, <2>2, <3>1 DEF PublicAddress
  <2>4. Drawn'
    <3>1. PICK i \in 3..5 : Company[i] # Erased
      BY BootAssumption
    <3>2. mac_public[i] = Company[i] /\ i \in 0..5
      BY <1>1, <2>1 DEF AddressInv
    <3>3. QED
      BY <2>2, <3>1, <3>2 DEF Drawn
  <2>5. flash' \in Flash
    BY <1>1, <2>1, PublicTyped
  <2>6. IInv'
    BY <1>1, <2>1, <2>5, SettledKeeps DEF BootTypeOK
  <2>7. \/ stage' = "static" /\ advertised' = advertised
        \/ stage' = "done" /\ advertised' = advertised \union {mac_public}
    BY <2>1 DEF AfterPublic, Advertise
  <2>8. BootTypeOK'
    BY <1>1, <2>1, <2>6, <2>7 DEF BootTypeOK, IInv, Settled
  <2>9. AddressInv'
    BY <1>1, <2>1, <2>3, <2>4, <2>7 DEF AddressInv
  <2>10. QED
    BY <2>6, <2>8, <2>9 DEF BootIInv
<1>5. ASSUME NEW draw \in StaticDraws, ProgramStatic(draw) PROVE BootIInv'
  <2>1. /\ stage = "static" /\ Settled /\ mac_public' = mac_public
        /\ flash' = flash_write_page(flash, CFG_ADR_MAC + 6, 2, draw)
        /\ stage' = "done" /\ advertised' = advertised \union {mac_public}
    BY <1>5 DEF ProgramStatic, Advertise
  <2>2. flash' \in Flash
        /\ \A i \in 0..5 : flash'[CFG_ADR_MAC + i] = flash[CFG_ADR_MAC + i]
    BY <1>1, <2>1, StaticCells
  <2>3. InFlashAddress' = InFlashAddress /\ Drawn' = Drawn
    BY <2>2, SameCells
  <2>4. IInv'
    BY <1>1, <2>1, <2>2, SettledKeeps DEF BootTypeOK
  <2>5. BootTypeOK'
    BY <1>1, <2>1, <2>4 DEF BootTypeOK, IInv, Settled
  <2>6. AddressInv'
    BY <1>1, <2>1, <2>3 DEF AddressInv
  <2>7. QED
    BY <2>4, <2>5, <2>6 DEF BootIInv
<1>6. CASE SettingsStep
  <2>1. Next /\ stage = "done" /\ UNCHANGED identity
    BY <1>6 DEF SettingsStep, Next
  <2>2. InFlashAddress' = InFlashAddress /\ Drawn' = Drawn
    BY <1>1, <2>1, SettingsLeaveAddress, SameCells DEF TypeOK
  <2>3. IInv'
    BY <1>1, <2>1, NextIInv
  <2>4. BootTypeOK'
    BY <1>1, <2>1, <2>3 DEF BootTypeOK, IInv, identity
  <2>5. AddressInv'
    BY <1>1, <2>1, <2>2 DEF AddressInv, identity
  <2>6. QED
    BY <2>3, <2>4, <2>5 DEF BootIInv
<1>7. CASE BootAgain
  <2>1. /\ TornProgram /\ stage' = "read" /\ mac_public' = NoAddress
        /\ advertised' = advertised
    BY <1>7 DEF BootAgain
  <2>2. SUFFICES IInv' /\ pc' = "boot"
                 /\ \A a \in advertised : a = InFlashAddress' /\ Drawn'
    <3>1. BootTypeOK'
      BY <1>1, <2>1, <2>2, NoAddressTyped DEF BootTypeOK, IInv
    <3>2. AddressInv'
      BY <2>1, <2>2 DEF AddressInv
    <3>3. QED
      BY <2>2, <3>1, <3>2 DEF BootIInv
  <2>3. CASE PowerLoss
    <3>1. Next /\ pc' = "boot"
      BY <2>3 DEF Next, PowerLoss
    <3>2. InFlashAddress' = InFlashAddress /\ Drawn' = Drawn
      BY <1>1, <3>1, SettingsLeaveAddress, SameCells DEF TypeOK
    <3>3. QED
      BY <1>1, <3>1, <3>2, NextIInv DEF AddressInv
  <2>4. ASSUME stage = "public", Settled,
               flash' \in Torn(flash_write_page(flash, CFG_ADR_MAC, 6, mac_public),
                              flash)
        PROVE  IInv' /\ pc' = "boot"
               /\ \A a \in advertised : a = InFlashAddress' /\ Drawn'
    <3>1. flash_write_page(flash, CFG_ADR_MAC, 6, mac_public) \in Flash
      BY <1>1, PublicTyped
    <3>2. flash' \in Flash
      BY <1>1, <2>4, <3>1, TornTyped
    <3>3. pc = "boot" /\ pc' = "boot" /\ advertised = {}
      BY <1>1, <2>4 DEF BootTypeOK, AddressInv, Settled
    <3>4. QED
      BY <1>1, <2>4, <3>2, <3>3, SettledKeeps
  <2>5. ASSUME stage = "static", Settled, NEW draw \in StaticDraws,
               flash' \in Torn(flash_write_page(flash, CFG_ADR_MAC + 6, 2, draw),
                              flash)
        PROVE  IInv' /\ pc' = "boot"
               /\ \A a \in advertised : a = InFlashAddress' /\ Drawn'
    <3> DEFINE whole == flash_write_page(flash, CFG_ADR_MAC + 6, 2, draw)
    <3>1. whole \in Flash
          /\ \A i \in 0..5 : whole[CFG_ADR_MAC + i] = flash[CFG_ADR_MAC + i]
      BY <1>1, StaticCells
    <3> HIDE DEF whole
    <3>2. flash' \in Torn(whole, flash)
      BY <2>5 DEF whole
    <3>3. flash' \in Flash
      BY <1>1, <3>1, <3>2, TornTyped
    <3>4. \A i \in 0..5 : flash'[CFG_ADR_MAC + i] = flash[CFG_ADR_MAC + i]
      <4> SUFFICES ASSUME NEW i \in 0..5
                   PROVE  flash'[CFG_ADR_MAC + i] = flash[CFG_ADR_MAC + i]
        OBVIOUS
      <4> DEFINE a == CFG_ADR_MAC + i
      <4>1. a \in Cells /\ whole[a] = flash[a]
        BY <3>1, AddressLayout
      <4> HIDE DEF a
      <4>2. flash'[a] = flash[a]
        BY <1>1, <3>1, <3>2, <4>1, TornSame
      <4>3. QED
        BY <4>2 DEF a
    <3>5. InFlashAddress' = InFlashAddress /\ Drawn' = Drawn
      BY <3>4, SameCells
    <3>6. pc = "boot" /\ pc' = "boot"
      BY <1>1, <2>5 DEF BootTypeOK, Settled
    <3>7. QED
      BY <1>1, <2>5, <3>3, <3>5, <3>6, SettledKeeps DEF AddressInv
  <2>6. QED
    BY <2>1, <2>3, <2>4, <2>5 DEF TornProgram
<1>8. CASE UNCHANGED boot_vars
  <2>1. UNCHANGED vars /\ UNCHANGED identity /\ flash' = flash
    BY <1>8 DEF boot_vars, vars
  <2>2. InFlashAddress' = InFlashAddress /\ Drawn' = Drawn
    BY <2>1 DEF InFlashAddress, Drawn
  <2>3. IInv'
    BY <1>1, <2>1, NextIInv
  <2>4. BootTypeOK' /\ AddressInv'
    BY <1>1, <2>1, <2>2, <2>3 DEF BootTypeOK, AddressInv, IInv, identity, vars
  <2>5. QED
    BY <2>3, <2>4 DEF BootIInv
<1>9. QED
  BY <1>2, <1>3, <1>4, <1>5, <1>6, <1>7, <1>8 DEF BootNext

LEMMA BootInvariant == BootSpec => []BootIInv
  BY InitBootIInv, NextBootIInv, PTL DEF BootSpec

\* No program of the address, whole or torn, reaches the cells of the record.
LEMMA AddressLeavesRecord ==
  ASSUME flash \in Flash, NEW i \in 0..CrcByte, NEW n, NEW data,
         NEW address \in {CFG_ADR_MAC, CFG_ADR_MAC + 6},
         flash_write_page(flash, address, n, data) \in Flash
  PROVE  /\ flash_write_page(flash, address, n, data)[Address + i]
              = flash[Address + i]
         /\ \A torn \in Torn(flash_write_page(flash, address, n, data), flash) :
              torn[Address + i] = flash[Address + i]
<1> DEFINE a == Address + i
           whole == flash_write_page(flash, address, n, data)
<1>1. PageOf(address) # PageOf(Address)
  <2>1. CFG_ADR_MAC + 0 = CFG_ADR_MAC /\ 0 \in 0..7 /\ 6 \in 0..7
    BY AddressLayout
  <2>2. QED
    BY <2>1, Apart
<1>2. a \in Cells /\ PageOf(a) = PageOf(Address)
  BY Layout, SettingsAssumption
<1> HIDE DEF a
<1>3. whole[a] = flash[a]
  BY <1>1, <1>2, WriteElsewhere
<1> HIDE DEF whole
<1>4. whole \in Flash
  BY DEF whole
<1>5. \A torn \in Torn(whole, flash) : torn[a] = flash[a]
  BY <1>2, <1>3, <1>4, TornSame
<1>6. QED
  BY <1>3, <1>5 DEF a, whole

LEMMA BootReplaces == ASSUME BootIInv, BootNext, BootIInv' PROVE [Replaces]_vars
<1>1. /\ IInv /\ IInv' /\ BootTypeOK /\ flash \in Flash /\ flash' \in Flash
      /\ settings \in Record /\ settings' \in Record /\ mac_public \in PublicAddress
  BY DEF BootIInv, BootTypeOK, IInv, TypeOK
<1>2. CASE SettingsStep \/ PowerLoss
  <2>1. Next
    BY <1>2 DEF SettingsStep, Next
  <2>2. QED
    BY <1>1, <2>1, SettingsReplace
<1>3. SUFFICES ASSUME stage # "done", Settled,
                      \A i \in 0..CrcByte : flash'[Address + i] = flash[Address + i]
               PROVE  Replaces
  <2>1. CFG_ADR_MAC \in {CFG_ADR_MAC, CFG_ADR_MAC + 6}
        /\ CFG_ADR_MAC + 6 \in {CFG_ADR_MAC, CFG_ADR_MAC + 6}
    OBVIOUS
  <2>2. CASE TakeAddress
    BY <1>3, <2>2 DEF TakeAddress
  <2>3. CASE \E draw \in PublicDraws : DrawAddress(draw)
    BY <1>3, <2>3 DEF DrawAddress
  <2> DEFINE public == flash_write_page(flash, CFG_ADR_MAC, 6, mac_public)
  <2>4. /\ public \in Flash
        /\ \A i \in 0..CrcByte : public[Address + i] = flash[Address + i]
        /\ \A i \in 0..CrcByte : \A torn \in Torn(public, flash) :
             torn[Address + i] = flash[Address + i]
    <3>1. public \in Flash
      BY <1>1, PublicTyped
    <3>2. QED
      BY <1>1, <2>1, <3>1, AddressLeavesRecord
  <2>5. CASE ProgramPublic
    BY <1>3, <2>4, <2>5 DEF ProgramPublic
  <2>6. ASSUME NEW draw \in StaticDraws
        PROVE  \A i \in 0..CrcByte :
                 /\ flash_write_page(flash, CFG_ADR_MAC + 6, 2, draw)[Address + i]
                      = flash[Address + i]
                 /\ \A torn \in Torn(flash_write_page(flash, CFG_ADR_MAC + 6, 2, draw),
                                     flash) :
                      torn[Address + i] = flash[Address + i]
    <3>1. flash_write_page(flash, CFG_ADR_MAC + 6, 2, draw) \in Flash
      <4>1. 0 \in 0..5 /\ 2 \in 0..2
        OBVIOUS
      <4>2. QED
        BY <1>1, <4>1, StaticCells
    <3>2. QED
      BY <1>1, <2>1, <3>1, AddressLeavesRecord
  <2>7. ASSUME NEW draw \in StaticDraws, ProgramStatic(draw) PROVE Replaces
    BY <1>3, <2>6, <2>7 DEF ProgramStatic
  <2>8. CASE BootAgain /\ ~PowerLoss
    BY <1>3, <2>4, <2>6, <2>8 DEF BootAgain, TornProgram
  <2>9. QED
    BY <1>2, <2>2, <2>3, <2>5, <2>7, <2>8 DEF BootNext
<1>4. pc' = "boot"
  BY <1>1, <1>3 DEF BootTypeOK, Settled
<1>5. InFlash' = InFlash
  BY <1>1, <1>3, SameRecord
<1>6. QED
  BY <1>4, <1>5 DEF Replaces

\* Every variable of the start keeps its type; the settings are not read before
\* the address is settled.
THEOREM BootTypeCorrect == BootSpec => []BootTypeOK
<1>1. BootIInv => BootTypeOK
  BY DEF BootIInv
<1>2. QED
  BY BootInvariant, <1>1, PTL

\* The record in flash stays the one in RAM when init_ble programs the address
\* first and power fails there too: the two never touch each other's sectors.
THEOREM BootStoredAlwaysCurrent == BootSpec => []StoredIsCurrent
<1>1. BootIInv => StoredIsCurrent
  BY DEF BootIInv, IInv
<1>2. QED
  BY BootInvariant, <1>1, PTL

\* For every layout, draw and tearing, blc_initMacAddress advertises under one
\* address in the life of the device.
THEOREM AddressIsKept == BootSpec => []OneAddress
<1>1. BootIInv => OneAddress
  BY DEF BootIInv, AddressInv, OneAddress
<1>2. QED
  BY BootInvariant, <1>1, PTL

\* The settings are as safe in the whole start, where the address is programmed
\* into the sector next to theirs and power fails in that too.
THEOREM BootOnlyDefaultsReplace == BootSpec => OnlyDefaultsReplace
<1>1. BootIInv /\ BootIInv' /\ [BootNext]_boot_vars => [Replaces]_vars
  <2>1. CASE UNCHANGED boot_vars
    BY <2>1 DEF boot_vars
  <2>2. QED
    BY <2>1, BootReplaces
<1>2. [Replaces]_vars =>
        [\/ (IF pc' = "boot" THEN InFlash' ELSE settings')
              \in {InFlash, settings, Factory}
         \/ PassingMixture]_vars
  BY DEF Replaces
<1>3. QED
  BY BootInvariant, <1>1, <1>2, PTL DEF BootSpec, OnlyDefaultsReplace
=============================================================================
