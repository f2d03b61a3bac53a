--------------------------- MODULE TinyFlashProofs ---------------------------
(***************************************************************************)
(* The search for a record ends, every operation leaves a flash of bytes,  *)
(* and a sound store keeps the promise of KeyStore.  The argument for the  *)
(* last: the sector in use is a chain of records in which no key has two   *)
(* live ones (Chain, OneLive); a write appends to it, a deletion crosses   *)
(* out one record, a swap builds a second chain with the same live records *)
(* in the other sector; and the mark in the first byte of the first sector *)
(* tells at every moment which of the two to take (MarkInv, SoundInv).     *)
(***************************************************************************)
EXTENDS TinyFlash, NorFlashProofs

(***************************************************************************)
(* A walk goes from a number to a greater one until it stops, at the last  *)
(* number at the latest.  It has exactly one outcome for every beginning.  *)
(***************************************************************************)
Walk(f, stops, outcome, next) ==
  f = [a \in Nat |-> IF a \in stops THEN outcome[a] ELSE f[next[a]]]

WalkFrom(f, low, stops, outcome, next) ==
  \A a \in Nat : a >= low =>
    f[a] = IF a \in stops THEN outcome[a] ELSE f[next[a]]

MovesOn(last, stops, next) ==
  \A a \in Nat : a \in stops \/ (a < last /\ next[a] \in Nat /\ next[a] > a)

LEMMA WalkExists ==
  ASSUME NEW last \in Nat, NEW stops, NEW outcome, NEW next,
         MovesOn(last, stops, next)
  PROVE  \E f : Walk(f, stops, outcome, next)
<1> DEFINE S == {n \in Nat : \E f : WalkFrom(f, last - n, stops, outcome, next)}
<1>1. 0 \in S
  <2> DEFINE f == [a \in Nat |-> outcome[a]]
  <2>1. WalkFrom(f, last - 0, stops, outcome, next)
    BY DEF WalkFrom, MovesOn
  <2>2. QED
    BY <2>1
<1>2. ASSUME NEW n \in Nat, n \in S PROVE n + 1 \in S
  <2>1. PICK f : WalkFrom(f, last - n, stops, outcome, next)
    BY <1>2
  <2> DEFINE low == last - (n + 1)
             h == [a \in Nat |-> IF a = low
                                 THEN IF a \in stops THEN outcome[a] ELSE f[next[a]]
                                 ELSE f[a]]
  <2>2. ASSUME NEW a \in Nat, a >= low
        PROVE  h[a] = IF a \in stops THEN outcome[a] ELSE h[next[a]]
    <3>1. a \notin stops => next[a] \in Nat /\ next[a] # low
      BY <2>2 DEF MovesOn
    <3>2. a \notin stops => h[next[a]] = f[next[a]]
      BY <3>1
    <3>3. CASE a = low
      BY <3>2, <3>3
    <3>4. CASE a # low
      <4>1. a >= last - n
        BY <2>2, <3>4
      <4>2. QED
        BY <2>1, <3>2, <3>4, <4>1 DEF WalkFrom
    <3>5. QED
      BY <3>3, <3>4
  <2>3. WalkFrom(h, low, stops, outcome, next)
    BY <2>2 DEF WalkFrom
  <2>4. QED
    BY <2>3
<1> HIDE DEF S
<1>3. \A n \in Nat : n \in S
  BY <1>1, <1>2, SetInduction
<1>4. PICK f : WalkFrom(f, last - last, stops, outcome, next)
  BY <1>3 DEF S
<1> DEFINE g == [a \in Nat |-> f[a]]
<1>5. ASSUME NEW a \in Nat
      PROVE  g[a] = IF a \in stops THEN outcome[a] ELSE g[next[a]]
  BY <1>4 DEF WalkFrom, MovesOn
<1>6. Walk(g, stops, outcome, next)
  <2>1. g = [a \in Nat |-> g[a]]
    OBVIOUS
  <2> HIDE DEF g
  <2>2. QED
    BY <1>5, <2>1 DEF Walk
<1>7. QED
  BY <1>6

\* It stops somewhere ahead of its beginning.
LEMMA WalkEnds ==
  ASSUME NEW last \in Nat, NEW stops, NEW outcome, NEW next,
         MovesOn(last, stops, next), NEW f, Walk(f, stops, outcome, next)
  PROVE  \A a \in Nat : \E b \in Nat : b >= a /\ b \in stops /\ f[a] = outcome[b]
<1> DEFINE Ends(a) == \E b \in Nat : b >= a /\ b \in stops /\ f[a] = outcome[b]
           S == {n \in Nat : \A a \in Nat : a >= last - n => Ends(a)}
<1>1. ASSUME NEW a \in Nat
      PROVE  f[a] = IF a \in stops THEN outcome[a] ELSE f[next[a]]
  BY DEF Walk
<1>2. ASSUME NEW a \in Nat, a \in stops PROVE Ends(a)
  BY <1>1, <1>2
<1>3. ASSUME NEW a \in Nat, a \notin stops, Ends(next[a]) PROVE Ends(a)
  <2>1. next[a] \in Nat /\ next[a] > a
    BY <1>3 DEF MovesOn
  <2>2. PICK b \in Nat : b >= next[a] /\ b \in stops /\ f[next[a]] = outcome[b]
    BY <1>3
  <2>3. b >= a /\ f[a] = outcome[b]
    BY <1>1, <1>3, <2>1, <2>2
  <2>4. QED
    BY <2>2, <2>3
<1> HIDE DEF Ends
<1>4. 0 \in S
  BY <1>2 DEF MovesOn
<1>5. ASSUME NEW n \in Nat, n \in S PROVE n + 1 \in S
  <2> SUFFICES ASSUME NEW a \in Nat, a >= last - (n + 1) PROVE Ends(a)
    OBVIOUS
  <2>1. a \notin stops => next[a] \in Nat /\ next[a] >= last - n
    BY DEF MovesOn
  <2>2. QED
    BY <1>2, <1>3, <1>5, <2>1
<1> HIDE DEF S
<1>6. \A n \in Nat : n \in S
  BY <1>4, <1>5, SetInduction
<1>7. last \in S
  BY <1>6
<1>8. QED
  BY <1>7 DEF S, Ends
-----------------------------------------------------------------------------
(* Records and where they are *)

LEMMA Sizes ==
  /\ Erased \in Nat /\ Byte = 0..Erased /\ Byte \subseteq Nat
  /\ PageSize \in Nat \ {0} /\ SectorSize \in Nat /\ PageSize =< SectorSize
  /\ FlashSize \in Nat /\ Start \in Nat /\ Start + 3 * SectorSize =< FlashSize
  /\ TINY_SECHAD_SIZE \in Nat \ {0} /\ TINY_SECHAD_SIZE < SectorSize
  /\ Second \in Nat
<1>1. Erased \in Nat /\ Byte = 0..Erased
  BY FlashAssumption, TinyAssumption
<1>2. PageSize \in Nat \ {0} /\ SectorSize \in Nat /\ FlashSize \in Nat /\ Start \in Nat
      /\ Start + 3 * SectorSize =< FlashSize
  BY FlashAssumption, TinyAssumption
<1>3. TINY_SECHAD_SIZE \in 1..(SectorSize - PageSize)
  BY TinyAssumption
<1>4. QED
  BY <1>1, <1>2, <1>3 DEF Second

\* The first two bytes after a sector's last record place and a page behind it
\* are cells as well.
LEMMA Reach ==
  ASSUME NEW sector \in {Start, Second}, NEW address \in Nat,
         address =< sector + SectorSize - 3, NEW i \in Nat, i < PageSize \/ i =< 2
  PROVE  address + i \in Cells
  BY Sizes, SMT DEF Second, Cells

(* The search of tinyFlash_Read is a walk over the records. *)

\* AtEnd: no record can begin at a.
AtEnd(memory, sector, a) == a > sector + SectorSize - 3 \/ memory[a] \in {0, Erased}
Hit(memory, key, a) == memory[a] = key /\ Live(memory, a)

Stops(memory, sector, key) ==
  {a \in Nat : AtEnd(memory, sector, a) \/ Hit(memory, key, a)}

Outcome(memory, sector) ==
  [a \in Nat |-> IF AtEnd(memory, sector, a) THEN sector + SectorSize ELSE a]

Behind(memory) == [a \in Nat |-> a + RecordSize(memory, a)]

LEMMA WalkAt ==
  ASSUME NEW memory, NEW sector, NEW key, NEW a \in Nat
  PROVE  /\ a \in Stops(memory, sector, key) <=>
              AtEnd(memory, sector, a) \/ Hit(memory, key, a)
         /\ Outcome(memory, sector)[a] =
              IF AtEnd(memory, sector, a) THEN sector + SectorSize ELSE a
         /\ Behind(memory)[a] = a + RecordSize(memory, a)
  BY DEF Stops, Outcome, Behind

LEMMA RecordsMoveOn ==
  ASSUME NEW memory \in Flash, NEW sector \in {Start, Second}, NEW key
  PROVE  MovesOn(sector + SectorSize, Stops(memory, sector, key), Behind(memory))
<1> SUFFICES ASSUME NEW a \in Nat, a \notin Stops(memory, sector, key)
             PROVE  /\ a < sector + SectorSize
                    /\ Behind(memory)[a] \in Nat /\ Behind(memory)[a] > a
  BY DEF MovesOn
<1>1. sector \in Nat /\ SectorSize \in Nat
  BY Sizes
<1>2. a =< sector + SectorSize - 3
  BY <1>1, WalkAt DEF AtEnd
<1>3. a + 2 \in Cells
  BY <1>2, Reach
<1>4. memory[a + 2] \in Nat
  BY <1>3, Sizes DEF Flash
<1>5. QED
  BY <1>1, <1>2, <1>4 DEF Behind, RecordSize

LEMMA SearchRule ==
  ASSUME NEW memory \in Flash, NEW sector \in {Start, Second}, NEW key
  PROVE  \E f : /\ Search(memory, sector, key) = f[sector + TINY_SECHAD_SIZE]
                /\ Walk(f, Stops(memory, sector, key), Outcome(memory, sector),
                        Behind(memory))
<1> DEFINE Rule(f) ==
             [a \in Nat |->
                IF AtEnd(memory, sector, a) THEN sector + SectorSize
                ELSE IF Hit(memory, key, a) THEN a
                ELSE f[a + RecordSize(memory, a)]]
           F == CHOOSE f : f = Rule(f)
<1>1. ASSUME NEW f
      PROVE  f = Rule(f) <=> Walk(f, Stops(memory, sector, key),
                                  Outcome(memory, sector), Behind(memory))
  <2> DEFINE G == [a \in Nat |-> IF a \in Stops(memory, sector, key)
                                 THEN Outcome(memory, sector)[a]
                                 ELSE f[Behind(memory)[a]]]
  <2>1. ASSUME NEW a \in Nat PROVE Rule(f)[a] = G[a]
    BY WalkAt
  <2>2. Rule(f) = G
    BY <2>1
  <2>3. QED
    BY <2>2 DEF Walk
<1>2. \E f : Walk(f, Stops(memory, sector, key), Outcome(memory, sector),
                  Behind(memory))
  <2>1. sector + SectorSize \in Nat
    BY Sizes
  <2>2. QED
    BY <2>1, RecordsMoveOn, WalkExists
<1>3. Search(memory, sector, key) = F[sector + TINY_SECHAD_SIZE]
  BY DEF Search, AtEnd, Hit
<1> HIDE DEF Rule
<1>4. F = Rule(F)
  BY <1>1, <1>2
<1> HIDE DEF F
<1>5. QED
  BY <1>1, <1>3, <1>4

\* It ends at a live record of the key or at the sector's end.
LEMMA SearchFinds ==
  ASSUME NEW memory \in Flash, NEW sector \in {Start, Second}, NEW key
  PROVE  \/ Search(memory, sector, key) = sector + SectorSize
         \/ /\ Search(memory, sector, key) \in Nat
            /\ Search(memory, sector, key) >= sector + TINY_SECHAD_SIZE
            /\ ~AtEnd(memory, sector, Search(memory, sector, key))
            /\ Hit(memory, key, Search(memory, sector, key))
<1> DEFINE end == sector + SectorSize
           first == sector + TINY_SECHAD_SIZE
           stops == Stops(memory, sector, key)
           outcome == Outcome(memory, sector)
           next == Behind(memory)
<1>1. end \in Nat /\ first \in Nat
  BY Sizes
<1>2. PICK f : Search(memory, sector, key) = f[first] /\ Walk(f, stops, outcome, next)
  BY SearchRule
<1>3. MovesOn(end, stops, next)
  BY RecordsMoveOn
<1>4. ASSUME NEW b \in Nat, b \in stops
      PROVE  /\ AtEnd(memory, sector, b) => outcome[b] = end
             /\ ~AtEnd(memory, sector, b) => Hit(memory, key, b) /\ outcome[b] = b
  BY <1>4, WalkAt
<1> HIDE DEF stops, outcome, next, first, end
<1>5. PICK b \in Nat : b >= first /\ b \in stops /\ f[first] = outcome[b]
  BY <1>1, <1>2, <1>3, WalkEnds
<1>6. CASE AtEnd(memory, sector, b)
  BY <1>2, <1>4, <1>5, <1>6 DEF end
<1>7. CASE ~AtEnd(memory, sector, b)
  <2>1. Search(memory, sector, key) = b
    BY <1>2, <1>4, <1>5, <1>7
  <2>2. QED
    BY <1>4, <1>5, <1>7, <2>1 DEF first
<1>8. QED
  BY <1>6, <1>7
-----------------------------------------------------------------------------
(* The flash stays a flash *)

LEMMA TwoPagesTyped ==
  ASSUME NEW memory \in Flash, NEW address \in Nat, NEW len \in Nat, NEW data,
         \A i \in 0..(len - 1) : data[i] \in Byte
  PROVE  flash_write(memory, address, len, data) \in Flash
<1> DEFINE room == PageSize - (address % PageSize)
<1>1. PageSize \in Nat \ {0}
  BY Sizes
<1>2. address % PageSize \in 0..(PageSize - 1) /\ PageOf(address) \in Nat
  BY <1>1, BlockBegins, Division DEF PageOf
<1>3. room \in 1..PageSize
  BY <1>1, <1>2
<1> HIDE DEF room
<1>4. CASE len =< room
  <2>1. \A i \in Nat : i < len => data[i] \in Byte
    OBVIOUS
  <2>2. flash_write_page(memory, address, len, data) \in Flash
    BY <2>1, WriteTyped
  <2>3. QED
    BY <1>4, <2>2 DEF flash_write, room
<1>5. CASE ~(len =< room)
  <2> DEFINE rest == [i \in 0..(len - room - 1) |-> data[i + room]]
             first == flash_write_page(memory, address, room, data)
  <2>1. \A i \in Nat : i < room => data[i] \in Byte
    BY <1>1, <1>3, <1>5
  <2>2. first \in Flash
    BY <1>3, <2>1, WriteTyped
  <2>3. len - room \in Nat /\ PageOf(address) + PageSize \in Nat
    BY <1>1, <1>2, <1>3, <1>5
  <2>4. ASSUME NEW i \in Nat, i < len - room
        PROVE  rest[i] \in Byte
    <3>1. i \in 0..(len - room - 1)
      BY <1>1, <1>3, <2>4
    <3>2. i + room \in 0..(len - 1)
      BY <1>1, <1>3, <2>4
    <3>3. QED
      BY <3>1, <3>2
  <2> HIDE DEF rest, first
  <2>5. flash_write_page(first, PageOf(address) + PageSize, len - room, rest) \in Flash
    BY <2>2, <2>3, <2>4, WriteTyped
  <2>6. QED
    BY <1>5, <2>5 DEF flash_write, room, rest, first
<1>6. QED
  BY <1>4, <1>5

LEMMA RecordTyped ==
  ASSUME NEW key \in Keys, NEW value \in Values
  PROVE  /\ Len(value) + 3 \in Nat
         /\ \A i \in 0..(Len(value) + 2) : Record(key, value)[i] \in Byte
<1>1. value \in Seq(Byte) /\ Len(value) \in Byte
  BY TinyAssumption, Sizes
<1>2. Len(value) \in Nat
  BY <1>1
<1>3. key \in 1..(Erased - 1) /\ Erased \in Nat /\ Byte = 0..Erased
  BY TinyAssumption, Sizes
<1>4. key \in Byte /\ Inverse(key) \in Byte
  BY <1>3 DEF Inverse
<1>5. ASSUME NEW i \in 0..(Len(value) + 2) PROVE Record(key, value)[i] \in Byte
  <2>1. CASE i \in {0, 1, 2}
    BY <1>1, <1>2, <1>4, <2>1 DEF Record
  <2>2. CASE i \notin {0, 1, 2}
    <3>1. Record(key, value)[i] = value[i - 2]
      BY <1>2, <2>2 DEF Record
    <3>2. i - 2 \in 1..Len(value)
      BY <1>2, <2>2
    <3>3. QED
      BY <1>1, <3>1, <3>2
  <2>3. QED
    BY <2>1, <2>2
<1>6. QED
  BY <1>2, <1>5

\* A loop works on a request and where its record may begin.
LoopInv == pc \in {"scan", "copy", "mark", "erase"} => request # {}

IInv == TypeOK /\ LoopInv

LEMMA Addresses ==
  ASSUME TypeOK
  PROVE  /\ used \in Nat /\ swap \in {Start, Second} /\ swap \in Nat
         /\ addr_end \in Nat
<1>1. used \in {Start, Second} /\ swap \in {Start, Second}
  BY DEF TypeOK, swap
<1>2. Start \in Nat /\ Second \in Nat /\ SectorSize \in Nat
  BY Sizes
<1>3. QED
  BY <1>1, <1>2 DEF addr_end

LEMMA DeletedTyped ==
  ASSUME TypeOK, NEW key PROVE Deleted(key) \in Flash
<1> DEFINE found == Search(flash, used, key)
<1>1. found = addr_end \/ found \in Nat
  BY SearchFinds DEF TypeOK, addr_end
<1>2. CASE found = addr_end
  BY <1>2 DEF Deleted, TypeOK
<1>3. CASE found # addr_end
  <2>1. found + 1 \in Nat
    BY <1>1, <1>3
  <2>2. 0 \in Byte
    BY Sizes
  <2> DEFINE data == [i \in {0} |-> 0]
  <2>3. \A i \in Nat : i < 1 => data[i] \in Byte
    BY <2>2
  <2> HIDE DEF data, found
  <2>4. flash_write_page(flash, found + 1, 1, data) \in Flash
    BY <2>1, <2>3, WriteTyped DEF TypeOK
  <2>5. QED
    BY <1>3, <2>4 DEF Deleted, data, found
<1>4. QED
  BY <1>2, <1>3

\* The record at the loop's address.
LEMMA SizeTyped ==
  ASSUME TypeOK, addr_start =< addr_end - 3
  PROVE  /\ flash[addr_start] \in Byte
         /\ RecordSize(flash, addr_start) \in Nat /\ RecordSize(flash, addr_start) > 0
         /\ \A behind \in Behind_buf : \A i \in 0..(RecordSize(flash, addr_start) - 1) :
              Copied(behind)[i] \in Byte
<1>1. addr_start \in Nat /\ flash \in Flash /\ PageSize \in Nat
      /\ used \in {Start, Second} /\ addr_start =< used + SectorSize - 3
  <2>1. addr_start \in Nat /\ flash \in Flash /\ used \in {Start, Second}
    BY DEF TypeOK
  <2>2. PageSize \in Nat /\ SectorSize \in Nat /\ Start \in Nat /\ Second \in Nat
    BY Sizes
  <2>3. addr_start =< used + SectorSize - 3
    BY <2>1, <2>2 DEF addr_end
  <2>4. QED
    BY <2>1, <2>2, <2>3
<1>2. addr_start + 2 \in Cells /\ addr_start \in Cells
  <2>1. addr_start + 0 \in Cells
    BY <1>1, Reach
  <2>2. QED
    BY <1>1, <2>1, Reach
<1>3. flash[addr_start + 2] \in Nat
  BY <1>1, <1>2, Sizes DEF Flash
<1>4. RecordSize(flash, addr_start) \in Nat /\ RecordSize(flash, addr_start) > 0
  BY <1>3 DEF RecordSize
<1>5. flash[addr_start] \in Byte
  BY <1>1, <1>2 DEF Flash
<1>6. ASSUME NEW behind \in Behind_buf, NEW i \in 0..(RecordSize(flash, addr_start) - 1)
      PROVE  Copied(behind)[i] \in Byte
  <2>1. CASE i < PageSize
    <3>1. addr_start + i \in Cells
      BY <1>1, <1>4, <2>1, Reach
    <3>2. QED
      BY <1>1, <2>1, <3>1 DEF Copied, Flash
  <2>2. CASE ~(i < PageSize)
    <3>1. i \in PageSize..(RecordSize(flash, addr_start) - 1)
      BY <1>1, <1>4, <2>2
    <3>2. Copied(behind)[i] = behind[i]
      BY <2>2 DEF Copied
    <3>3. QED
      BY <3>1, <3>2 DEF Behind_buf
  <2>3. QED
    BY <2>1, <2>2
<1>7. QED
  BY <1>4, <1>5, <1>6

LEMMA MarkedTyped ==
  ASSUME TypeOK PROVE Marked \in Flash
<1> DEFINE data == [i \in {0} |-> InUseMark]
<1>1. InUseMark \in Byte
  BY TinyAssumption, Sizes
<1>2. \A i \in Nat : i < 1 => data[i] \in Byte
  BY <1>1
<1> HIDE DEF data
<1>3. flash_write_page(flash, swap, 1, data) \in Flash
  BY <1>2, WriteTyped, Addresses DEF TypeOK
<1>4. QED
  BY <1>3 DEF Marked, data

LEMMA InitTyped == Init => IInv
<1> SUFFICES ASSUME Init PROVE IInv
  OBVIOUS
<1>1. flash \in Flash
  BY FlashAssumption DEF Init, Flash
<1>2. QED
  BY <1>1 DEF Init, IInv, TypeOK, LoopInv

LEMMA WriteTypedStep ==
  ASSUME IInv, WriteStep PROVE IInv'
<1>1. CASE BeginSwap
  <2>1. addr_start' \in Nat /\ new_addr_start' \in Nat
    BY <1>1, Addresses, Sizes DEF IInv, BeginSwap
  <2>2. sound' \in BOOLEAN
    BY <1>1 DEF IInv, TypeOK, BeginSwap
  <2>3. request' = request /\ request # {}
    BY <1>1 DEF IInv, LoopInv, BeginSwap, Full
  <2>4. QED
    BY <1>1, <2>1, <2>2, <2>3 DEF IInv, TypeOK, LoopInv, BeginSwap
<1>2. CASE StoreRecord
  <2>1. PICK r \in request :
          flash' = flash_write(flash, addr_start, Len(r[2]) + 3, Record(r[1], r[2]))
    BY <1>2 DEF StoreRecord
  <2>2. r[1] \in Keys /\ r[2] \in Values
    BY DEF IInv, TypeOK
  <2>3. /\ Len(r[2]) + 3 \in Nat
        /\ \A i \in 0..((Len(r[2]) + 3) - 1) : Record(r[1], r[2])[i] \in Byte
    BY <2>2, RecordTyped
  <2>4. flash' \in Flash
    BY <2>1, <2>3, TwoPagesTyped DEF IInv, TypeOK
  <2>5. QED
    <3>1. pc' \in {"idle", "lost"} /\ sound' \in BOOLEAN /\ request' = {}
          /\ UNCHANGED <<used, addr_start, new_addr_start, dirty>>
      BY <1>2 DEF IInv, TypeOK, StoreRecord
    <3>2. QED
      BY <2>4, <3>1 DEF IInv, TypeOK, LoopInv
<1>3. CASE PassRecord
  <2>1. addr_start' \in Nat
    <3>1. PICK r \in request : ~(addr_start > addr_end - 3 - Len(r[2]))
      BY <1>3 DEF PassRecord, Full, IInv, LoopInv
    <3>2. r[2] \in Values
      BY DEF IInv, TypeOK
    <3>4. Len(r[2]) \in Nat
      BY <3>2, TinyAssumption
    <3>5. addr_end \in Nat /\ addr_start \in Nat
      <4>1. TypeOK
        BY DEF IInv
      <4>2. addr_start \in Nat
        BY <4>1 DEF TypeOK
      <4>3. QED
        BY <4>1, <4>2, Addresses
    <3>6. addr_start =< addr_end - 3
      <4>1. \A n, start, end \in Nat : ~(start > end - 3 - n) => start =< end - 3
        OBVIOUS
      <4>2. QED
        BY <3>1, <3>4, <3>5, <4>1
    <3>7. RecordSize(flash, addr_start) \in Nat
      BY <3>6, SizeTyped DEF IInv
    <3>8. QED
      BY <1>3, <3>5, <3>7 DEF PassRecord
  <2>2. dirty' \in BOOLEAN
    BY <1>3 DEF PassRecord, IInv, TypeOK
  <2>3. QED
    BY <1>3, <2>1, <2>2 DEF IInv, TypeOK, LoopInv, PassRecord
<1>4. CASE GiveUp
  BY <1>4 DEF IInv, TypeOK, LoopInv, GiveUp
<1>5. QED
  BY <1>1, <1>2, <1>3, <1>4 DEF WriteStep

LEMMA SwapTypedStep ==
  ASSUME IInv, SwapStep PROVE IInv'
<1>1. CASE CopyRecord
  <2>1. addr_start =< addr_end - 3
    BY <1>1, Addresses DEF CopyRecord, AllCopied, IInv, TypeOK
  <2>2. /\ RecordSize(flash, addr_start) \in Nat
        /\ \A behind \in Behind_buf : \A i \in 0..(RecordSize(flash, addr_start) - 1) :
             Copied(behind)[i] \in Byte
    BY <2>1, SizeTyped DEF IInv
  <2>3. addr_start' \in Nat /\ new_addr_start' \in Nat
    BY <1>1, <2>2 DEF CopyRecord, IInv, TypeOK
  <2>4. flash' \in Flash
    <3>1. CASE Live(flash, addr_start)
      <4>1. PICK behind \in Behind_buf :
              flash' = flash_write(flash, new_addr_start,
                                   RecordSize(flash, addr_start), Copied(behind))
        BY <1>1, <3>1 DEF CopyRecord
      <4>2. QED
        BY <2>2, <4>1, TwoPagesTyped DEF IInv, TypeOK
    <3>2. CASE ~Live(flash, addr_start)
      BY <1>1, <3>2 DEF CopyRecord, IInv, TypeOK
    <3>3. QED
      BY <3>1, <3>2
  <2>5. QED
    BY <1>1, <2>3, <2>4 DEF IInv, TypeOK, LoopInv, CopyRecord
<1>2. CASE EndCopy
  BY <1>2 DEF IInv, TypeOK, LoopInv, EndCopy
<1>3. CASE MarkNew
  <2>1. flash' \in Flash
    BY <1>3, MarkedTyped DEF IInv, MarkNew
  <2>2. QED
    BY <1>3, <2>1 DEF IInv, TypeOK, LoopInv, MarkNew
<1>4. CASE EraseOld
  <2>1. flash' \in Flash
    BY <1>4, EraseTyped DEF EraseOld, IInv, TypeOK
  <2>2. used' \in {Start, Second} /\ addr_start' \in Nat
    BY <1>4, Addresses, Sizes DEF EraseOld, IInv
  <2>3. QED
    BY <1>4, <2>1, <2>2 DEF IInv, TypeOK, LoopInv, EraseOld
<1>5. QED
  BY <1>1, <1>2, <1>3, <1>4 DEF SwapStep

\* What is torn lies between two flashes.
LEMMA TornWritesTyped ==
  ASSUME IInv, NEW torn \in TornWrites PROVE torn \in Flash
<1>1. flash \in Flash /\ TypeOK
  BY DEF IInv, TypeOK
<1>2. CASE pc = "idle"
  <2>1. PICK key \in Keys : torn \in Torn(Deleted(key), flash)
    BY <1>2 DEF TornWrites
  <2>2. QED
    BY <1>1, <2>1, DeletedTyped, TornTyped
<1>3. CASE pc = "scan" /\ ~Full /\ flash[addr_start] = Erased
  <2>1. PICK r \in request :
          torn \in Torn(flash_write(flash, addr_start, Len(r[2]) + 3, Record(r[1], r[2])),
                        flash)
    BY <1>3 DEF TornWrites
  <2>2. r[1] \in Keys /\ r[2] \in Values /\ addr_start \in Nat
    BY DEF IInv, TypeOK
  <2>3. /\ Len(r[2]) + 3 \in Nat
        /\ \A i \in 0..((Len(r[2]) + 3) - 1) : Record(r[1], r[2])[i] \in Byte
    BY <2>2, RecordTyped
  <2>4. flash_write(flash, addr_start, Len(r[2]) + 3, Record(r[1], r[2])) \in Flash
    BY <1>1, <2>2, <2>3, TwoPagesTyped
  <2>5. QED
    BY <1>1, <2>1, <2>4, TornTyped
<1>4. CASE pc = "copy" /\ ~AllCopied /\ Live(flash, addr_start)
  <2>1. PICK behind \in Behind_buf :
          torn \in Torn(flash_write(flash, new_addr_start,
                                    RecordSize(flash, addr_start), Copied(behind)),
                        flash)
    BY <1>4 DEF TornWrites
  <2>2. addr_start =< addr_end - 3
    BY <1>4, Addresses DEF AllCopied, IInv, TypeOK
  <2>3. /\ RecordSize(flash, addr_start) \in Nat /\ new_addr_start \in Nat
        /\ \A i \in 0..(RecordSize(flash, addr_start) - 1) : Copied(behind)[i] \in Byte
    BY <2>2, SizeTyped DEF IInv, TypeOK
  <2>4. flash_write(flash, new_addr_start, RecordSize(flash, addr_start), Copied(behind))
          \in Flash
    BY <1>1, <2>3, TwoPagesTyped
  <2>5. QED
    BY <1>1, <2>1, <2>4, TornTyped
<1>5. CASE pc = "mark"
  <2>1. torn \in Torn(Marked, flash)
    BY <1>5 DEF TornWrites
  <2>2. QED
    BY <1>1, <2>1, MarkedTyped, TornTyped
<1>6. ASSUME NEW sector, torn \in Torn(flash, flash_erase_sector(flash, sector))
      PROVE  torn \in Flash
  BY <1>1, <1>6, EraseTyped, TornTyped
<1>7. CASE pc \in {"erase", "format"}
  <2>1. torn \in Torn(flash, flash_erase_sector(flash, used))
    BY <1>7 DEF TornWrites
  <2>2. QED
    BY <1>6, <2>1
<1>8. CASE pc = "format swap"
  <2>1. torn \in Torn(flash, flash_erase_sector(flash, swap))
    BY <1>8 DEF TornWrites
  <2>2. QED
    BY <1>6, <2>1
<1>9. CASE /\ ~(pc = "scan" /\ ~Full /\ flash[addr_start] = Erased)
           /\ ~(pc = "copy" /\ ~AllCopied /\ Live(flash, addr_start))
           /\ pc \notin {"idle", "mark", "erase", "format", "format swap"}
  BY <1>9 DEF TornWrites
<1>10. QED
  BY <1>2, <1>3, <1>4, <1>5, <1>7, <1>8, <1>9

LEMMA NextTyped == IInv /\ [Next]_vars => IInv'
<1> SUFFICES ASSUME IInv, [Next]_vars PROVE IInv'
  OBVIOUS
<1>1. CASE tinyFlash_Init
  BY <1>1 DEF IInv, TypeOK, LoopInv, tinyFlash_Init, InUse
<1>2. CASE BeginFormat
  BY <1>2 DEF IInv, TypeOK, LoopInv, BeginFormat
<1>3. CASE EraseUsed
  <2>1. flash' \in Flash
    BY <1>3, EraseTyped DEF EraseUsed, IInv, TypeOK
  <2>2. QED
    BY <1>3, <2>1 DEF IInv, TypeOK, LoopInv, EraseUsed
<1>4. CASE EraseSwap
  <2>1. flash' \in Flash
    BY <1>4, EraseTyped DEF EraseSwap, IInv, TypeOK
  <2>2. QED
    BY <1>4, <2>1 DEF IInv, TypeOK, LoopInv, EraseSwap
<1>5. ASSUME NEW key \in Keys, Delete(key) PROVE IInv'
  <2>1. flash' \in Flash
    BY <1>5, DeletedTyped DEF Delete, IInv
  <2>2. QED
    BY <1>5, <2>1 DEF IInv, TypeOK, LoopInv, Delete
<1>6. ASSUME NEW key \in Keys, NEW value \in Values, BeginWrite(key, value)
      PROVE  IInv'
  <2>1. flash' \in Flash
    BY <1>6, DeletedTyped DEF BeginWrite, IInv
  <2>2. addr_start' \in Nat
    BY <1>6, Addresses, Sizes DEF BeginWrite, IInv
  <2>3. request' \subseteq Keys \X Values /\ request' # {}
    BY <1>6 DEF BeginWrite
  <2>4. QED
    BY <1>6, <2>1, <2>2, <2>3 DEF IInv, TypeOK, LoopInv, BeginWrite
<1>7. CASE WriteStep
  BY <1>7, WriteTypedStep
<1>8. CASE SwapStep
  BY <1>8, SwapTypedStep
<1>9. CASE PowerLoss
  <2>1. flash' \in Flash
    BY <1>9, TornWritesTyped DEF PowerLoss, IInv, TypeOK
  <2>2. sound' \in BOOLEAN
    BY <1>9 DEF PowerLoss, Harmful, IInv, TypeOK
  <2>3. QED
    BY <1>9, <2>1, <2>2 DEF IInv, TypeOK, LoopInv, PowerLoss
<1>10. CASE UNCHANGED vars
  BY <1>10 DEF IInv, TypeOK, LoopInv, vars
<1>11. QED
  BY <1>1, <1>2, <1>3, <1>4, <1>5, <1>6, <1>7, <1>8, <1>9, <1>10 DEF Next

\* Whatever earlier losses of power have left in the sectors, the loops of
\* tinyFlash.c take every record's length from the flash, and no write, swap,
\* erase or interruption of one leaves anything but a flash of bytes.
THEOREM TinyTypeCorrect == Spec => []TypeOK
<1>1. IInv => TypeOK
  BY DEF IInv
<1>2. QED
  BY InitTyped, NextTyped, <1>1, PTL DEF Spec
-----------------------------------------------------------------------------
(* What flash_write and a record of one page leave in the flash *)

\* The second page of a write that crosses a page's end begins right behind it.
LEMMA NextPage ==
  ASSUME NEW address \in Nat
  PROVE  /\ address % PageSize \in 0..(PageSize - 1)
         /\ PageOf(address) + PageSize \in Nat
         /\ (PageOf(address) + PageSize) % PageSize = 0
         /\ PageOf(address) + PageSize = address + (PageSize - (address % PageSize))
         /\ PageSize - (address % PageSize) \in 1..PageSize
<1>1. PageSize \in Nat \ {0}
  BY Sizes
<1>2. PageOf(address) \in Nat /\ PageOf(address) % PageSize = 0
  BY <1>1, BlockBegins DEF PageOf
<1>3. PageSize % PageSize = 0
  BY <1>1, SMT
<1>4. (PageOf(address) + PageSize) % PageSize = 0
  BY <1>1, <1>2, <1>3, MultipleSum
<1>5. address % PageSize \in 0..(PageSize - 1)
  BY <1>1, Division
<1>6. QED
  BY <1>1, <1>2, <1>4, <1>5 DEF PageOf

LEMMA WriteRange ==
  ASSUME NEW memory \in Flash, NEW address \in Nat, NEW len \in Nat, len =< PageSize,
         NEW data, \A i \in 0..(len - 1) : data[i] \in Byte, NEW a \in Cells
  PROVE  flash_write(memory, address, len, data)[a] =
           IF a \in address..(address + len - 1)
           THEN And(memory[a], data[a - address]) ELSE memory[a]
<1> DEFINE room == PageSize - (address % PageSize)
           second == PageOf(address) + PageSize
           rest == [i \in 0..(len - room - 1) |-> data[i + room]]
           first == flash_write_page(memory, address, room, data)
<1>1. PageSize \in Nat \ {0} /\ a \in Nat
  BY Sizes DEF Cells
<1>2. room \in 1..PageSize /\ second \in Nat /\ second % PageSize = 0
      /\ second = address + room
  BY NextPage
<1>3. flash_write(memory, address, len, data) =
        IF len =< room THEN flash_write_page(memory, address, len, data)
        ELSE flash_write_page(first, second, len - room, rest)
  BY DEF flash_write
<1>4. CASE len =< room
  BY <1>3, <1>4, WriteWithin
<1>5. CASE ~(len =< room)
  <2>1. first \in Flash
    <3>1. \A i \in Nat : i < room => data[i] \in Byte
      BY <1>1, <1>2, <1>5
    <3> HIDE DEF room
    <3>2. QED
      BY <1>2, <3>1, WriteTyped
  <2>2. first[a] = IF a \in address..(address + room - 1)
                   THEN And(memory[a], data[a - address]) ELSE memory[a]
    BY <1>2, WriteWithin
  <2>3. len - room \in Nat /\ len - room =< PageSize - (second % PageSize)
    BY <1>1, <1>2, <1>5
  <2> HIDE DEF first, room, second
  <2>4. flash_write_page(first, second, len - room, rest)[a] =
          IF a \in second..(second + (len - room) - 1)
          THEN And(first[a], rest[a - second]) ELSE first[a]
    <3> HIDE DEF rest
    <3>1. QED
      BY <1>2, <2>1, <2>3, WriteWithin
  <2>5. a \in second..(second + (len - room) - 1) =>
          /\ a \notin address..(address + room - 1)
          /\ rest[a - second] = data[a - address]
    BY <1>1, <1>2, <1>5, <2>3
  <2> HIDE DEF rest
  <2>6. a \in address..(address + len - 1) <=>
          a \in address..(address + room - 1) \/ a \in second..(second + (len - room) - 1)
    BY <1>1, <1>2, <1>5, <2>3
  <2>7. QED
    BY <1>3, <1>5, <2>2, <2>4, <2>5, <2>6
<1>6. QED
  BY <1>4, <1>5

\* However long it is, nothing before the address changes.
LEMMA WriteAhead ==
  ASSUME NEW memory \in Flash, NEW address \in Nat, NEW len \in Nat, NEW data,
         NEW a \in Cells, a < address
  PROVE  flash_write(memory, address, len, data)[a] = memory[a]
<1> DEFINE room == PageSize - (address % PageSize)
           second == PageOf(address) + PageSize
           rest == [i \in 0..(len - room - 1) |-> data[i + room]]
           first == flash_write_page(memory, address, room, data)
<1>1. PageSize \in Nat \ {0} /\ a \in Nat
  BY Sizes DEF Cells
<1>2. room \in 1..PageSize /\ second \in Nat /\ second % PageSize = 0
      /\ second = address + room
  BY NextPage
<1>3. flash_write(memory, address, len, data) =
        IF len =< room THEN flash_write_page(memory, address, len, data)
        ELSE flash_write_page(first, second, len - room, rest)
  BY DEF flash_write
<1>4. len =< room => flash_write_page(memory, address, len, data)[a] = memory[a]
  BY <1>1, WriteWithin
<1>5. first[a] = memory[a]
  BY <1>1, <1>2, WriteWithin
<1>6. PageOf(a) # PageOf(second)
  <2> HIDE DEF second, room
  <2>1. a \notin second..(second + PageSize - 1)
    BY <1>1, <1>2
  <2>2. QED
    BY <1>1, <1>2, <2>1, BlockAt DEF PageOf
<1>7. flash_write_page(first, second, len - room, rest)[a] = first[a]
  BY <1>6, WriteElsewhere
<1>8. QED
  BY <1>3, <1>4, <1>5, <1>7
-----------------------------------------------------------------------------
(***************************************************************************)
(* A sector as the program leaves it: records one behind the other, none   *)
(* longer than a page, and erased cells from their end on.                 *)
(***************************************************************************)
First(sector) == sector + TINY_SECHAD_SIZE

Chain(memory, sector, records, end) ==
  /\ records \subseteq Nat /\ end \in Nat /\ end =< sector + SectorSize
  /\ First(sector) \in records \cup {end}
  /\ \A a \in records :
       /\ a >= First(sector) /\ a + 3 =< end
       /\ memory[a] \notin {0, Erased}
       /\ RecordSize(memory, a) =< PageSize
       /\ a + RecordSize(memory, a) =< end
       /\ a + RecordSize(memory, a) \in records \cup {end}
       /\ \A b \in records : b > a => b >= a + RecordSize(memory, a)
  /\ \A a \in end..(sector + SectorSize - 1) : memory[a] = Erased

\* No key has two live records.
OneLive(memory, records) ==
  \A a, b \in records :
    memory[a] = memory[b] /\ Live(memory, a) /\ Live(memory, b) => a = b

\* What the sector holds for a key.
Kept(memory, sector, key) ==
  IF Search(memory, sector, key) = sector + SectorSize THEN Nothing
  ELSE ValueAt(memory, Search(memory, sector, key))

LEMMA Places ==
  ASSUME NEW sector \in {Start, Second}
  PROVE  /\ sector \in Nat /\ SectorSize \in Nat /\ First(sector) \in Nat
         /\ First(sector) > sector /\ First(sector) < sector + SectorSize
         /\ \A a \in sector..(sector + SectorSize - 1) : a \in Cells /\ a \in Nat
<1>1. /\ sector \in Nat /\ SectorSize \in Nat /\ sector + SectorSize =< FlashSize
      /\ FlashSize \in Nat
  BY Sizes DEF Second
<1>2. TINY_SECHAD_SIZE \in Nat /\ TINY_SECHAD_SIZE > 0 /\ TINY_SECHAD_SIZE < SectorSize
  BY Sizes
<1>3. QED
  BY <1>1, <1>2 DEF First, Cells

\* A record lies inside its sector.
LEMMA RecordCells ==
  ASSUME NEW memory \in Flash, NEW sector \in {Start, Second}, NEW records, NEW end,
         Chain(memory, sector, records, end), NEW a \in records
  PROVE  /\ a \in Nat /\ end \in Nat /\ a >= First(sector)
         /\ RecordSize(memory, a) \in Nat /\ RecordSize(memory, a) >= 3
         /\ \A i \in 0..(RecordSize(memory, a) - 1) :
              /\ a + i \in First(sector)..(sector + SectorSize - 1)
              /\ a + i \in Cells
         /\ a \in Cells /\ a + 1 \in Cells /\ a + 2 \in Cells
         /\ memory[a + 2] \in Nat /\ memory[a + 2] = RecordSize(memory, a) - 3
<1>1. /\ sector \in Nat /\ SectorSize \in Nat /\ First(sector) \in Nat
      /\ First(sector) > sector
      /\ \A c \in sector..(sector + SectorSize - 1) : c \in Cells
  BY Places
<1>2. /\ a \in Nat /\ end \in Nat /\ end =< sector + SectorSize
      /\ a >= First(sector) /\ a + 3 =< end
      /\ a + RecordSize(memory, a) =< end
  BY DEF Chain
<1>3. /\ a \in sector..(sector + SectorSize - 1)
      /\ a + 1 \in sector..(sector + SectorSize - 1)
      /\ a + 2 \in sector..(sector + SectorSize - 1)
  BY <1>1, <1>2
<1>4. a \in Cells /\ a + 1 \in Cells /\ a + 2 \in Cells
  BY <1>1, <1>3
<1>5. memory[a + 2] \in Nat
  BY <1>4, Sizes DEF Flash
<1>6. RecordSize(memory, a) \in Nat /\ RecordSize(memory, a) >= 3
      /\ memory[a + 2] = RecordSize(memory, a) - 3
  BY <1>5 DEF RecordSize
<1>7. ASSUME NEW i \in 0..(RecordSize(memory, a) - 1)
      PROVE  /\ a + i \in First(sector)..(sector + SectorSize - 1)
             /\ a + i \in sector..(sector + SectorSize - 1)
  BY <1>1, <1>2, <1>6
<1>8. QED
  BY <1>1, <1>2, <1>4, <1>5, <1>6, <1>7

\* The walk's rule, without its parameters.
LEMMA SearchSteps ==
  ASSUME NEW memory \in Flash, NEW sector \in {Start, Second}, NEW key
  PROVE  \E f : /\ Search(memory, sector, key) = f[First(sector)]
                /\ \A a \in Nat :
                     f[a] = IF AtEnd(memory, sector, a) THEN sector + SectorSize
                            ELSE IF Hit(memory, key, a) THEN a
                            ELSE f[a + RecordSize(memory, a)]
<1>1. PICK f : /\ Search(memory, sector, key) = f[sector + TINY_SECHAD_SIZE]
               /\ Walk(f, Stops(memory, sector, key), Outcome(memory, sector),
                       Behind(memory))
  BY SearchRule
<1>2. ASSUME NEW a \in Nat
      PROVE  f[a] = IF a \in Stops(memory, sector, key)
                    THEN Outcome(memory, sector)[a] ELSE f[Behind(memory)[a]]
  BY <1>1 DEF Walk
<1>3. ASSUME NEW a \in Nat
      PROVE  f[a] = IF AtEnd(memory, sector, a) THEN sector + SectorSize
                    ELSE IF Hit(memory, key, a) THEN a
                    ELSE f[a + RecordSize(memory, a)]
  BY <1>2, WalkAt
<1>4. QED
  BY <1>1, <1>3 DEF First

LEMMA EndAt ==
  ASSUME NEW memory, NEW sector, NEW a
  PROVE  AtEnd(memory, sector, a) <=>
           a > sector + SectorSize - 3 \/ memory[a] = 0 \/ memory[a] = Erased
  BY DEF AtEnd

\* A search finds the key's live record, if there is no other, and nothing else.
LEMMA ChainSearch ==
  ASSUME NEW memory \in Flash, NEW sector \in {Start, Second}, NEW records, NEW end,
         Chain(memory, sector, records, end), NEW key
  PROVE  /\ (\A a \in records : ~Hit(memory, key, a)) =>
              Search(memory, sector, key) = sector + SectorSize
         /\ \A a \in records :
              Hit(memory, key, a) /\ (\A b \in records : Hit(memory, key, b) => b = a)
                => Search(memory, sector, key) = a
<1> DEFINE last == sector + SectorSize
<1>1. PICK f : /\ Search(memory, sector, key) = f[First(sector)]
               /\ \A a \in Nat :
                    f[a] = IF AtEnd(memory, sector, a) THEN last
                           ELSE IF Hit(memory, key, a) THEN a
                           ELSE f[a + RecordSize(memory, a)]
  BY SearchSteps
<1>2. /\ last \in Nat /\ end \in Nat /\ end =< last /\ records \subseteq Nat
      /\ First(sector) \in records \cup {end}
      /\ sector \in Nat /\ SectorSize \in Nat
  BY Places DEF Chain
<1>3. \A a \in records : RecordSize(memory, a) \in Nat /\ RecordSize(memory, a) >= 3
  BY RecordCells
<1> DEFINE None(x) == (\A a \in records : a >= x => ~Hit(memory, key, a)) => f[x] = last
           One(x) == \A a \in records :
                       a >= x /\ Hit(memory, key, a)
                       /\ (\A b \in records : Hit(memory, key, b) => b = a)
                         => f[x] = a
           S == {n \in Nat : \A x \in records \cup {end} :
                               x >= last - n => None(x) /\ One(x)}
<1>4. None(end) /\ One(end)
  <2>1. AtEnd(memory, sector, end)
    <3>1. CASE end > last - 3
      BY <1>2, <3>1, EndAt
    <3>2. CASE ~(end > last - 3)
      <4>1. end \in end..(last - 1)
        BY <1>2, <3>2
      <4>2. memory[end] = Erased
        BY <1>2, <4>1 DEF Chain
      <4>3. QED
        BY <4>2, EndAt
    <3>3. QED
      BY <3>1, <3>2
  <2>2. f[end] = last
    BY <1>1, <1>2, <2>1
  <2>3. \A a \in records : a + 3 =< end
    BY DEF Chain
  <2>4. \A a \in records : ~(a >= end)
    BY <1>2, <2>3
  <2>5. QED
    BY <2>2, <2>4
<1>5. ASSUME NEW x \in records,
             LET y == x + RecordSize(memory, x) IN None(y) /\ One(y)
      PROVE  None(x) /\ One(x)
  <2> DEFINE y == x + RecordSize(memory, x)
  <2>1. /\ memory[x] \notin {0, Erased} /\ x + 3 =< end /\ x \in Nat
        /\ \A a \in records : a > x => a >= y
    BY <1>2 DEF Chain
  <2>2. ~AtEnd(memory, sector, x)
    BY <1>2, <2>1, EndAt
  <2>3. CASE Hit(memory, key, x)
    <3>1. f[x] = x
      BY <1>1, <2>1, <2>2, <2>3
    <3>2. None(x)
      BY <2>1, <2>3
    <3>3. One(x)
      BY <2>3, <3>1
    <3>4. QED
      BY <3>2, <3>3
  <2>4. CASE ~Hit(memory, key, x)
    <3>1. f[x] = f[y]
      BY <1>1, <2>1, <2>2, <2>4
    <3>2. y > x /\ y \in Nat
      BY <1>3, <2>1
    <3>3. \A a \in records : a >= y => a >= x
      BY <1>2, <2>1, <3>2
    <3>4. \A a \in records : a >= x /\ Hit(memory, key, a) => a >= y
      BY <1>2, <2>1, <2>4
    <3> HIDE DEF y
    <3>5. None(x)
      BY <1>5, <3>1, <3>3 DEF y
    <3>6. One(x)
      BY <1>5, <3>1, <3>4 DEF y
    <3>7. QED
      BY <3>5, <3>6
  <2>5. QED
    BY <2>3, <2>4
<1>6. \A x \in records : x < last /\ x + RecordSize(memory, x) \in records \cup {end}
                         /\ x + RecordSize(memory, x) \in Nat
                         /\ x + RecordSize(memory, x) > x
  BY <1>2, <1>3 DEF Chain
<1> HIDE DEF None, One, last
<1>7. 0 \in S
  BY <1>2, <1>4, <1>6
<1>8. ASSUME NEW n \in Nat, n \in S PROVE n + 1 \in S
  <2> SUFFICES ASSUME NEW x \in records \cup {end}, x >= last - (n + 1)
               PROVE  None(x) /\ One(x)
    OBVIOUS
  <2>1. CASE x = end
    BY <1>4, <2>1
  <2>2. CASE x \in records
    <3> DEFINE y == x + RecordSize(memory, x)
    <3>1. y \in records \cup {end} /\ y >= last - n
      BY <1>2, <1>6, <2>2
    <3> HIDE DEF y
    <3>2. None(y) /\ One(y)
      BY <1>8, <3>1
    <3>3. QED
      BY <1>5, <2>2, <3>2 DEF y
  <2>3. QED
    BY <2>1, <2>2
<1> HIDE DEF S
<1>9. \A n \in Nat : n \in S
  BY <1>7, <1>8, SetInduction
<1>10. \A x \in records \cup {end} : x >= last - last => None(x) /\ One(x)
  BY <1>2, <1>9 DEF S
<1>11. None(First(sector)) /\ One(First(sector))
  <2>1. First(sector) >= last - last
    <3>1. First(sector) \in Nat
      BY Places
    <3>2. QED
      BY <1>2, <3>1
  <2>2. QED
    BY <1>2, <1>10, <2>1
<1>12. \A a \in records : a >= First(sector)
  BY DEF Chain
<1>13. QED
  BY <1>1, <1>11, <1>12 DEF None, One, last

\* What a sector holds is in its live records.
LEMMA KeptIs ==
  ASSUME NEW memory \in Flash, NEW sector \in {Start, Second}, NEW records, NEW end,
         Chain(memory, sector, records, end), OneLive(memory, records), NEW key
  PROVE  /\ (\A a \in records : ~Hit(memory, key, a)) =>
              Kept(memory, sector, key) = Nothing
         /\ \A a \in records : Hit(memory, key, a) =>
              /\ Search(memory, sector, key) = a
              /\ Kept(memory, sector, key) = ValueAt(memory, a)
<1>1. CASE \A a \in records : ~Hit(memory, key, a)
  BY <1>1, ChainSearch DEF Kept
<1>2. ASSUME NEW a \in records, Hit(memory, key, a)
      PROVE  /\ Search(memory, sector, key) = a
             /\ Kept(memory, sector, key) = ValueAt(memory, a)
  <2>1. \A b \in records : Hit(memory, key, b) => b = a
    BY <1>2 DEF OneLive, Hit
  <2>2. Search(memory, sector, key) = a
    BY <1>2, <2>1, ChainSearch
  <2>3. a # sector + SectorSize
    BY RecordCells, Places DEF Chain
  <2>4. QED
    BY <2>2, <2>3 DEF Kept
<1>3. QED
  BY <1>1, <1>2

\* Only a sector's own cells count, from the first record on.
SameSector(memory, later, sector) ==
  \A a \in First(sector)..(sector + SectorSize - 1) : later[a] = memory[a]

LEMMA RecordFrame ==
  ASSUME NEW memory \in Flash, NEW later \in Flash, NEW sector \in {Start, Second},
         NEW records, NEW end, Chain(memory, sector, records, end),
         SameSector(memory, later, sector), NEW a \in records
  PROVE  /\ later[a] = memory[a]
         /\ Live(later, a) <=> Live(memory, a)
         /\ RecordSize(later, a) = RecordSize(memory, a)
         /\ ValueAt(later, a) = ValueAt(memory, a)
         /\ \A i \in 0..(RecordSize(memory, a) - 1) : later[a + i] = memory[a + i]
<1> DEFINE size == RecordSize(memory, a)
<1>1. /\ a \in Nat /\ size \in Nat /\ size >= 3
      /\ memory[a + 2] \in Nat /\ memory[a + 2] = size - 3
      /\ \A i \in 0..(size - 1) : a + i \in First(sector)..(sector + SectorSize - 1)
  BY RecordCells
<1> HIDE DEF size
<1>2. ASSUME NEW i \in 0..(size - 1) PROVE later[a + i] = memory[a + i]
  BY <1>1 DEF SameSector
<1>3. later[a] = memory[a] /\ later[a + 1] = memory[a + 1] /\ later[a + 2] = memory[a + 2]
  <2>1. 0 \in 0..(size - 1) /\ 1 \in 0..(size - 1) /\ 2 \in 0..(size - 1) /\ a + 0 = a
    BY <1>1
  <2>2. QED
    BY <1>2, <2>1
<1>4. ValueAt(later, a) = ValueAt(memory, a)
  <2>1. \A i \in 1..memory[a + 2] :
          2 + i \in 0..(size - 1) /\ a + 2 + i = a + (2 + i)
    BY <1>1
  <2>2. \A i \in 1..memory[a + 2] : later[a + 2 + i] = memory[a + 2 + i]
    BY <1>2, <2>1
  <2>3. QED
    BY <1>3, <2>2 DEF ValueAt
<1>5. QED
  BY <1>2, <1>3, <1>4 DEF Live, RecordSize, size

LEMMA ChainFrame ==
  ASSUME NEW memory \in Flash, NEW later \in Flash, NEW sector \in {Start, Second},
         NEW records, NEW end, Chain(memory, sector, records, end),
         SameSector(memory, later, sector)
  PROVE  /\ Chain(later, sector, records, end)
         /\ OneLive(memory, records) => OneLive(later, records)
         /\ \A key : \A a \in records : Hit(later, key, a) <=> Hit(memory, key, a)
<1>1. \A a \in records : /\ later[a] = memory[a]
                         /\ Live(later, a) <=> Live(memory, a)
                         /\ RecordSize(later, a) = RecordSize(memory, a)
  BY RecordFrame
<1>2. end \in Nat /\ end >= First(sector) /\ First(sector) \in Nat
      /\ sector \in Nat /\ SectorSize \in Nat
  <2>1. /\ end \in Nat /\ First(sector) \in records \cup {end}
        /\ \A a \in records : a \in Nat /\ a >= First(sector) /\ a + 3 =< end
    BY DEF Chain
  <2>2. First(sector) =< end
    BY <2>1, Places
  <2>3. QED
    BY <2>1, <2>2, Places
<1>3. \A a \in end..(sector + SectorSize - 1) : later[a] = memory[a]
  BY <1>2 DEF SameSector
<1>4. Chain(later, sector, records, end)
  BY <1>1, <1>3 DEF Chain
<1>5. QED
  BY <1>1, <1>4 DEF OneLive, Hit

LEMMA KeptFrame ==
  ASSUME NEW memory \in Flash, NEW later \in Flash, NEW sector \in {Start, Second},
         NEW records, NEW end, Chain(memory, sector, records, end),
         OneLive(memory, records), SameSector(memory, later, sector), NEW key
  PROVE  Kept(later, sector, key) = Kept(memory, sector, key)
<1>1. /\ Chain(later, sector, records, end) /\ OneLive(later, records)
      /\ \A a \in records : Hit(later, key, a) <=> Hit(memory, key, a)
  BY ChainFrame
<1>2. CASE \A a \in records : ~Hit(memory, key, a)
  BY <1>1, <1>2, KeptIs
<1>3. CASE \E a \in records : Hit(memory, key, a)
  <2>1. PICK a \in records : Hit(memory, key, a)
    BY <1>3
  <2>2. Kept(memory, sector, key) = ValueAt(memory, a)
    BY <2>1, KeptIs
  <2>3. Kept(later, sector, key) = ValueAt(later, a)
    BY <1>1, <2>1, KeptIs
  <2>4. QED
    BY <2>2, <2>3, RecordFrame
<1>4. QED
  BY <1>2, <1>3

\* An erased sector holds nothing.
LEMMA BlankSector ==
  ASSUME NEW memory \in Flash, NEW sector \in {Start, Second},
         \A a \in First(sector)..(sector + SectorSize - 1) : memory[a] = Erased
  PROVE  /\ Chain(memory, sector, {}, First(sector)) /\ OneLive(memory, {})
         /\ \A key : Kept(memory, sector, key) = Nothing
<1>1. First(sector) \in Nat /\ First(sector) =< sector + SectorSize
  BY Places
<1>2. Chain(memory, sector, {}, First(sector))
  BY <1>1 DEF Chain
<1>3. OneLive(memory, {})
  BY DEF OneLive
<1>4. QED
  BY <1>2, <1>3, KeptIs

\* A record and a copy of it, perhaps in a later flash.
SameRecord(memory, a, later, b) ==
  \A i \in 0..(RecordSize(memory, a) - 1) : later[b + i] = memory[a + i]

LEMMA RecordSame ==
  ASSUME NEW memory, NEW later, NEW a \in Nat, NEW b \in Nat, memory[a + 2] \in Nat,
         SameRecord(memory, a, later, b)
  PROVE  /\ later[b] = memory[a]
         /\ Live(later, b) <=> Live(memory, a)
         /\ RecordSize(later, b) = RecordSize(memory, a)
         /\ ValueAt(later, b) = ValueAt(memory, a)
<1> DEFINE size == RecordSize(memory, a)
<1>1. size \in Nat /\ size >= 3 /\ memory[a + 2] = size - 3
  BY DEF RecordSize
<1> HIDE DEF size
<1>2. \A i \in 0..(size - 1) : later[b + i] = memory[a + i]
  BY DEF SameRecord, size
<1>3. later[b] = memory[a] /\ later[b + 1] = memory[a + 1] /\ later[b + 2] = memory[a + 2]
  <2>1. /\ 0 \in 0..(size - 1) /\ 1 \in 0..(size - 1) /\ 2 \in 0..(size - 1)
        /\ a + 0 = a /\ b + 0 = b
    BY <1>1
  <2>2. QED
    BY <1>2, <2>1
<1>4. ValueAt(later, b) = ValueAt(memory, a)
  <2>1. \A i \in 1..memory[a + 2] :
          2 + i \in 0..(size - 1) /\ a + 2 + i = a + (2 + i) /\ b + 2 + i = b + (2 + i)
    BY <1>1
  <2>2. \A i \in 1..memory[a + 2] : later[b + 2 + i] = memory[a + 2 + i]
    BY <1>2, <2>1
  <2>3. QED
    BY <1>3, <2>2 DEF ValueAt
<1>5. Live(later, b) <=> Live(memory, a)
  BY <1>3 DEF Live
<1>6. RecordSize(later, b) = RecordSize(memory, a)
  BY <1>3 DEF RecordSize
<1>7. QED
  BY <1>3, <1>4, <1>5, <1>6

LEMMA HitSame ==
  ASSUME NEW memory, NEW later, NEW a \in Nat, NEW b \in Nat, memory[a + 2] \in Nat,
         SameRecord(memory, a, later, b), NEW key
  PROVE  Hit(later, key, b) <=> Hit(memory, key, a)
<1>1. later[b] = memory[a]
  BY RecordSame
<1>2. Live(later, b) <=> Live(memory, a)
  BY RecordSame
<1>3. QED
  BY <1>1, <1>2 DEF Hit

LEMMA RecordBack ==
  ASSUME NEW memory, NEW later, NEW a \in Nat, NEW b \in Nat, memory[a + 2] \in Nat,
         SameRecord(memory, a, later, b)
  PROVE  /\ later[b] = memory[a] /\ RecordSize(later, b) = RecordSize(memory, a)
         /\ SameRecord(later, b, memory, a)
<1>1. later[b] = memory[a] /\ RecordSize(later, b) = RecordSize(memory, a)
  BY RecordSame
<1> DEFINE size == RecordSize(memory, a)
<1>2. \A i \in 0..(size - 1) : later[b + i] = memory[a + i]
  BY DEF SameRecord
<1>3. \A i \in 0..(size - 1) : memory[a + i] = later[b + i]
  BY <1>2
<1>4. RecordSize(later, b) = size
  BY <1>1
<1> HIDE DEF size
<1>5. SameRecord(later, b, memory, a)
  BY <1>3, <1>4 DEF SameRecord
<1>6. QED
  BY <1>1, <1>5

\* Every live record of the key has a copy among the others.
Covers(memory, records, later, others, key) ==
  \A a \in records : Hit(memory, key, a) =>
    \E b \in others : SameRecord(memory, a, later, b)

LEMMA KeptSame ==
  ASSUME NEW memory \in Flash, NEW sector \in {Start, Second}, NEW records, NEW end,
         Chain(memory, sector, records, end), OneLive(memory, records),
         NEW later \in Flash, NEW other \in {Start, Second}, NEW others, NEW last,
         Chain(later, other, others, last), OneLive(later, others), NEW key,
         Covers(memory, records, later, others, key),
         Covers(later, others, memory, records, key)
  PROVE  Kept(later, other, key) = Kept(memory, sector, key)
<1>1. \A a \in records : a \in Nat /\ memory[a + 2] \in Nat
  BY RecordCells
<1>2. \A b \in others : b \in Nat /\ later[b + 2] \in Nat
  BY RecordCells
<1>3. CASE \E a \in records : Hit(memory, key, a)
  <2>1. PICK a \in records : Hit(memory, key, a)
    BY <1>3
  <2>2. PICK b \in others : SameRecord(memory, a, later, b)
    BY <2>1 DEF Covers
  <2>3. Hit(later, key, b) /\ ValueAt(later, b) = ValueAt(memory, a)
    BY <1>1, <1>2, <2>1, <2>2, RecordSame, HitSame
  <2>4. Kept(memory, sector, key) = ValueAt(memory, a)
    BY <2>1, KeptIs
  <2>5. Kept(later, other, key) = ValueAt(later, b)
    BY <2>3, KeptIs
  <2>6. QED
    BY <2>3, <2>4, <2>5
<1>4. CASE \A a \in records : ~Hit(memory, key, a)
  <2>1. ASSUME NEW b \in others, Hit(later, key, b) PROVE FALSE
    <3>1. PICK a \in records : SameRecord(later, b, memory, a)
      BY <2>1 DEF Covers
    <3>2. Hit(memory, key, a)
      BY <1>1, <1>2, <2>1, <3>1, HitSame
    <3>3. QED
      BY <1>4, <3>2
  <2>2. QED
    BY <1>4, <2>1, KeptIs
<1>5. QED
  BY <1>3, <1>4

\* The flash differs in len cells only, from an address on.
Beyond(memory, later, address, len) ==
  \A a \in Cells : a < address \/ a >= address + len => later[a] = memory[a]

\* What is behind the last record does not touch the records.
LEMMA RecordsStay ==
  ASSUME NEW memory \in Flash, NEW sector \in {Start, Second}, NEW records, NEW end,
         Chain(memory, sector, records, end), NEW len \in Nat,
         NEW later \in Flash, Beyond(memory, later, end, len)
  PROVE  \A a \in records : SameRecord(memory, a, later, a)
                         /\ SameRecord(later, a, memory, a)
<1> SUFFICES ASSUME NEW a \in records
             PROVE  SameRecord(memory, a, later, a) /\ SameRecord(later, a, memory, a)
  OBVIOUS
<1> DEFINE size == RecordSize(memory, a)
<1>1. /\ a \in Nat /\ size \in Nat /\ size >= 3 /\ memory[a + 2] \in Nat
      /\ \A i \in 0..(size - 1) : a + i \in Cells
  BY RecordCells
<1>2. a + size =< end /\ end \in Nat
  BY DEF Chain
<1> HIDE DEF size
<1>3. ASSUME NEW i \in 0..(size - 1) PROVE later[a + i] = memory[a + i]
  <2>1. a + i < end
    BY <1>1, <1>2
  <2>2. QED
    BY <1>1, <2>1 DEF Beyond
<1>4. SameRecord(memory, a, later, a)
  BY <1>3 DEF SameRecord, size
<1>5. RecordSize(later, a) = size
  BY <1>1, <1>4, RecordSame DEF size
<1>6. QED
  BY <1>3, <1>4, <1>5 DEF SameRecord

\* A write behind the last record.
LEMMA RecordAppended ==
  ASSUME NEW memory \in Flash, NEW sector \in {Start, Second}, NEW records, NEW end,
         Chain(memory, sector, records, end),
         NEW len \in 3..PageSize, end + len =< sector + SectorSize,
         NEW data, \A i \in 0..(len - 1) : data[i] \in Byte,
         NEW later, later = flash_write(memory, end, len, data)
  PROVE  /\ later \in Flash
         /\ \A i \in 0..(len - 1) : later[end + i] = data[i]
         /\ Beyond(memory, later, end, len)
<1>1. /\ sector \in Nat /\ SectorSize \in Nat /\ First(sector) \in Nat
      /\ First(sector) > sector
      /\ \A c \in sector..(sector + SectorSize - 1) : c \in Cells /\ c \in Nat
  BY Places
<1>2. PageSize \in Nat /\ len \in Nat /\ len =< PageSize /\ Cells \subseteq Nat
  BY Sizes DEF Cells
<1>3. /\ end \in Nat /\ First(sector) \in records \cup {end}
      /\ \A a \in records : a \in Nat /\ a >= First(sector) /\ a + 3 =< end
      /\ \A a \in end..(sector + SectorSize - 1) : memory[a] = Erased
  BY DEF Chain
<1>4. end >= First(sector)
  BY <1>1, <1>3
<1>5. later \in Flash
  BY <1>2, <1>3, TwoPagesTyped
<1>6. ASSUME NEW a \in Cells
      PROVE  later[a] = IF a \in end..(end + len - 1)
                        THEN And(memory[a], data[a - end]) ELSE memory[a]
  BY <1>2, <1>3, WriteRange
<1>7. ASSUME NEW i \in 0..(len - 1) PROVE later[end + i] = data[i]
  <2>1. /\ end + i \in end..(end + len - 1) /\ (end + i) - end = i
        /\ end + i \in end..(sector + SectorSize - 1)
        /\ end + i \in sector..(sector + SectorSize - 1)
    BY <1>1, <1>2, <1>3, <1>4
  <2>2. end + i \in Cells /\ memory[end + i] = Erased
    BY <1>1, <1>3, <2>1
  <2>3. later[end + i] = And(Erased, data[i])
    BY <1>6, <2>1, <2>2
  <2>4. QED
    BY <2>3, AndAssumption
<1>8. ASSUME NEW a \in Cells, a < end \/ a >= end + len PROVE later[a] = memory[a]
  <2>1. a \notin end..(end + len - 1)
    BY <1>2, <1>3, <1>8
  <2>2. QED
    BY <1>6, <2>1
<1>9. QED
  BY <1>5, <1>7, <1>8 DEF Beyond

\* Behind the records there is one more, of which the header at least is right:
\* it belongs to the sector.
LEMMA ChainGrows ==
  ASSUME NEW memory \in Flash, NEW sector \in {Start, Second}, NEW records, NEW end,
         Chain(memory, sector, records, end),
         NEW len \in 3..PageSize, end + len =< sector + SectorSize,
         NEW later \in Flash, Beyond(memory, later, end, len),
         later[end] \notin {0, Erased}, RecordSize(later, end) = len
  PROVE  Chain(later, sector, records \cup {end}, end + len)
<1>1. /\ sector \in Nat /\ SectorSize \in Nat /\ First(sector) \in Nat
      /\ First(sector) > sector
      /\ \A c \in sector..(sector + SectorSize - 1) : c \in Cells /\ c \in Nat
  BY Places
<1>2. PageSize \in Nat /\ len \in Nat /\ len >= 3 /\ len =< PageSize
  BY Sizes
<1>3. \A a \in records : SameRecord(memory, a, later, a)
  BY <1>2, RecordsStay
<1>4. /\ end \in Nat /\ First(sector) \in records \cup {end} /\ records \subseteq Nat
      /\ \A a \in records :
           /\ a >= First(sector) /\ a + 3 =< end
           /\ memory[a] \notin {0, Erased}
           /\ RecordSize(memory, a) =< PageSize
           /\ a + RecordSize(memory, a) =< end
           /\ a + RecordSize(memory, a) \in records \cup {end}
           /\ \A b \in records : b > a => b >= a + RecordSize(memory, a)
      /\ \A a \in end..(sector + SectorSize - 1) : memory[a] = Erased
  BY DEF Chain
<1>5. end >= First(sector)
  BY <1>1, <1>4
<1>6. ASSUME NEW a \in records
      PROVE  later[a] = memory[a] /\ RecordSize(later, a) = RecordSize(memory, a)
  <2>1. a \in Nat /\ memory[a + 2] \in Nat
    BY RecordCells
  <2>2. QED
    BY <1>3, <2>1, RecordSame
<1>8. ASSUME NEW a \in records \cup {end}
      PROVE  /\ a >= First(sector) /\ a + 3 =< end + len
             /\ later[a] \notin {0, Erased}
             /\ RecordSize(later, a) =< PageSize
             /\ a + RecordSize(later, a) =< end + len
             /\ a + RecordSize(later, a) \in (records \cup {end}) \cup {end + len}
             /\ \A b \in records \cup {end} : b > a => b >= a + RecordSize(later, a)
  <2>1. CASE a \in records
    <3>1. /\ a >= First(sector) /\ a + 3 =< end /\ memory[a] \notin {0, Erased}
          /\ RecordSize(memory, a) =< PageSize /\ a \in Nat
          /\ a + RecordSize(memory, a) =< end
          /\ a + RecordSize(memory, a) \in records \cup {end}
          /\ \A b \in records : b > a => b >= a + RecordSize(memory, a)
      BY <1>4, <2>1
    <3>2. later[a] = memory[a] /\ RecordSize(later, a) = RecordSize(memory, a)
      BY <1>6, <2>1
    <3>3. RecordSize(memory, a) \in Nat
      BY <2>1, RecordCells
    <3> DEFINE size == RecordSize(memory, a)
    <3> HIDE DEF size
    <3>4. a + size =< end + len /\ a + 3 =< end + len
      BY <1>2, <1>4, <3>1, <3>3 DEF size
    <3>5. QED
      BY <3>1, <3>2, <3>4 DEF size
  <2>2. CASE a = end
    <3>1. ~(\E b \in records \cup {end} : b > a)
      BY <1>4, <2>2
    <3>2. QED
      BY <1>1, <1>2, <1>4, <1>5, <2>2, <3>1
  <2>3. QED
    BY <2>1, <2>2
<1>9. ASSUME NEW a \in (end + len)..(sector + SectorSize - 1)
      PROVE  later[a] = Erased
  <2>1. /\ a \in end..(sector + SectorSize - 1) /\ a >= end + len
        /\ a \in sector..(sector + SectorSize - 1)
    BY <1>1, <1>2, <1>4, <1>5
  <2>2. a \in Cells /\ memory[a] = Erased
    BY <1>1, <1>4, <2>1
  <2>3. QED
    BY <2>1, <2>2 DEF Beyond
<1>10. First(sector) \in (records \cup {end}) \cup {end + len}
       /\ records \cup {end} \subseteq Nat /\ end + len \in Nat
  BY <1>2, <1>4
<1>11. QED
  BY <1>8, <1>9, <1>10 DEF Chain

LEMMA ValueLength ==
  ASSUME NEW value \in Values PROVE Len(value) \in Nat /\ Len(value) >= 1
<1>1. Len(value) \in 1..Erased /\ Erased \in Nat
  BY TinyAssumption, Sizes
<1>2. QED
  BY <1>1

LEMMA RecordOf ==
  ASSUME NEW key \in Keys, NEW value \in Values, ~TooLong(value)
  PROVE  /\ Len(value) \in Nat /\ Len(value) + 3 \in 3..PageSize
         /\ \A i \in 0..(Len(value) + 3 - 1) : Record(key, value)[i] \in Byte
         /\ Record(key, value)[0] = key /\ Record(key, value)[0] \notin {0, Erased}
         /\ Record(key, value)[1] = Inverse(key)
         /\ Record(key, value)[2] = Len(value)
         /\ \A i \in 1..Len(value) : Record(key, value)[2 + i] = value[i]
<1>1. value \in Seq(Byte) /\ Len(value) \in Nat /\ key \in 1..(Erased - 1)
  BY TinyAssumption, ValueLength
<1>2. PageSize \in Nat /\ Erased \in Nat
  BY Sizes
<1>3. Len(value) \in Nat /\ Len(value) + 3 \in 3..PageSize
      /\ (Len(value) + 3) - 1 = Len(value) + 2
  BY <1>1, <1>2 DEF TooLong
<1>4. \A i \in 0..(Len(value) + 2) : Record(key, value)[i] \in Byte
  BY RecordTyped
<1>5. /\ Record(key, value)[0] = key /\ Record(key, value)[1] = Inverse(key)
      /\ Record(key, value)[2] = Len(value)
  BY <1>3 DEF Record
<1>6. ASSUME NEW i \in 1..Len(value) PROVE Record(key, value)[2 + i] = value[i]
  BY <1>3 DEF Record
<1>7. key \notin {0, Erased}
  BY <1>1, <1>2
<1>8. QED
  BY <1>3, <1>4, <1>5, <1>6, <1>7

LEMMA OneLiveGrows ==
  ASSUME NEW memory \in Flash, NEW sector \in {Start, Second}, NEW records, NEW end,
         Chain(memory, sector, records, end), OneLive(memory, records), NEW later,
         \A a \in records : SameRecord(memory, a, later, a),
         \A a \in records : ~Hit(memory, later[end], a)
  PROVE  OneLive(later, records \cup {end})
<1> SUFFICES ASSUME NEW a \in records \cup {end}, NEW b \in records \cup {end},
                    later[a] = later[b], Live(later, a), Live(later, b)
             PROVE  a = b
  BY DEF OneLive
<1>1. ASSUME NEW c \in records, NEW key, Hit(later, key, c)
      PROVE  Hit(memory, key, c)
  <2>1. c \in Nat /\ memory[c + 2] \in Nat
    BY RecordCells
  <2>2. QED
    BY <1>1, <2>1, HitSame
<1>2. CASE a \in records /\ b \in records
  <2>1. Hit(later, later[a], a) /\ Hit(later, later[a], b)
    BY DEF Hit
  <2>2. Hit(memory, later[a], a) /\ Hit(memory, later[a], b)
    BY <1>1, <1>2, <2>1
  <2>3. QED
    BY <1>2, <2>2 DEF OneLive, Hit
<1>3. ASSUME NEW c \in records, later[c] = later[end], Live(later, c) PROVE FALSE
  <2>1. Hit(later, later[end], c)
    BY <1>3 DEF Hit
  <2>2. Hit(memory, later[end], c)
    BY <1>1, <2>1
  <2>3. QED
    BY <2>2
<1>4. QED
  BY <1>2, <1>3

\* The sector is a chain of records without doubles.
Whole(memory, sector, records, end) ==
  Chain(memory, sector, records, end) /\ OneLive(memory, records)

\* The key has no live record.
Absent(memory, records, key) == \A a \in records : ~Hit(memory, key, a)

OthersKept(memory, later, sector, key) ==
  \A other \in Keys : other # key =>
    Kept(later, sector, other) = Kept(memory, sector, other)

\* The sector has a new record, and all others are what they were.
NewRecord(memory, later, sector, records, end, key, value) ==
  /\ Whole(later, sector, records \cup {end}, end + Len(value) + 3)
  /\ OthersKept(memory, later, sector, key)

\* A new record of a key without a live one.  Part of it may be missing, if it
\* keeps its length and is not live under another key.
LEMMA RecordStored ==
  ASSUME NEW memory \in Flash, NEW sector \in {Start, Second}, NEW records, NEW end,
         Whole(memory, sector, records, end),
         NEW key \in Keys, NEW value \in Values, ~TooLong(value),
         Absent(memory, records, key),
         end + Len(value) + 3 =< sector + SectorSize,
         NEW later \in Flash, Beyond(memory, later, end, Len(value) + 3),
         later[end] \notin {0, Erased}, later[end + 2] = Len(value),
         Live(later, end) => later[end] = key
  PROVE  /\ NewRecord(memory, later, sector, records, end, key, value)
         /\ Hit(later, key, end) => Kept(later, sector, key) = ValueAt(later, end)
<1> DEFINE len == Len(value) + 3
<1>0. Chain(memory, sector, records, end) /\ OneLive(memory, records)
  BY DEF Whole
<1> USE <1>0
<1>1. Len(value) \in Nat /\ len \in 3..PageSize /\ len \in Nat
  BY RecordOf
<1>2. end \in Nat /\ sector \in Nat /\ SectorSize \in Nat
      /\ end + Len(value) + 3 = end + len
  BY <1>1, Places DEF Chain
<1>3. RecordSize(later, end) = len /\ end + len =< sector + SectorSize
      /\ Beyond(memory, later, end, len)
  BY <1>2 DEF RecordSize
<1> HIDE DEF len
<1>4. \A a \in records : SameRecord(memory, a, later, a)
                      /\ SameRecord(later, a, memory, a)
  BY <1>1, <1>3, RecordsStay
<1>5. Chain(later, sector, records \cup {end}, end + len)
  BY <1>1, <1>3, ChainGrows
<1>6. \A a \in records : a \in Nat /\ memory[a + 2] \in Nat
  BY RecordCells
<1>7. OneLive(later, records \cup {end})
  <2>1. ASSUME NEW a \in records \cup {end}, NEW b \in records \cup {end},
               later[a] = later[b], Live(later, a), Live(later, b)
        PROVE  a = b
    <3>1. ASSUME NEW c \in records, Live(later, c) PROVE Hit(memory, later[c], c)
      <4>1. Hit(later, later[c], c)
        BY <3>1 DEF Hit
      <4>2. QED
        BY <1>4, <1>6, <4>1, HitSame
    <3>2. ASSUME NEW c \in records, later[c] = later[end], Live(later, c),
                 Live(later, end)
          PROVE  FALSE
      <4>1. later[c] = key
        BY <3>2
      <4>2. QED
        BY <3>1, <3>2, <4>1 DEF Absent
    <3>3. CASE a \in records /\ b \in records
      <4>1. Hit(memory, later[a], a) /\ Hit(memory, later[a], b)
        BY <2>1, <3>1, <3>3
      <4>2. QED
        BY <3>3, <4>1 DEF OneLive, Hit
    <3>4. QED
      BY <2>1, <3>2, <3>3
  <2>2. QED
    BY <2>1 DEF OneLive
<1>8. ASSUME NEW other \in Keys, other # key
      PROVE  Kept(later, sector, other) = Kept(memory, sector, other)
  <2>1. Covers(memory, records, later, records \cup {end}, other)
    BY <1>4 DEF Covers
  <2>2. Covers(later, records \cup {end}, memory, records, other)
    BY <1>4, <1>8 DEF Covers, Hit
  <2>3. QED
    BY <1>5, <1>7, <2>1, <2>2, KeptSame
<1>9. Hit(later, key, end) => Kept(later, sector, key) = ValueAt(later, end)
  BY <1>5, <1>7, KeptIs
<1>10. QED
  BY <1>2, <1>5, <1>7, <1>8, <1>9 DEF OthersKept, Whole, NewRecord

\* One byte is programmed.
LEMMA ByteProgrammed ==
  ASSUME NEW memory \in Flash, NEW address \in Cells, NEW byte \in Byte
  PROVE  /\ flash_write_page(memory, address, 1, [i \in {0} |-> byte])
              = [memory EXCEPT ![address] = And(memory[address], byte)]
         /\ [memory EXCEPT ![address] = And(memory[address], byte)] \in Flash
<1> DEFINE data == [i \in {0} |-> byte]
           later == flash_write_page(memory, address, 1, data)
<1>1. PageSize \in Nat \ {0} /\ address \in Nat /\ Cells \subseteq Nat
  BY Sizes DEF Cells
<1>2. 1 =< PageSize - (address % PageSize)
  <2>1. address % PageSize \in 0..(PageSize - 1)
    BY <1>1, NextPage
  <2>2. QED
    BY <1>1, <2>1
<1>3. data[0] = byte
  OBVIOUS
<1>4. later = [a \in Cells |-> later[a]]
  BY DEF flash_write_page
<1> HIDE DEF data
<1>5. ASSUME NEW a \in Cells
      PROVE  later[a] = IF a = address THEN And(memory[a], byte) ELSE memory[a]
  <2>1. later[a] = IF a \in address..(address + 1 - 1)
                   THEN And(memory[a], data[a - address]) ELSE memory[a]
    BY <1>1, <1>2, WriteWithin
  <2>2. a \in address..(address + 1 - 1) <=> a = address
    BY <1>1
  <2>3. a = address => a - address = 0
    BY <1>1
  <2>4. QED
    BY <1>3, <2>1, <2>2, <2>3
<1> HIDE DEF later
<1>6. later = [memory EXCEPT ![address] = And(memory[address], byte)]
  BY <1>4, <1>5 DEF Flash
<1>7. [memory EXCEPT ![address] = And(memory[address], byte)] \in Flash
  <2>1. memory[address] \in Byte
    BY DEF Flash
  <2>2. And(memory[address], byte) \in Byte
    BY <2>1, AndAssumption
  <2>3. QED
    BY <2>2 DEF Flash
<1>8. QED
  BY <1>6, <1>7 DEF later, data

\* Two records have no cell in common.
LEMMA RecordsApart ==
  ASSUME NEW memory \in Flash, NEW sector \in {Start, Second}, NEW records, NEW end,
         Chain(memory, sector, records, end), NEW a \in records, NEW b \in records,
         a # b, NEW i \in 0..(RecordSize(memory, a) - 1),
         NEW j \in 0..(RecordSize(memory, b) - 1)
  PROVE  a + i # b + j
<1> DEFINE m == RecordSize(memory, a)
           n == RecordSize(memory, b)
<1>1. a \in Nat /\ b \in Nat /\ m \in Nat /\ n \in Nat
  BY RecordCells
<1>2. (b > a => b >= a + m) /\ (a > b => a >= b + n)
  BY DEF Chain
<1> HIDE DEF m, n
<1>3. i \in 0..(m - 1) /\ j \in 0..(n - 1)
  BY DEF m, n
<1>4. QED
  BY <1>1, <1>2, <1>3

\* The live record of a key is crossed out: one byte of it is another one.
LEMMA CrossedOut ==
  ASSUME NEW memory \in Flash, NEW sector \in {Start, Second}, NEW records, NEW end,
         Chain(memory, sector, records, end), OneLive(memory, records), NEW key \in Keys,
         NEW found \in records, Hit(memory, key, found),
         NEW later \in Flash, later[found + 1] # memory[found + 1],
         \A a \in Cells : a # found + 1 => later[a] = memory[a]
  PROVE  /\ Chain(later, sector, records, end) /\ OneLive(later, records)
         /\ \A a \in records : ~Hit(later, key, a)
         /\ Kept(later, sector, key) = Nothing
         /\ \A other : other # key =>
              Kept(later, sector, other) = Kept(memory, sector, other)
<1>1. /\ found \in Nat /\ found \in Cells /\ found + 1 \in Cells
      /\ RecordSize(memory, found) \in Nat /\ RecordSize(memory, found) >= 3
      /\ found + 2 \in Cells
  BY RecordCells
<1>2. /\ later[found] = memory[found] /\ memory[found] = key
      /\ RecordSize(later, found) = RecordSize(memory, found)
      /\ ~Live(later, found)
  <2>1. later[found] = memory[found] /\ later[found + 2] = memory[found + 2]
    BY <1>1
  <2>2. memory[found] = key /\ memory[found + 1] = Inverse(key)
    BY DEF Hit, Live
  <2>3. QED
    BY <2>1, <2>2 DEF Live, RecordSize
<1>3. ASSUME NEW a \in records, a # found
      PROVE  SameRecord(memory, a, later, a) /\ SameRecord(later, a, memory, a)
             /\ later[a] = memory[a] /\ RecordSize(later, a) = RecordSize(memory, a)
  <2>1. /\ a \in Nat /\ memory[a + 2] \in Nat
        /\ \A i \in 0..(RecordSize(memory, a) - 1) : a + i \in Cells
    BY RecordCells
  <2>2. 1 \in 0..(RecordSize(memory, found) - 1)
    BY <1>1
  <2>3. ASSUME NEW i \in 0..(RecordSize(memory, a) - 1)
        PROVE  later[a + i] = memory[a + i]
    <3>1. a + i # found + 1
      BY <1>3, <2>2, RecordsApart
    <3>2. QED
      BY <2>1, <3>1
  <2>4. SameRecord(memory, a, later, a)
    BY <2>3 DEF SameRecord
  <2>5. QED
    BY <2>1, <2>4, RecordBack
<1>4. \A a \in records :
        later[a] = memory[a] /\ RecordSize(later, a) = RecordSize(memory, a)
  BY <1>2, <1>3
<1>5. Chain(later, sector, records, end)
  <2>1. ASSUME NEW a \in end..(sector + SectorSize - 1) PROVE later[a] = Erased
    <3>1. end \in Nat /\ found + 3 =< end /\ memory[a] = Erased
      BY DEF Chain
    <3>2. end >= First(sector) /\ First(sector) \in Nat /\ First(sector) > sector
          /\ sector \in Nat /\ SectorSize \in Nat
      <4>1. First(sector) \in records \cup {end}
            /\ \A b \in records : b \in Nat /\ b >= First(sector) /\ b + 3 =< end
        BY DEF Chain
      <4>2. QED
        BY <3>1, <4>1, Places
    <3>3. a \in sector..(sector + SectorSize - 1) /\ a # found + 1
      BY <1>1, <3>1, <3>2
    <3>4. a \in Cells
      BY <3>3, Places
    <3>5. QED
      BY <3>1, <3>3, <3>4
  <2>2. QED
    BY <1>4, <2>1 DEF Chain
<1>6. ASSUME NEW a \in records, NEW other, Hit(later, other, a)
      PROVE  a # found /\ Hit(memory, other, a)
  <2>1. a # found
    BY <1>2, <1>6 DEF Hit
  <2>2. a \in Nat /\ memory[a + 2] \in Nat
    BY RecordCells
  <2>3. SameRecord(memory, a, later, a)
    BY <1>3, <2>1
  <2>4. QED
    BY <1>6, <2>1, <2>2, <2>3, HitSame
<1>7. OneLive(later, records)
  <2> SUFFICES ASSUME NEW a \in records, NEW b \in records, later[a] = later[b],
                      Live(later, a), Live(later, b)
               PROVE  a = b
    BY DEF OneLive
  <2>1. Hit(later, later[a], a) /\ Hit(later, later[a], b)
    BY DEF Hit
  <2>2. Hit(memory, later[a], a) /\ Hit(memory, later[a], b)
    BY <1>6, <2>1
  <2>3. QED
    BY <2>2 DEF Hit, OneLive
<1>8. \A a \in records : ~Hit(later, key, a)
  <2> SUFFICES ASSUME NEW a \in records, Hit(later, key, a) PROVE FALSE
    OBVIOUS
  <2>1. a # found /\ Hit(memory, key, a)
    BY <1>6
  <2>2. QED
    BY <2>1 DEF Hit, OneLive
<1>9. Kept(later, sector, key) = Nothing
  BY <1>5, <1>7, <1>8, KeptIs
<1>10. ASSUME NEW other, other # key
       PROVE  Kept(later, sector, other) = Kept(memory, sector, other)
  <2>1. Covers(memory, records, later, records, other)
    BY <1>2, <1>3, <1>10 DEF Covers, Hit
  <2>2. Covers(later, records, memory, records, other)
    BY <1>3, <1>6 DEF Covers
  <2>3. QED
    BY <1>5, <1>7, <2>1, <2>2, KeptSame
<1>11. QED
  BY <1>5, <1>7, <1>8, <1>9, <1>10

\* Where a deletion programs, and what it leaves.
LEMMA Deletion ==
  ASSUME NEW memory \in Flash, NEW sector \in {Start, Second}, NEW records, NEW end,
         Chain(memory, sector, records, end), OneLive(memory, records), NEW key \in Keys,
         NEW later,
         later = IF Search(memory, sector, key) = sector + SectorSize THEN memory
                 ELSE flash_write_page(memory, Search(memory, sector, key) + 1, 1,
                                       [i \in {0} |-> 0])
  PROVE  \/ later = memory /\ \A a \in records : ~Hit(memory, key, a)
         \/ \E found \in records :
              /\ Hit(memory, key, found) /\ later \in Flash
              /\ later[found + 1] # memory[found + 1]
              /\ \A a \in Cells : a # found + 1 => later[a] = memory[a]
<1>1. CASE \A a \in records : ~Hit(memory, key, a)
  BY <1>1, ChainSearch
<1>2. CASE \E a \in records : Hit(memory, key, a)
  <2>1. PICK found \in records : Hit(memory, key, found)
    BY <1>2
  <2>2. Search(memory, sector, key) = found
    BY <2>1, KeptIs
  <2>3. found \in Nat /\ found + 1 \in Cells
    BY RecordCells
  <2>4. found # sector + SectorSize
    BY Places DEF Chain
  <2>5. 0 \in Byte
    BY Sizes
  <2>6. /\ later \in Flash /\ later[found + 1] = And(memory[found + 1], 0)
        /\ \A a \in Cells : a # found + 1 => later[a] = memory[a]
    <3>1. later = flash_write_page(memory, found + 1, 1, [i \in {0} |-> 0])
      BY <2>2, <2>4
    <3>2. later = [memory EXCEPT ![found + 1] = And(memory[found + 1], 0)]
          /\ later \in Flash
      BY <2>3, <2>5, <3>1, ByteProgrammed
    <3>3. QED
      BY <2>3, <3>2 DEF Flash
  <2>7. later[found + 1] = 0
    <3>1. memory[found + 1] \in Byte
      BY <2>3 DEF Flash
    <3>2. QED
      BY <2>6, <3>1, TinyAssumption
  <2>8. memory[found + 1] # 0
    <3>1. Inverse(key) # 0
      BY TinyAssumption, Sizes DEF Inverse
    <3>2. memory[found + 1] = Inverse(key)
      BY <2>1 DEF Hit, Live
    <3>3. QED
      BY <3>1, <3>2
  <2>9. QED
    BY <2>1, <2>6, <2>7, <2>8
<1>3. QED
  BY <1>1, <1>2

LEMMA KeyDeleted ==
  ASSUME NEW memory \in Flash, NEW sector \in {Start, Second}, NEW records, NEW end,
         Chain(memory, sector, records, end), OneLive(memory, records), NEW key \in Keys,
         NEW later,
         later = IF Search(memory, sector, key) = sector + SectorSize THEN memory
                 ELSE flash_write_page(memory, Search(memory, sector, key) + 1, 1,
                                       [i \in {0} |-> 0])
  PROVE  /\ later \in Flash
         /\ Chain(later, sector, records, end) /\ OneLive(later, records)
         /\ \A a \in records : ~Hit(later, key, a)
         /\ Kept(later, sector, key) = Nothing
         /\ \A other : other # key =>
              Kept(later, sector, other) = Kept(memory, sector, other)
<1>1. CASE later = memory /\ \A a \in records : ~Hit(memory, key, a)
  BY <1>1, KeptIs
<1>2. CASE \E found \in records :
             /\ Hit(memory, key, found) /\ later \in Flash
             /\ later[found + 1] # memory[found + 1]
             /\ \A a \in Cells : a # found + 1 => later[a] = memory[a]
  BY <1>2, CrossedOut
<1>3. QED
  BY <1>1, <1>2, Deletion
-----------------------------------------------------------------------------
(* A swap copies the live records to the other sector. *)

\* The live records before x are among the copies, and there is nothing else.
Copy(memory, records, x, copies) ==
  /\ \A a \in records : a < x /\ Live(memory, a) =>
       \E b \in copies : SameRecord(memory, a, memory, b)
  /\ \A b \in copies : \E a \in records :
       a < x /\ Live(memory, a) /\ SameRecord(memory, b, memory, a)

\* The swap has come from the first record to the one at x.
Copying(memory, sector, other, records, x, last) ==
  \E copies : /\ Whole(memory, other, copies, last)
              /\ Copy(memory, records, x, copies)
              /\ last - other =< x - sector

\* The swap has come to the end.
AllThere(memory, other, records, end) ==
  \E copies, last : Whole(memory, other, copies, last) /\ Copy(memory, records, end, copies)

\* What was the same before is the same after.
LEMMA StaySame ==
  ASSUME NEW memory, NEW later, NEW a \in Nat, NEW b \in Nat, memory[a + 2] \in Nat,
         SameRecord(memory, a, memory, b), SameRecord(memory, a, later, a),
         memory[b + 2] \in Nat, SameRecord(memory, b, later, b)
  PROVE  SameRecord(later, a, later, b)
<1> DEFINE size == RecordSize(memory, a)
<1>1. RecordSize(memory, b) = size /\ RecordSize(later, a) = size
  <2>1. RecordSize(memory, b) = size
    BY RecordSame
  <2>2. RecordSize(later, a) = size
    BY RecordSame
  <2>3. QED
    BY <2>1, <2>2
<1>2. \A i \in 0..(size - 1) : memory[b + i] = memory[a + i] /\ later[a + i] = memory[a + i]
  BY DEF SameRecord
<1> HIDE DEF size
<1>3. \A i \in 0..(size - 1) : later[b + i] = memory[b + i]
  BY <1>1 DEF SameRecord
<1>4. \A i \in 0..(size - 1) : later[b + i] = later[a + i]
  BY <1>2, <1>3
<1>5. QED
  BY <1>1, <1>4 DEF SameRecord

LEMMA CopyStays ==
  ASSUME NEW memory \in Flash, NEW later,
         NEW sector \in {Start, Second}, NEW records, NEW end,
         Chain(memory, sector, records, end),
         NEW other \in {Start, Second}, NEW copies, NEW last,
         Chain(memory, other, copies, last), NEW x, Copy(memory, records, x, copies),
         \A a \in records : SameRecord(memory, a, later, a),
         \A b \in copies : SameRecord(memory, b, later, b)
  PROVE  Copy(later, records, x, copies)
<1>1. \A a \in records : a \in Nat /\ memory[a + 2] \in Nat
  BY RecordCells
<1>2. \A b \in copies : b \in Nat /\ memory[b + 2] \in Nat
  BY RecordCells
<1>3. ASSUME NEW a \in records PROVE Live(later, a) <=> Live(memory, a)
  BY <1>1, RecordSame
<1>4. ASSUME NEW a \in records, a < x, Live(later, a)
      PROVE  \E b \in copies : SameRecord(later, a, later, b)
  <2>1. PICK b \in copies : SameRecord(memory, a, memory, b)
    BY <1>3, <1>4 DEF Copy
  <2>2. SameRecord(later, a, later, b)
    BY <1>1, <1>2, <2>1, StaySame
  <2>3. QED
    BY <2>2
<1>5. ASSUME NEW b \in copies
      PROVE  \E a \in records :
               a < x /\ Live(later, a) /\ SameRecord(later, b, later, a)
  <2>1. PICK a \in records : a < x /\ Live(memory, a) /\ SameRecord(memory, b, memory, a)
    BY DEF Copy
  <2>2. SameRecord(later, b, later, a)
    BY <1>1, <1>2, <2>1, StaySame
  <2>3. QED
    BY <1>3, <2>1, <2>2
<1>6. QED
  BY <1>4, <1>5 DEF Copy

\* When everything is copied both sectors hold the same.
LEMMA CopyKeeps ==
  ASSUME NEW memory \in Flash, NEW sector \in {Start, Second}, NEW records, NEW end,
         Chain(memory, sector, records, end), OneLive(memory, records),
         NEW other \in {Start, Second}, NEW copies, NEW last,
         Chain(memory, other, copies, last), OneLive(memory, copies),
         Copy(memory, records, end, copies), NEW key
  PROVE  /\ Kept(memory, other, key) = Kept(memory, sector, key)
         /\ (\A a \in records : ~Hit(memory, key, a))
              => \A b \in copies : ~Hit(memory, key, b)
<1>1. \A a \in records : a < end
  <2>1. end \in Nat /\ \A a \in records : a \in Nat /\ a + 3 =< end
    BY DEF Chain
  <2>2. QED
    BY <2>1
<1>2. Covers(memory, records, memory, copies, key)
  BY <1>1 DEF Covers, Copy, Hit
<1>3. Covers(memory, copies, memory, records, key)
  BY DEF Covers, Copy
<1>4. Kept(memory, other, key) = Kept(memory, sector, key)
  BY <1>2, <1>3, KeptSame
<1>5. ASSUME NEW b \in copies, Hit(memory, key, b)
      PROVE  \E a \in records : Hit(memory, key, a)
  <2>1. PICK a \in records : SameRecord(memory, b, memory, a)
    BY <1>3, <1>5 DEF Covers
  <2>2. b \in Nat /\ memory[b + 2] \in Nat
    BY RecordCells
  <2>3. a \in Nat
    BY RecordCells
  <2>4. Hit(memory, key, a)
    BY <1>5, <2>1, <2>2, <2>3, HitSame
  <2>5. QED
    BY <2>4
<1>6. QED
  BY <1>4, <1>5

LEMMA StartCell ==
  /\ Start \in Cells /\ Start \in Nat /\ Second \in Nat /\ Second > Start
  /\ \A sector \in {Start, Second} : First(sector) \in Nat /\ First(sector) > Start
<1>1. Start \in Nat /\ SectorSize \in Nat /\ FlashSize \in Nat /\ SectorSize > 0
      /\ Start + SectorSize =< FlashSize /\ TINY_SECHAD_SIZE \in Nat \ {0}
  BY Sizes, FlashAssumption
<1>2. Second = Start + SectorSize /\ Second \in Nat
  BY <1>1 DEF Second
<1>3. QED
  BY <1>1, <1>2 DEF First, Cells

\* The two sectors have no cell in common.
LEMMA SectorsApart ==
  ASSUME NEW sector \in {Start, Second}, NEW other \in {Start, Second}, sector # other
  PROVE  \A a \in other..(other + SectorSize - 1) :
           a \notin sector..(sector + SectorSize - 1)
<1>1. Start \in Nat /\ SectorSize \in Nat /\ Second = Start + SectorSize
  BY Sizes DEF Second
<1>2. CASE sector = Start /\ other = Second
  BY <1>1, <1>2
<1>3. CASE sector = Second /\ other = Start
  BY <1>1, <1>3
<1>4. QED
  BY <1>2, <1>3

\* One more record is copied.
LEMMA RecordCopied ==
  ASSUME NEW memory \in Flash, NEW sector \in {Start, Second}, NEW records, NEW end,
         Whole(memory, sector, records, end),
         NEW other \in {Start, Second}, other # sector, NEW a \in records, NEW last,
         Copying(memory, sector, other, records, a, last), Live(memory, a),
         NEW data, \A i \in 0..(RecordSize(memory, a) - 1) : data[i] = memory[a + i],
         NEW later, later = flash_write(memory, last, RecordSize(memory, a), data)
  PROVE  /\ later \in Flash /\ SameSector(memory, later, sector)
         /\ later[Start] = memory[Start]
         /\ Copying(later, sector, other, records, a + RecordSize(memory, a),
                    last + RecordSize(memory, a))
<1>0. PICK copies : /\ Whole(memory, other, copies, last)
                    /\ Copy(memory, records, a, copies)
                    /\ last - other =< a - sector
  BY DEF Copying
<1>A. /\ Chain(memory, sector, records, end) /\ OneLive(memory, records)
      /\ Chain(memory, other, copies, last) /\ OneLive(memory, copies)
      /\ Copy(memory, records, a, copies) /\ last - other =< a - sector
  BY <1>0 DEF Whole
<1> USE <1>A
<1> DEFINE size == RecordSize(memory, a)
<1>1. /\ sector \in Nat /\ SectorSize \in Nat /\ First(sector) \in Nat
      /\ First(sector) > sector
      /\ \A c \in sector..(sector + SectorSize - 1) : c \in Cells
  BY Places
<1>2. other \in Nat /\ First(other) \in Nat /\ First(other) > other
      /\ \A c \in other..(other + SectorSize - 1) : c \in Cells
  BY Places
<1>3. /\ a \in Nat /\ size \in Nat /\ size >= 3 /\ memory[a + 2] = size - 3
      /\ memory[a + 2] \in Nat
      /\ \A i \in 0..(size - 1) : a + i \in Cells
  BY RecordCells
<1>4. /\ end \in Nat /\ end =< sector + SectorSize /\ size =< PageSize
      /\ a + size =< end /\ memory[a] \notin {0, Erased}
      /\ \A b \in records : b \in Nat /\ (b > a => b >= a + size)
  BY DEF Chain
<1>5. last \in Nat /\ last >= First(other)
  <2>1. /\ last \in Nat /\ First(other) \in copies \cup {last}
        /\ \A b \in copies : b \in Nat /\ b >= First(other) /\ b + 3 =< last
    BY DEF Chain
  <2>2. QED
    BY <1>2, <2>1
<1>6. PageSize \in Nat /\ Cells \subseteq Nat
  BY Sizes DEF Cells
<1>7. \A i \in 0..(size - 1) : data[i] = memory[a + i]
  OBVIOUS
<1>8. later = flash_write(memory, last, size, data)
  OBVIOUS
<1> HIDE DEF size
<1>9. size \in 3..PageSize /\ last + size =< other + SectorSize
  BY <1>1, <1>2, <1>3, <1>4, <1>5, <1>6
<1>10. \A i \in 0..(size - 1) : data[i] \in Byte
  BY <1>3, <1>7 DEF Flash
<1>11. /\ later \in Flash
       /\ \A i \in 0..(size - 1) : later[last + i] = data[i]
       /\ Beyond(memory, later, last, size)
       /\ \A b \in copies : SameRecord(memory, b, later, b)
  <2>1. /\ later \in Flash
        /\ \A i \in 0..(size - 1) : later[last + i] = data[i]
        /\ Beyond(memory, later, last, size)
    BY <1>8, <1>9, <1>10, RecordAppended
  <2>2. \A b \in copies : SameRecord(memory, b, later, b)
    BY <1>3, <2>1, RecordsStay
  <2>3. QED
    BY <2>1, <2>2
<1>12. SameSector(memory, later, sector)
  <2> SUFFICES ASSUME NEW c \in First(sector)..(sector + SectorSize - 1)
               PROVE  later[c] = memory[c]
    BY DEF SameSector
  <2>1. c \in sector..(sector + SectorSize - 1)
    BY <1>1
  <2>2. c \in Cells /\ c \notin other..(other + SectorSize - 1)
    BY <1>1, <2>1, SectorsApart
  <2>3. c < last \/ c >= last + size
    BY <1>1, <1>2, <1>3, <1>5, <1>6, <1>9, <2>2
  <2>4. QED
    BY <1>11, <2>2, <2>3 DEF Beyond
<1>13. later[Start] = memory[Start]
  <2>1. Start < last /\ Start \in Cells
    BY <1>2, <1>5, StartCell
  <2>2. QED
    BY <1>11, <2>1 DEF Beyond
<1>14. Copying(later, sector, other, records, a + size, last + size)
  <2>1. 0 \in 0..(size - 1) /\ 2 \in 0..(size - 1) /\ a + 0 = a /\ last + 0 = last
    BY <1>3, <1>5
  <2>2. later[last] \notin {0, Erased} /\ RecordSize(later, last) = size
    <3>1. data[0] \notin {0, Erased} /\ data[2] + 3 = size
      BY <1>3, <1>4, <1>7, <2>1
    <3>2. later[last] = data[0] /\ later[last + 2] = data[2]
      BY <1>11, <2>1
    <3>3. QED
      BY <3>1, <3>2 DEF RecordSize
  <2>4. Chain(later, other, copies \cup {last}, last + size)
    BY <1>9, <1>11, <2>2, ChainGrows
  <2>5. SameRecord(memory, a, later, last)
    <3>1. \A i \in 0..(size - 1) : later[last + i] = memory[a + i]
      BY <1>7, <1>11
    <3>2. QED
      BY <3>1 DEF SameRecord, size
  <2>6. later[last] = memory[a]
    <3>1. later[last] = data[0] /\ data[0] = memory[a + 0]
      BY <1>7, <1>11, <2>1
    <3>2. QED
      BY <2>1, <3>1
  <2>7. \A b \in copies : ~Hit(memory, later[last], b)
    <3> SUFFICES ASSUME NEW b \in copies, Hit(memory, later[last], b) PROVE FALSE
      OBVIOUS
    <3>1. PICK p \in records :
            p < a /\ Live(memory, p) /\ SameRecord(memory, b, memory, p)
      BY DEF Copy
    <3>2. b \in Nat /\ memory[b + 2] \in Nat /\ p \in Nat
      BY <1>4, RecordCells
    <3>3. memory[p] = memory[b]
      BY <3>1, <3>2, RecordSame
    <3>4. memory[p] = memory[a]
      BY <2>6, <3>3 DEF Hit
    <3>5. p = a
      BY <3>1, <3>4 DEF OneLive
    <3>6. QED
      BY <1>3, <3>1, <3>5
  <2>8. OneLive(later, copies \cup {last})
    BY <1>11, <2>7, OneLiveGrows
  <2>9. \A p \in records : SameRecord(memory, p, later, p)
    BY <1>11, <1>12, RecordFrame DEF SameRecord
  <2>10. Copy(later, records, a, copies)
    BY <1>11, <2>9, CopyStays
  <2>11. SameRecord(later, a, later, last) /\ SameRecord(later, last, later, a)
         /\ Live(later, a)
    <3>1. \A i \in 0..(size - 1) : later[last + i] = later[a + i]
      BY <2>5, <2>9 DEF SameRecord, size
    <3>2. RecordSize(later, a) = size
      BY <1>3, <2>9, RecordSame DEF size
    <3>3. SameRecord(later, a, later, last)
      BY <3>1, <3>2 DEF SameRecord
    <3>4. later[a + 2] \in Nat
      <4>1. a + 2 \in Cells
        BY RecordCells
      <4>2. QED
        BY <1>11, <4>1, Sizes DEF Flash
    <3>5. SameRecord(later, last, later, a)
      BY <1>3, <1>5, <3>3, <3>4, RecordBack
    <3>6. Live(later, a) <=> Live(memory, a)
      BY <1>3, <2>9, RecordSame
    <3>7. QED
      BY <3>3, <3>5, <3>6
  <2>12. ASSUME NEW p \in records, p < a + size, Live(later, p)
         PROVE  \E b \in copies \cup {last} : SameRecord(later, p, later, b)
    <3>1. p < a \/ p = a
      BY <1>3, <1>4, <2>12
    <3>2. QED
      BY <2>10, <2>11, <2>12, <3>1 DEF Copy
  <2>13. ASSUME NEW b \in copies \cup {last}
         PROVE  \E p \in records : p < a + size /\ Live(later, p)
                                     /\ SameRecord(later, b, later, p)
    <3>1. \A p \in records : p < a => p < a + size
      BY <1>3, <1>4
    <3>2. a < a + size
      BY <1>3
    <3>3. QED
      BY <2>10, <2>11, <3>1, <3>2 DEF Copy
  <2>14. Copy(later, records, a + size, copies \cup {last})
    BY <2>12, <2>13 DEF Copy
  <2>15. (last + size) - other =< (a + size) - sector
    BY <1>1, <1>2, <1>3, <1>5
  <2>16. QED
    BY <2>4, <2>8, <2>14, <2>15 DEF Copying, Whole
<1>15. QED
  BY <1>11, <1>12, <1>13, <1>14 DEF size
-----------------------------------------------------------------------------
(* The mark of the sector in use *)

\* Only in the middle of a swap are both sectors marked.
MarkInv ==
  /\ pc \notin {"off", "erase"} /\ used = Second => flash[Start] = Erased
  /\ pc = "scan" => addr_start >= First(used)
  /\ pc = "copy" => new_addr_start >= First(swap)
  /\ pc \in {"off", "idle", "format", "format swap"} => request = {}

\* A deletion leaves it alone, and so does every write behind the head.
LEMMA DeletedMark ==
  ASSUME IInv, NEW key PROVE Deleted(key)[Start] = flash[Start]
<1> DEFINE found == Search(flash, used, key)
<1>1. flash \in Flash /\ used \in {Start, Second} /\ addr_end = used + SectorSize
  BY DEF IInv, TypeOK, addr_end
<1>2. CASE found = addr_end
  BY <1>2 DEF Deleted
<1>3. CASE found # addr_end
  <2>1. /\ found \in Nat /\ found >= used + TINY_SECHAD_SIZE
        /\ ~AtEnd(flash, used, found)
    BY <1>1, <1>3, SearchFinds
  <2>2. used \in Nat /\ SectorSize \in Nat /\ First(used) \in Nat
    BY <1>1, Places
  <2> HIDE DEF found
  <2>3. found =< used + SectorSize - 3
    BY <2>1, <2>2 DEF AtEnd
  <2>4. found + 1 \in Cells
    BY <1>1, <2>1, <2>3, Reach
  <2>5. found + 1 # Start
    BY <1>1, <2>1, <2>2, StartCell DEF First
  <2>6. 0 \in Byte
    BY Sizes
  <2>7. Deleted(key) = flash_write_page(flash, found + 1, 1, [i \in {0} |-> 0])
    BY <1>3 DEF Deleted, found
  <2>8. Deleted(key) = [flash EXCEPT ![found + 1] = And(flash[found + 1], 0)]
    BY <1>1, <2>4, <2>6, <2>7, ByteProgrammed
  <2>9. QED
    BY <1>1, <2>5, <2>8, StartCell DEF Flash
<1>4. QED
  BY <1>2, <1>3

\* While the loop of tinyFlash_Write goes on, there is room for the record.
LEMMA ScanRoom ==
  ASSUME IInv, pc = "scan", ~Full
  PROVE  /\ addr_start =< addr_end - 3
         /\ \A r \in request : addr_start + Len(r[2]) + 3 =< addr_end
<1>1. addr_start \in Nat /\ addr_end \in Nat
  BY Addresses DEF IInv, TypeOK
<1>2. ASSUME NEW r \in request
      PROVE  addr_start + Len(r[2]) + 3 =< addr_end /\ addr_start =< addr_end - 3
  <2>1. Len(r[2]) \in Nat
    BY ValueLength DEF IInv, TypeOK
  <2>2. ~(addr_start > addr_end - 3 - Len(r[2]))
    BY DEF Full
  <2>3. \A start, last, n \in Nat :
          ~(start > last - 3 - n) => start + n + 3 =< last /\ start =< last - 3
    OBVIOUS
  <2>4. QED
    BY <1>1, <2>1, <2>2, <2>3
<1>3. QED
  BY <1>2 DEF IInv, LoopInv

LEMMA MarkInit == Init => MarkInv
BY DEF Init, MarkInv

LEMMA MarkNext == IInv /\ MarkInv /\ [Next]_vars => MarkInv'
<1> SUFFICES ASSUME IInv, MarkInv, [Next]_vars PROVE MarkInv'
  OBVIOUS
<1>1. /\ flash \in Flash /\ used \in {Start, Second} /\ swap \in {Start, Second}
      /\ addr_start \in Nat /\ new_addr_start \in Nat
  BY Addresses DEF IInv, TypeOK
<1>2. CASE tinyFlash_Init
  BY <1>2, StartCell DEF tinyFlash_Init, InUse, MarkInv
<1>3. CASE BeginFormat
  BY <1>3 DEF BeginFormat, MarkInv
<1>4. CASE EraseUsed \/ EraseSwap
  <2>1. flash[Start] = Erased => flash'[Start] = Erased
    BY <1>4, StartCell DEF EraseUsed, EraseSwap, flash_erase_sector
  <2>2. QED
    BY <1>4, <2>1 DEF EraseUsed, EraseSwap, MarkInv
<1>5. ASSUME NEW key \in Keys, Delete(key) PROVE MarkInv'
  BY <1>5, DeletedMark DEF Delete, MarkInv
<1>6. ASSUME NEW key \in Keys, NEW value \in Values, BeginWrite(key, value)
      PROVE  MarkInv'
  <2>1. addr_start' >= First(used')
    BY <1>1, <1>6, StartCell DEF BeginWrite, First
  <2>2. QED
    BY <1>6, <2>1, DeletedMark DEF BeginWrite, MarkInv
<1>7. CASE BeginSwap
  <2>1. swap' = swap /\ new_addr_start' = First(swap)
    BY <1>7 DEF BeginSwap, swap, First
  <2>2. new_addr_start' >= First(swap')
    BY <1>1, <2>1, StartCell
  <2>3. QED
    BY <1>7, <2>2 DEF BeginSwap, Full, MarkInv
<1>8. CASE StoreRecord
  <2>1. addr_start > Start
    BY <1>1, <1>8, StartCell DEF StoreRecord, MarkInv
  <2>2. PICK r \in request :
          flash' = flash_write(flash, addr_start, Len(r[2]) + 3, Record(r[1], r[2]))
    BY <1>8 DEF StoreRecord
  <2>3. Len(r[2]) + 3 \in Nat
    BY RecordTyped DEF IInv, TypeOK
  <2>4. flash'[Start] = flash[Start]
    BY <1>1, <2>1, <2>2, <2>3, StartCell, WriteAhead
  <2>5. QED
    <3>1. pc' \in {"idle", "lost"} /\ request' = {} /\ used' = used
      BY <1>8 DEF StoreRecord
    <3>2. pc = "scan"
      BY <1>8 DEF StoreRecord
    <3>3. QED
      BY <2>4, <3>1, <3>2 DEF MarkInv
<1>9. CASE PassRecord
  <2>1. addr_start' \in Nat /\ addr_start' >= addr_start
    <3>1. addr_start =< addr_end - 3
      BY <1>9, ScanRoom DEF PassRecord
    <3>2. RecordSize(flash, addr_start) \in Nat
      BY <3>1, SizeTyped DEF IInv
    <3>3. QED
      BY <1>1, <1>9, <3>2 DEF PassRecord
  <2>2. addr_start' >= First(used')
    BY <1>1, <1>9, <2>1, StartCell DEF PassRecord, MarkInv
  <2>3. QED
    BY <1>9, <2>2 DEF PassRecord, MarkInv
<1>10. CASE GiveUp
  BY <1>10 DEF GiveUp, MarkInv
<1>11. CASE CopyRecord
  <2>1. RecordSize(flash, addr_start) \in Nat
    <3>1. addr_start =< addr_end - 3
      BY <1>1, <1>11, Addresses DEF CopyRecord, AllCopied, IInv
    <3>2. QED
      BY <3>1, SizeTyped DEF IInv
  <2>2. new_addr_start > Start /\ new_addr_start >= First(swap) /\ First(swap) \in Nat
    BY <1>1, <1>11, StartCell DEF CopyRecord, MarkInv
  <2>3. flash'[Start] = flash[Start]
    BY <1>1, <1>11, <2>1, <2>2, StartCell, WriteAhead DEF CopyRecord
  <2>4. new_addr_start' >= First(swap)
    BY <1>1, <1>11, <2>1, <2>2 DEF CopyRecord
  <2>5. swap' = swap
    BY <1>11 DEF CopyRecord, swap
  <2>6. QED
    BY <1>11, <2>3, <2>4, <2>5 DEF CopyRecord, MarkInv
<1>12. CASE EndCopy
  BY <1>12 DEF EndCopy, MarkInv
<1>13. CASE MarkNew
  BY <1>13 DEF MarkNew, MarkInv
<1>14. CASE EraseOld
  <2>1. used' = Second => flash'[Start] = Erased
    <3> SUFFICES ASSUME used' = Second PROVE flash'[Start] = Erased
      OBVIOUS
    <3>1. used = Start
      BY <1>1, <1>14, StartCell DEF EraseOld, swap
    <3>2. QED
      BY <1>14, <3>1, StartCell DEF EraseOld, flash_erase_sector
  <2>2. addr_start' >= First(used')
    BY <1>1, <1>14, StartCell DEF EraseOld, First
  <2>3. QED
    BY <1>14, <2>1, <2>2 DEF EraseOld, MarkInv
<1>15. CASE PowerLoss
  BY <1>15 DEF PowerLoss, MarkInv
<1>16. CASE UNCHANGED vars
  BY <1>16 DEF vars, MarkInv, swap
<1>17. QED
  BY <1>2, <1>3, <1>4, <1>5, <1>6, <1>7, <1>8, <1>9, <1>10, <1>11, <1>12, <1>13,
     <1>14, <1>15, <1>16 DEF Next, WriteStep, SwapStep
-----------------------------------------------------------------------------
(* What a sound store looks like *)

\* The sector that holds the keys or that tinyFlash_Init will take.
Sector == IF pc = "off" THEN InUse ELSE used

\* The old value of the key that is being written is gone.
Free(memory, requests, records) ==
  \A r \in requests : \A a \in records : ~Hit(memory, r[1], a)

\* The records of the sector, and how far the loop that runs has come in them.
StoreInv(records, end) ==
  /\ Whole(flash, Sector, records, end)
  /\ pc \in {"scan", "copy", "mark", "erase"} => Free(flash, request, records)
  /\ pc \in {"scan", "copy"} => addr_start \in records \cup {end}
  /\ pc = "copy" => Copying(flash, used, swap, records, addr_start, new_addr_start)
  /\ pc \in {"mark", "erase"} => AllThere(flash, swap, records, end)

\* In a sound store the mark says which sector to take, but for the moment
\* before an erase in which both are right, and that sector is a whole one.
SoundInv ==
  sound => /\ pc # "off" /\ used = Start => flash[Start] # Erased
           /\ pc = "erase" /\ used = Second => flash[Start] # Erased
           /\ \E records, end : StoreInv(records, end)

\* What KeyStore calls the store.
store == [key \in Keys |-> Stored(key)]

LEMMA StoreOf ==
  /\ store = [key \in Keys |-> Kept(flash, Sector, key)]
  /\ store' = [key \in Keys |-> Kept(flash', Sector', key)]
<1>1. ASSUME NEW key \in Keys PROVE Stored(key) = Kept(flash, Sector, key)
  BY DEF Stored, Kept, Sector
<1>2. ASSUME NEW key \in Keys PROVE Stored(key)' = Kept(flash', Sector', key)
  BY DEF Stored, Kept, Sector
<1>3. store = [key \in Keys |-> Kept(flash, Sector, key)]
  BY <1>1 DEF store
<1>4. store' = [key \in Keys |-> Kept(flash', Sector', key)]
  BY <1>2 DEF store
<1>5. QED
  BY <1>3, <1>4

\* Before an operation and after it, only the values of one key may differ.
LEMMA StoreKept ==
  ASSUME NEW sector, NEW later, Sector' = later, Sector = sector,
         \A key \in Keys : Kept(flash', later, key) = Kept(flash, sector, key)
  PROVE  store' = store
BY StoreOf

LEMMA StoreChanged ==
  ASSUME NEW key \in Keys, NEW value,
         Kept(flash', Sector', key) = value,
         \A other \in Keys : other # key =>
           Kept(flash', Sector', other) = Kept(flash, Sector, other)
  PROVE  store' = [store EXCEPT ![key] = value]
BY StoreOf

LEMMA SectorTyped ==
  ASSUME IInv PROVE Sector \in {Start, Second}
BY DEF IInv, TypeOK, Sector, InUse

LEMMA SoundInit == Init => SoundInv /\ Promise!Init
<1> SUFFICES ASSUME Init PROVE SoundInv /\ Promise!Init
  OBVIOUS
<1>1. flash \in Flash /\ IInv /\ pc = "off" /\ sound
  BY InitTyped DEF Init, IInv, TypeOK
<1>2. Sector \in {Start, Second}
  BY <1>1, SectorTyped
<1>3. \A a \in First(Sector)..(Sector + SectorSize - 1) : flash[a] = Erased
  <2> SUFFICES ASSUME NEW a \in First(Sector)..(Sector + SectorSize - 1)
               PROVE  flash[a] = Erased
    OBVIOUS
  <2>1. a \in Sector..(Sector + SectorSize - 1)
    BY <1>2, Places
  <2>2. a \in Cells
    BY <1>2, <2>1, Places
  <2>3. QED
    BY <2>2 DEF Init
<1>4. /\ Chain(flash, Sector, {}, First(Sector)) /\ OneLive(flash, {})
      /\ \A key : Kept(flash, Sector, key) = Nothing
  BY <1>1, <1>2, <1>3, BlankSector
<1>5. StoreInv({}, First(Sector))
  BY <1>1, <1>4 DEF StoreInv, Whole
<1>6. store = [key \in Keys |-> Nothing]
  BY <1>4, StoreOf
<1>7. QED
  BY <1>1, <1>5, <1>6 DEF SoundInv, Init, Promise!Init, Promise!Empty, store
-----------------------------------------------------------------------------
(* Every step keeps a sound store whole and does what KeyStore allows. *)

Promised == [Promise!Next]_(Promise!vars)

LEMMA NothingPromised == ~sound' => SoundInv' /\ Promised
BY DEF SoundInv, Promised, Promise!Next

LEMMA Stutters ==
  ASSUME store' = store, request' = request, sound' = sound PROVE Promised
BY DEF Promised, Promise!vars, store

LEMMA Sectors ==
  ASSUME IInv
  PROVE  /\ flash \in Flash /\ used \in {Start, Second} /\ swap \in {Start, Second}
         /\ swap # used /\ addr_end = used + SectorSize
         /\ addr_start \in Nat /\ new_addr_start \in Nat
         /\ used = Start => swap = Second
         /\ used = Second => swap = Start
<1>1. Start # Second
  BY StartCell
<1>2. flash \in Flash /\ used \in {Start, Second} /\ addr_end = used + SectorSize
      /\ addr_start \in Nat /\ new_addr_start \in Nat
  BY DEF IInv, TypeOK, addr_end
<1>3. QED
  BY <1>1, <1>2 DEF swap

LEMMA SectorCells ==
  ASSUME NEW sector \in {Start, Second}
  PROVE  /\ sector \in Nat /\ sector % SectorSize = 0
         /\ \A a \in First(sector)..(sector + SectorSize - 1) :
              /\ a \in Cells /\ SectorOf(a) = sector
              /\ a \in sector..(sector + SectorSize - 1)
<1>1. SectorSize \in Nat \ {0} /\ Start \in Nat /\ Start % SectorSize = 0
  BY FlashAssumption, TinyAssumption
<1>2. SectorSize % SectorSize = 0
  BY <1>1, SMT
<1>3. sector \in Nat /\ sector % SectorSize = 0
  <2>1. (Start + SectorSize) % SectorSize = 0
    BY <1>1, <1>2, MultipleSum
  <2>2. QED
    BY <1>1, <2>1 DEF Second
<1>4. ASSUME NEW a \in First(sector)..(sector + SectorSize - 1)
      PROVE  /\ a \in Cells /\ SectorOf(a) = sector
             /\ a \in sector..(sector + SectorSize - 1)
  <2>1. a \in sector..(sector + SectorSize - 1)
    BY Places
  <2>2. a \in Cells /\ a \in Nat
    BY <2>1, Places
  <2>3. a - (a % SectorSize) = sector - (sector % SectorSize)
    BY <1>1, <1>3, <2>1, <2>2, BlockAt
  <2>4. sector - (sector % SectorSize) = sector
    BY <1>3
  <2>5. QED
    BY <2>1, <2>2, <2>3, <2>4 DEF SectorOf
<1>5. QED
  BY <1>3, <1>4

\* An erase leaves a blank sector, and the other one as it was.
LEMMA SectorErased ==
  ASSUME NEW memory \in Flash, NEW sector \in {Start, Second},
         NEW other \in {Start, Second}, other # sector,
         NEW later, later = flash_erase_sector(memory, sector)
  PROVE  /\ later \in Flash /\ SameSector(memory, later, other)
         /\ \A a \in First(sector)..(sector + SectorSize - 1) : later[a] = Erased
         /\ later[other] = memory[other]
<1>1. later \in Flash
  BY EraseTyped
<1>2. sector \in Nat /\ sector % SectorSize = 0
  BY SectorCells
<1>3. ASSUME NEW a \in Cells
      PROVE  later[a] = IF a \in sector..(sector + SectorSize - 1)
                        THEN Erased ELSE memory[a]
  BY <1>2, EraseAt
<1>4. \A a \in First(sector)..(sector + SectorSize - 1) : later[a] = Erased
  BY <1>3, SectorCells
<1>5. ASSUME NEW a \in other..(other + SectorSize - 1) PROVE later[a] = memory[a]
  <2>1. a \in Cells
    BY Places
  <2>2. a \notin sector..(sector + SectorSize - 1)
    BY SectorsApart
  <2>3. QED
    BY <1>3, <2>1, <2>2
<1>6. SameSector(memory, later, other)
  BY <1>5, SectorCells DEF SameSector
<1>7. later[other] = memory[other]
  <2>1. other \in Nat /\ SectorSize \in Nat \ {0}
    BY SectorCells, FlashAssumption
  <2>2. other \in other..(other + SectorSize - 1)
    BY <2>1
  <2>3. QED
    BY <1>5, <2>2
<1>8. QED
  BY <1>1, <1>4, <1>6, <1>7

LEMMA KeyGone ==
  ASSUME IInv, MarkInv, SoundInv, sound, pc = "idle", NEW key \in Keys,
         flash' = Deleted(key), used' = used, pc' # "off"
  PROVE  /\ used = Start => flash'[Start] # Erased
         /\ \E records, end : /\ Whole(flash', used, records, end)
                              /\ \A a \in records : ~Hit(flash', key, a)
         /\ store' = [store EXCEPT ![key] = Nothing]
<1>1. flash \in Flash /\ used \in {Start, Second} /\ addr_end = used + SectorSize
  BY Sectors
<1>2. Sector = used /\ Sector' = used
  BY DEF Sector
<1>3. PICK records, end : StoreInv(records, end)
  BY DEF SoundInv
<1>4. Chain(flash, used, records, end) /\ OneLive(flash, records)
  BY <1>2, <1>3 DEF StoreInv, Whole
<1>5. flash' = IF Search(flash, used, key) = used + SectorSize THEN flash
               ELSE flash_write_page(flash, Search(flash, used, key) + 1, 1,
                                     [i \in {0} |-> 0])
  BY <1>1 DEF Deleted
<1>6. /\ Chain(flash', used, records, end) /\ OneLive(flash', records)
      /\ \A a \in records : ~Hit(flash', key, a)
      /\ Kept(flash', used, key) = Nothing
      /\ \A other : other # key =>
           Kept(flash', used, other) = Kept(flash, used, other)
  BY <1>1, <1>4, <1>5, KeyDeleted
<1>7. store' = [store EXCEPT ![key] = Nothing]
  BY <1>2, <1>6, StoreChanged
<1>8. used = Start => flash'[Start] # Erased
  BY DeletedMark DEF SoundInv
<1>9. QED
  BY <1>6, <1>7, <1>8 DEF Whole

LEMMA DeleteKeeps ==
  ASSUME IInv, MarkInv, SoundInv, sound, NEW key \in Keys, Delete(key)
  PROVE  SoundInv' /\ Promised
<1>1. /\ pc = "idle" /\ pc' = "idle" /\ used' = used /\ request' = request
      /\ request = {} /\ sound' = sound /\ flash' = Deleted(key)
  BY DEF Delete, MarkInv
<1>2. /\ used = Start => flash'[Start] # Erased
      /\ \E records, end : Whole(flash', used, records, end)
      /\ store' = [store EXCEPT ![key] = Nothing]
  BY <1>1, KeyGone
<1>3. Sector' = used
  BY <1>1 DEF Sector
<1>4. PICK records, end : Whole(flash', used, records, end)
  BY <1>2
<1>5. StoreInv(records, end)'
  BY <1>1, <1>3, <1>4 DEF StoreInv
<1>6. SoundInv'
  BY <1>1, <1>2, <1>5 DEF SoundInv
<1>7. Promise!Delete(key)
  BY <1>1, <1>2 DEF Promise!Delete, store
<1>8. QED
  BY <1>1, <1>6, <1>7 DEF Promised, Promise!Next, Promise!Sound

LEMMA BeginKeeps ==
  ASSUME IInv, MarkInv, SoundInv, sound, NEW key \in Keys, NEW value \in Values,
         BeginWrite(key, value)
  PROVE  SoundInv' /\ Promised
<1>1. /\ pc = "idle" /\ pc' = "scan" /\ used' = used /\ request' = {<<key, value>>}
      /\ request = {} /\ sound' = sound /\ flash' = Deleted(key)
      /\ addr_start' = First(used)
  BY DEF BeginWrite, MarkInv, First
<1>2. /\ used = Start => flash'[Start] # Erased
      /\ \E records, end : /\ Whole(flash', used, records, end)
                           /\ \A a \in records : ~Hit(flash', key, a)
      /\ store' = [store EXCEPT ![key] = Nothing]
  BY <1>1, KeyGone
<1>3. Sector' = used
  BY <1>1 DEF Sector
<1>4. PICK records, end : /\ Whole(flash', used, records, end)
                          /\ \A a \in records : ~Hit(flash', key, a)
  BY <1>2
<1>5. Free(flash', request', records)
  BY <1>1, <1>4 DEF Free
<1>6. addr_start' \in records \cup {end}
  BY <1>1, <1>4 DEF Whole, Chain
<1>7. StoreInv(records, end)'
  BY <1>1, <1>3, <1>4, <1>5, <1>6 DEF StoreInv
<1>8. SoundInv'
  BY <1>1, <1>2, <1>7 DEF SoundInv
<1>9. Promise!Begin(key, value)
  BY <1>1, <1>2 DEF Promise!Begin, store
<1>10. QED
  BY <1>1, <1>8, <1>9 DEF Promised, Promise!Next, Promise!Sound

LEMMA InitKeeps ==
  ASSUME IInv, MarkInv, SoundInv, tinyFlash_Init, sound'
  PROVE  SoundInv' /\ Promised
<1>1. /\ pc = "off" /\ pc' = "idle" /\ used' = InUse /\ flash' = flash
      /\ request' = request /\ request = {}
  BY DEF tinyFlash_Init, MarkInv
<1>2. Sector = InUse /\ Sector' = InUse /\ Sector \in {Start, Second}
  BY <1>1, SectorTyped DEF Sector
<1>3. used' = Start => flash'[Start] # Erased
  BY <1>1, StartCell DEF InUse
<1>4. CASE sound
  <2>1. PICK records, end : StoreInv(records, end)
    BY <1>4 DEF SoundInv
  <2>2. StoreInv(records, end)'
    BY <1>1, <1>2, <2>1 DEF StoreInv
  <2>3. SoundInv'
    BY <1>1, <1>3, <2>2 DEF SoundInv
  <2>4. store' = store
    BY <1>1, <1>2, StoreKept
  <2>5. sound' = sound
    BY <1>4 DEF tinyFlash_Init
  <2>6. QED
    BY <1>1, <2>3, <2>4, <2>5, Stutters
<1>5. CASE ~sound
  <2>1. \A a \in Cells : SectorOf(a) \in {Start, Second} => flash[a] = Erased
    BY <1>5 DEF tinyFlash_Init
  <2>2. \A a \in First(Sector)..(Sector + SectorSize - 1) : flash'[a] = Erased
    <3>1. \A a \in First(Sector)..(Sector + SectorSize - 1) :
            a \in Cells /\ SectorOf(a) = Sector
      BY <1>2, SectorCells
    <3>2. QED
      BY <1>1, <1>2, <2>1, <3>1
  <2>3. flash' \in Flash
    BY <1>1, Sectors
  <2>4. /\ Chain(flash', Sector, {}, First(Sector)) /\ OneLive(flash', {})
        /\ \A key : Kept(flash', Sector, key) = Nothing
    BY <1>2, <2>2, <2>3, BlankSector
  <2>5. StoreInv({}, First(Sector))'
    BY <1>1, <1>2, <2>4 DEF StoreInv, Whole, First
  <2>6. SoundInv'
    BY <1>1, <1>3, <2>5 DEF SoundInv
  <2>7. store' = [key \in Keys |-> Nothing]
    BY <1>2, <2>4, StoreOf
  <2>8. Promise!Format
    BY <1>1, <2>7 DEF Promise!Format, Promise!Empty, store
  <2>9. QED
    BY <2>6, <2>8 DEF Promised, Promise!Next
<1>6. QED
  BY <1>4, <1>5

LEMMA FormatKeeps ==
  ASSUME IInv, MarkInv, SoundInv, BeginFormat \/ EraseUsed \/ EraseSwap, sound'
  PROVE  SoundInv' /\ Promised
<1>1. /\ flash \in Flash /\ used \in {Start, Second} /\ swap \in {Start, Second}
      /\ swap # used /\ (used = Start => swap = Second)
  BY Sectors
<1>2. request = {} /\ request' = {} /\ used' = used /\ pc # "off" /\ pc' # "off"
      /\ pc' \in {"idle", "format", "format swap"}
  BY DEF BeginFormat, EraseUsed, EraseSwap, MarkInv
<1>3. Sector = used /\ Sector' = used
  BY <1>2 DEF Sector
<1>4. CASE BeginFormat
  <2>1. flash' = flash /\ sound' = sound
    BY <1>4 DEF BeginFormat
  <2>2. PICK records, end : StoreInv(records, end)
    BY <2>1 DEF SoundInv
  <2>3. StoreInv(records, end)'
    BY <1>2, <1>3, <2>1, <2>2 DEF StoreInv
  <2>4. SoundInv'
    BY <1>2, <2>1, <2>3 DEF SoundInv
  <2>5. store' = store
    BY <1>3, <2>1, StoreKept
  <2>6. QED
    BY <1>2, <2>1, <2>4, <2>5, Stutters
<1>5. CASE EraseUsed
  <2>1. used = Second /\ flash' = flash_erase_sector(flash, used)
    BY <1>5 DEF EraseUsed
  <2>2. /\ flash' \in Flash
        /\ \A a \in First(used)..(used + SectorSize - 1) : flash'[a] = Erased
    BY <1>1, <2>1, SectorErased
  <2>3. /\ Chain(flash', used, {}, First(used)) /\ OneLive(flash', {})
        /\ \A key : Kept(flash', used, key) = Nothing
    BY <1>1, <2>2, BlankSector
  <2>4. StoreInv({}, First(used))'
    BY <1>2, <1>3, <2>3 DEF StoreInv, Whole, First
  <2>5. SoundInv'
    <3>1. \E records, end : StoreInv(records, end)'
      BY <2>4
    <3>2. used' # Start /\ pc' # "erase"
      BY <1>1, <1>2, <2>1
    <3>3. QED
      BY <3>1, <3>2 DEF SoundInv
  <2>6. store' = [key \in Keys |-> Nothing]
    BY <1>3, <2>3, StoreOf
  <2>7. Promise!Format
    BY <1>2, <2>6 DEF Promise!Format, Promise!Empty, store
  <2>8. QED
    BY <2>5, <2>7 DEF Promised, Promise!Next
<1>6. CASE EraseSwap
  <2>1. flash' = flash_erase_sector(flash, swap) /\ sound' = sound
    BY <1>6 DEF EraseSwap
  <2>2. /\ flash' \in Flash /\ SameSector(flash, flash', used)
        /\ flash'[used] = flash[used]
    BY <1>1, <2>1, SectorErased
  <2>3. PICK records, end : StoreInv(records, end)
    BY <2>1 DEF SoundInv
  <2>4. Chain(flash, used, records, end) /\ OneLive(flash, records)
    BY <1>3, <2>3 DEF StoreInv, Whole
  <2>5. /\ Chain(flash', used, records, end) /\ OneLive(flash', records)
        /\ \A key \in Keys : Kept(flash', used, key) = Kept(flash, used, key)
    BY <1>1, <2>2, <2>4, ChainFrame, KeptFrame
  <2>6. StoreInv(records, end)'
    BY <1>2, <1>3, <2>5 DEF StoreInv, Whole
  <2>7. SoundInv'
    BY <1>2, <2>1, <2>2, <2>6 DEF SoundInv
  <2>8. store' = store
    BY <1>3, <2>5, StoreKept
  <2>9. QED
    BY <1>2, <2>1, <2>7, <2>8, Stutters
<1>7. QED
  BY <1>4, <1>5, <1>6

LEMMA AllCopiedIs ==
  ASSUME IInv PROVE AllCopied <=> AtEnd(flash, used, addr_start)
<1>1. used \in Nat /\ SectorSize \in Nat /\ addr_end = used + SectorSize
  BY Sectors, Places
<1>2. addr_end - 3 = used + SectorSize - 3
  BY <1>1
<1>3. QED
  BY <1>2 DEF AllCopied, AtEnd

\* Where the loops of a sound store are: at a record or at the end of them.
LEMMA AtRecord ==
  ASSUME IInv, SoundInv, sound, pc \in {"scan", "copy"}, NEW records, NEW end,
         StoreInv(records, end)
  PROVE  /\ Chain(flash, used, records, end) /\ OneLive(flash, records)
         /\ Free(flash, request, records) /\ addr_start \in records \cup {end}
         /\ addr_start \in records <=> ~AtEnd(flash, used, addr_start)
         /\ AtEnd(flash, used, addr_start) /\ addr_start =< addr_end - 3
              => flash[addr_start] = Erased
         /\ AllCopied <=> AtEnd(flash, used, addr_start)
<1> USE AllCopiedIs
<1>1. /\ Chain(flash, used, records, end) /\ OneLive(flash, records)
      /\ Free(flash, request, records) /\ addr_start \in records \cup {end}
  BY DEF StoreInv, Whole, Sector
<1>2. used \in {Start, Second} /\ addr_end = used + SectorSize
  BY Sectors
<1>3. used \in Nat /\ SectorSize \in Nat
  BY <1>2, Places
<1>4. /\ end \in Nat /\ end =< used + SectorSize
      /\ \A a \in records : /\ a \in Nat /\ a + 3 =< end /\ flash[a] \notin {0, Erased}
      /\ \A a \in end..(used + SectorSize - 1) : flash[a] = Erased
  BY <1>1 DEF Chain
<1>5. CASE addr_start \in records
  <2>1. ~AtEnd(flash, used, addr_start)
    BY <1>3, <1>4, <1>5, EndAt
  <2>2. QED
    BY <1>1, <1>5, <2>1
<1>6. CASE addr_start = end
  <2>1. end =< used + SectorSize - 3 => flash[end] = Erased
    BY <1>3, <1>4
  <2>2. AtEnd(flash, used, end)
    BY <1>3, <1>4, <2>1, EndAt
  <2>3. \A a \in records : a # end
    BY <1>4
  <2>4. addr_start =< addr_end - 3 => flash[addr_start] = Erased
    BY <1>2, <1>3, <1>6, <2>1
  <2>5. AtEnd(flash, used, addr_start) /\ addr_start \notin records
    BY <1>6, <2>2, <2>3
  <2>6. QED
    BY <1>1, <2>4, <2>5
<1>7. QED
  BY <1>1, <1>5, <1>6

LEMMA PassKeeps ==
  ASSUME IInv, MarkInv, SoundInv, sound, PassRecord \/ GiveUp
  PROVE  SoundInv' /\ Promised
<1>1. PICK records, end : StoreInv(records, end)
  BY DEF SoundInv
<1>2. pc = "scan" /\ ~Full /\ addr_start =< addr_end - 3
  BY ScanRoom DEF PassRecord, GiveUp
<1>3. /\ Chain(flash, used, records, end) /\ OneLive(flash, records)
      /\ Free(flash, request, records) /\ addr_start \in records \cup {end}
      /\ addr_start \in records <=> ~AtEnd(flash, used, addr_start)
      /\ AtEnd(flash, used, addr_start) => flash[addr_start] = Erased
  BY <1>1, <1>2, AtRecord
<1>4. Erased # 0
  BY TinyAssumption, Sizes
<1>5. PassRecord /\ addr_start \in records
  <2>1. addr_start \notin records => flash[addr_start] = Erased
    BY <1>3
  <2>2. addr_start \in records => flash[addr_start] # 0
    BY <1>3 DEF Chain
  <2>3. QED
    BY <1>4, <2>1, <2>2 DEF PassRecord, GiveUp
<1>6. addr_start' \in records \cup {end}
  BY <1>3, <1>5 DEF PassRecord, Chain
<1>7. Sector = used /\ Sector' = used /\ pc' = "scan" /\ flash' = flash
      /\ request' = request /\ used' = used /\ sound' = sound
  BY <1>2, <1>5 DEF PassRecord, Sector
<1>8. StoreInv(records, end)'
  BY <1>3, <1>6, <1>7 DEF StoreInv, Whole
<1>9. SoundInv'
  BY <1>2, <1>7, <1>8 DEF SoundInv
<1>10. store' = store
  BY <1>7, StoreKept
<1>11. QED
  BY <1>7, <1>9, <1>10, Stutters

LEMMA StoreKeeps ==
  ASSUME IInv, MarkInv, SoundInv, sound, StoreRecord, sound'
  PROVE  SoundInv' /\ Promised
<1>1. PICK records, end : StoreInv(records, end)
  BY DEF SoundInv
<1>2. pc = "scan" /\ ~Full /\ flash[addr_start] = Erased
      /\ flash \in Flash /\ used \in {Start, Second} /\ addr_end = used + SectorSize
  BY Sectors DEF StoreRecord
<1>3. /\ Chain(flash, used, records, end) /\ OneLive(flash, records)
      /\ Free(flash, request, records) /\ addr_start \in records \cup {end}
  BY <1>1, <1>2, AtRecord
<1>4. addr_start = end
  BY <1>2, <1>3 DEF Chain
<1>5. PICK r \in request :
        /\ flash' = flash_write(flash, end, Len(r[2]) + 3, Record(r[1], r[2]))
        /\ ~TooLong(r[2]) /\ pc' = "idle" /\ UNCHANGED sound
  BY <1>4 DEF StoreRecord
<1>6. PICK key \in Keys, value \in Values : r = <<key, value>>
  <2>1. r \in Keys \X Values
    BY DEF IInv, TypeOK
  <2>2. r[1] \in Keys /\ r[2] \in Values /\ r = <<r[1], r[2]>>
    BY <2>1
  <2>3. QED
    BY <2>2
<1> DEFINE len == Len(value) + 3
           data == Record(key, value)
<1>7. /\ Len(value) \in Nat /\ len \in 3..PageSize /\ len \in Nat
      /\ \A i \in 0..(len - 1) : data[i] \in Byte
      /\ data[0] = key /\ data[0] \notin {0, Erased} /\ data[1] = Inverse(key)
      /\ data[2] = Len(value)
      /\ \A i \in 1..Len(value) : data[2 + i] = value[i]
  BY <1>5, <1>6, RecordOf
<1>A. /\ end \in Nat /\ end + len =< used + SectorSize
      /\ end + Len(value) + 3 = end + len /\ 3 =< len
  <2>1. end + Len(r[2]) + 3 =< used + SectorSize
    BY <1>2, <1>4, ScanRoom
  <2>2. end \in Nat
    BY <1>3 DEF Chain
  <2>3. QED
    BY <1>6, <1>7, <2>1, <2>2
<1>B. flash' = flash_write(flash, end, len, data)
  BY <1>5, <1>6
<1> HIDE DEF data, len
<1>C. /\ flash' \in Flash
      /\ \A i \in 0..(len - 1) : flash'[end + i] = data[i]
      /\ Beyond(flash, flash', end, len)
  <2>1. /\ len \in 3..PageSize /\ end + len =< used + SectorSize
        /\ \A i \in 0..(len - 1) : data[i] \in Byte
    BY <1>7, <1>A
  <2>2. flash \in Flash /\ used \in {Start, Second}
    BY <1>2
  <2>3. QED
    BY <1>3, <1>B, <2>1, <2>2, RecordAppended
<1>D. /\ flash'[end] = key /\ flash'[end + 1] = Inverse(key)
      /\ flash'[end + 2] = Len(value) /\ key \notin {0, Erased}
  <2>1. 0 \in 0..(len - 1) /\ 1 \in 0..(len - 1) /\ 2 \in 0..(len - 1) /\ end + 0 = end
    BY <1>7, <1>A
  <2>2. flash'[end + 0] = data[0] /\ flash'[end + 1] = data[1] /\ flash'[end + 2] = data[2]
    BY <1>C, <2>1
  <2>3. QED
    BY <1>7, <2>1, <2>2
<1>E. ValueAt(flash', end) = value
  <2>1. ASSUME NEW i \in 1..Len(value) PROVE flash'[end + 2 + i] = value[i]
    <3>1. 2 + i \in 0..(len - 1) /\ end + 2 + i = end + (2 + i)
      BY <1>7, <1>A DEF len
    <3>2. flash'[end + (2 + i)] = data[2 + i]
      BY <1>C, <3>1
    <3>3. QED
      BY <1>7, <3>1, <3>2
  <2>2. ValueAt(flash', end) = [i \in 1..Len(value) |-> flash'[end + 2 + i]]
    BY <1>D DEF ValueAt
  <2>3. value = [i \in 1..Len(value) |-> value[i]]
    BY TinyAssumption
  <2>4. QED
    BY <2>1, <2>2, <2>3
<1>8. /\ Whole(flash', used, records \cup {end}, end + Len(value) + 3)
      /\ OthersKept(flash, flash', used, key)
      /\ Kept(flash', used, key) = value
  <2>1. Absent(flash, records, key) /\ Whole(flash, used, records, end)
    BY <1>3, <1>6 DEF Free, Absent, Whole
  <2>2. Beyond(flash, flash', end, Len(value) + 3)
    BY <1>C DEF len
  <2>3. Hit(flash', key, end)
    BY <1>D DEF Hit, Live
  <2>4. ~TooLong(value) /\ end + Len(value) + 3 =< used + SectorSize
    BY <1>5, <1>6, <1>A
  <2>5. /\ NewRecord(flash, flash', used, records, end, key, value)
        /\ Hit(flash', key, end) => Kept(flash', used, key) = ValueAt(flash', end)
    BY <1>2, <1>C, <1>D, <2>1, <2>2, <2>4, RecordStored
  <2>6. QED
    BY <1>E, <2>3, <2>5 DEF NewRecord
<1>9. Sector = used /\ Sector' = used /\ pc' = "idle" /\ used' = used
      /\ request' = {} /\ sound' = sound
  BY <1>2, <1>5 DEF StoreRecord, Sector
<1>10. flash'[Start] = flash[Start]
  <2>1. end > Start /\ end \in Nat /\ flash \in Flash /\ Start \in Cells
    BY <1>2, <1>3, <1>4, StartCell DEF MarkInv, Chain
  <2>2. Start < end
    BY <2>1, StartCell
  <2>3. QED
    BY <1>C, <2>1, <2>2 DEF Beyond
<1>11. StoreInv(records \cup {end}, end + Len(value) + 3)'
  BY <1>8, <1>9 DEF StoreInv, Whole
<1>12. SoundInv'
  <2>1. \E all, last : StoreInv(all, last)'
    BY <1>11
  <2>2. QED
    BY <1>2, <1>9, <1>10, <2>1 DEF SoundInv
<1>13. store' = [store EXCEPT ![key] = value]
  BY <1>8, <1>9, StoreChanged DEF OthersKept
<1>14. Promise!Return
  BY <1>6, <1>9, <1>13 DEF Promise!Return, store
<1>15. QED
  BY <1>9, <1>12, <1>14 DEF Promised, Promise!Next, Promise!Sound

LEMMA BeginSwapKeeps ==
  ASSUME IInv, MarkInv, SoundInv, sound, BeginSwap, sound'
  PROVE  SoundInv' /\ Promised
<1>1. PICK records, end : StoreInv(records, end)
  BY DEF SoundInv
<1>2. /\ pc = "scan" /\ pc' = "copy" /\ flash' = flash /\ used' = used
      /\ request' = request /\ sound' = sound
      /\ addr_start' = First(used) /\ new_addr_start' = First(swap)
      /\ \A a \in Cells : SectorOf(a) = swap => flash[a] = Erased
  BY DEF BeginSwap, Full, First
<1>3. /\ flash \in Flash /\ used \in {Start, Second} /\ swap \in {Start, Second}
  BY Sectors
<1>4. /\ Chain(flash, used, records, end) /\ OneLive(flash, records)
      /\ Free(flash, request, records)
  BY <1>1, <1>2, AtRecord
<1>5. Sector = used /\ Sector' = used /\ swap' = swap
  BY <1>2 DEF Sector, swap
<1>6. \A a \in First(swap)..(swap + SectorSize - 1) : flash[a] = Erased
  <2>1. \A a \in First(swap)..(swap + SectorSize - 1) : a \in Cells /\ SectorOf(a) = swap
    BY <1>3, SectorCells
  <2>2. QED
    BY <1>2, <2>1
<1>7. Whole(flash, swap, {}, First(swap))
  BY <1>3, <1>6, BlankSector DEF Whole
<1>8. Copy(flash, records, First(used), {})
  <2>1. First(used) \in Nat /\ \A a \in records : a \in Nat /\ a >= First(used)
    BY <1>3, <1>4, Places DEF Chain
  <2>2. \A a \in records : ~(a < First(used))
    BY <2>1
  <2>3. QED
    BY <2>2 DEF Copy
<1>9. First(swap) - swap =< First(used) - used
  <2>1. TINY_SECHAD_SIZE \in Nat /\ used \in Nat /\ swap \in Nat
    BY <1>3, Sizes, Places
  <2>2. QED
    BY <2>1 DEF First
<1>10. Copying(flash, used, swap, records, First(used), First(swap))
  BY <1>7, <1>8, <1>9 DEF Copying
<1>11. First(used) \in records \cup {end}
  BY <1>4 DEF Chain
<1>12. StoreInv(records, end)'
  BY <1>2, <1>4, <1>5, <1>10, <1>11 DEF StoreInv, Whole
<1>13. SoundInv'
  BY <1>2, <1>12 DEF SoundInv
<1>14. store' = store
  BY <1>2, <1>5, StoreKept
<1>15. QED
  BY <1>2, <1>13, <1>14, Stutters

LEMMA EndCopyKeeps ==
  ASSUME IInv, MarkInv, SoundInv, sound, EndCopy
  PROVE  SoundInv' /\ Promised
<1>1. PICK records, end : StoreInv(records, end)
  BY DEF SoundInv
<1>2. /\ pc = "copy" /\ pc' = "mark" /\ flash' = flash /\ used' = used /\ AllCopied
      /\ request' = request /\ sound' = sound
  BY DEF EndCopy
<1>3. /\ Chain(flash, used, records, end) /\ OneLive(flash, records)
      /\ Free(flash, request, records) /\ addr_start \in records \cup {end}
      /\ addr_start \in records <=> ~AtEnd(flash, used, addr_start)
      /\ AllCopied <=> AtEnd(flash, used, addr_start)
  BY <1>1, <1>2, AtRecord
<1>4. Sector = used /\ Sector' = used /\ swap' = swap
  BY <1>2 DEF Sector, swap
<1>5. addr_start = end
  BY <1>2, <1>3
<1>6. AllThere(flash, swap, records, end)
  BY <1>1, <1>2, <1>5 DEF StoreInv, Copying, AllThere
<1>7. StoreInv(records, end)'
  BY <1>2, <1>3, <1>4, <1>6 DEF StoreInv, Whole
<1>8. SoundInv'
  BY <1>2, <1>7 DEF SoundInv
<1>9. store' = store
  BY <1>2, <1>4, StoreKept
<1>10. QED
  BY <1>2, <1>8, <1>9, Stutters

\* What is sent for a record of a page at most is the record.
LEMMA CopiedIs ==
  ASSUME NEW behind, RecordSize(flash, addr_start) \in Nat,
         RecordSize(flash, addr_start) =< PageSize
  PROVE  \A i \in 0..(RecordSize(flash, addr_start) - 1) :
           Copied(behind)[i] = flash[addr_start + i]
BY Sizes DEF Copied

LEMMA UsedFrame ==
  ASSUME IInv, NEW records, NEW end, Chain(flash, used, records, end),
         OneLive(flash, records), NEW requests, Free(flash, requests, records),
         flash' \in Flash, SameSector(flash, flash', used)
  PROVE  /\ Whole(flash', used, records, end) /\ Free(flash', requests, records)
         /\ \A key \in Keys : Kept(flash', used, key) = Kept(flash, used, key)
<1>1. flash \in Flash /\ used \in {Start, Second}
  BY Sectors
<1>2. Chain(flash', used, records, end) /\ OneLive(flash', records)
  BY <1>1, ChainFrame
<1>3. \A key : \A a \in records : Hit(flash', key, a) <=> Hit(flash, key, a)
  BY <1>1, ChainFrame
<1>4. \A key \in Keys : Kept(flash', used, key) = Kept(flash, used, key)
  BY <1>1, KeptFrame
<1>5. QED
  BY <1>2, <1>3, <1>4 DEF Whole, Free

LEMMA CopyKeepsStore ==
  ASSUME IInv, MarkInv, SoundInv, sound, CopyRecord
  PROVE  SoundInv' /\ Promised
<1>1. PICK records, end : StoreInv(records, end)
  BY DEF SoundInv
<1>2. /\ pc = "copy" /\ pc' = "copy" /\ used' = used /\ ~AllCopied
      /\ request' = request /\ sound' = sound
      /\ addr_start' = addr_start + RecordSize(flash, addr_start)
  BY DEF CopyRecord
<1>3. /\ Chain(flash, used, records, end) /\ OneLive(flash, records)
      /\ Free(flash, request, records) /\ addr_start \in records \cup {end}
      /\ addr_start \in records <=> ~AtEnd(flash, used, addr_start)
      /\ AllCopied <=> AtEnd(flash, used, addr_start)
  BY <1>1, <1>2, AtRecord
<1>4. /\ flash \in Flash /\ used \in {Start, Second} /\ swap \in {Start, Second}
      /\ swap # used /\ (used = Start => swap = Second)
  BY Sectors
<1>5. Sector = used /\ Sector' = used /\ swap' = swap
  BY <1>2 DEF Sector, swap
<1>6. addr_start \in records
  BY <1>2, <1>3
<1> DEFINE size == RecordSize(flash, addr_start)
<1>7. addr_start \in Nat /\ size \in Nat /\ size >= 3
  BY <1>3, <1>4, <1>6, RecordCells
<1>8. /\ size =< PageSize /\ addr_start + size \in records \cup {end}
      /\ \A a \in records : a \in Nat /\ (a > addr_start => a >= addr_start + size)
  BY <1>3, <1>6 DEF Chain
<1>9. PICK copies : /\ Whole(flash, swap, copies, new_addr_start)
                    /\ Copy(flash, records, addr_start, copies)
                    /\ new_addr_start - swap =< addr_start - used
  BY <1>1, <1>2 DEF StoreInv, Copying
<1>10. Chain(flash, swap, copies, new_addr_start) /\ OneLive(flash, copies)
  BY <1>9 DEF Whole
<1>11. /\ flash' \in Flash /\ SameSector(flash, flash', used)
       /\ used = Start => flash'[Start] = flash[Start]
       /\ Copying(flash', used, swap, records, addr_start + size, new_addr_start')
  <2>1. CASE ~Live(flash, addr_start)
    <3>1. flash' = flash /\ new_addr_start' = new_addr_start
      BY <2>1 DEF CopyRecord
    <3>2. Copy(flash, records, addr_start + size, copies)
      <4>1. ASSUME NEW a \in records, a < addr_start + size, Live(flash, a)
            PROVE  a < addr_start
        BY <1>7, <1>8, <2>1, <4>1
      <4>2. \A a \in records : a < addr_start => a < addr_start + size
        BY <1>7, <1>8
      <4> HIDE DEF size
      <4>3. QED
        BY <1>9, <4>1, <4>2 DEF Copy
    <3>3. new_addr_start - swap =< (addr_start + size) - used
      <4>1. used \in Nat /\ swap \in Nat /\ new_addr_start \in Nat
        BY <1>4, Places DEF IInv, TypeOK
      <4>2. QED
        BY <1>7, <1>9, <4>1
    <3>4. QED
      BY <1>4, <1>9, <3>1, <3>2, <3>3 DEF Copying, SameSector
  <2>2. CASE Live(flash, addr_start)
    <3>1. PICK behind \in Behind_buf :
            flash' = flash_write(flash, new_addr_start, size, Copied(behind))
      BY <2>2 DEF CopyRecord
    <3>2. new_addr_start' = new_addr_start + size
      BY <2>2 DEF CopyRecord
    <3>3. \A i \in 0..(size - 1) : Copied(behind)[i] = flash[addr_start + i]
      BY <1>7, <1>8, CopiedIs
    <3>5. Whole(flash, used, records, end)
      BY <1>3 DEF Whole
    <3>6. Copying(flash, used, swap, records, addr_start, new_addr_start)
      BY <1>1, <1>2 DEF StoreInv
    <3>7. /\ flash' \in Flash /\ SameSector(flash, flash', used)
          /\ flash'[Start] = flash[Start]
          /\ Copying(flash', used, swap, records, addr_start + size,
                     new_addr_start + size)
      BY <1>4, <1>6, <2>2, <3>1, <3>3, <3>5, <3>6, RecordCopied
    <3>8. QED
      BY <3>2, <3>7
  <2>3. QED
    BY <2>1, <2>2
<1>12. /\ Whole(flash', used, records, end) /\ Free(flash', request, records)
       /\ \A key \in Keys : Kept(flash', used, key) = Kept(flash, used, key)
  BY <1>3, <1>11, UsedFrame
<1> HIDE DEF size
<1>13. StoreInv(records, end)'
  BY <1>2, <1>5, <1>8, <1>11, <1>12 DEF StoreInv, size
<1>14. SoundInv'
  BY <1>2, <1>11, <1>13 DEF SoundInv
<1>15. store' = store
  BY <1>5, <1>12, StoreKept
<1>16. QED
  BY <1>2, <1>14, <1>15, Stutters

\* The mark is one cell of the other sector, in front of its records.
SwapMarked(later) ==
  /\ later \in Flash
  /\ \A a \in Cells : a # swap => later[a] = flash[a]

LEMMA MarkedIs ==
  ASSUME IInv
  PROVE  /\ swap \in Cells /\ swap \in Nat /\ InUseMark \in Byte /\ InUseMark # Erased
         /\ SwapMarked(Marked) /\ Marked[swap] = And(flash[swap], InUseMark)
<1>1. flash \in Flash /\ swap \in {Start, Second}
  BY Sectors
<1>2. /\ swap \in Cells /\ swap \in Nat /\ InUseMark \in Byte /\ InUseMark # Erased
  <2>1. SectorSize \in Nat \ {0} /\ swap \in Nat
    BY <1>1, SectorCells, FlashAssumption
  <2>2. swap \in swap..(swap + SectorSize - 1)
    BY <2>1
  <2>3. InUseMark \in 1..(Erased - 1) /\ Erased \in Nat /\ Byte = 0..Erased
    BY TinyAssumption, Sizes
  <2>4. QED
    BY <1>1, <2>1, <2>2, <2>3, Places
<1>3. /\ Marked = [flash EXCEPT ![swap] = And(flash[swap], InUseMark)]
      /\ [flash EXCEPT ![swap] = And(flash[swap], InUseMark)] \in Flash
  BY <1>1, <1>2, ByteProgrammed DEF Marked
<1>4. QED
  BY <1>1, <1>2, <1>3 DEF Flash, SwapMarked

LEMMA MarkedFrame ==
  ASSUME IInv, NEW later, SwapMarked(later)
  PROVE  SameSector(flash, later, used) /\ SameSector(flash, later, swap)
<1>1. /\ used \in {Start, Second} /\ swap \in {Start, Second} /\ swap # used
      /\ swap \in Nat
  BY Sectors, MarkedIs
<1>2. \A a \in First(swap)..(swap + SectorSize - 1) : a \in Cells /\ a # swap
  <2>1. First(swap) \in Nat /\ First(swap) > swap /\ SectorSize \in Nat
    BY <1>1, Places
  <2>2. \A a \in First(swap)..(swap + SectorSize - 1) : a \in Cells
    BY <1>1, SectorCells
  <2>3. QED
    BY <1>1, <2>1, <2>2
<1>3. \A a \in First(used)..(used + SectorSize - 1) : a \in Cells /\ a # swap
  <2>1. \A a \in First(used)..(used + SectorSize - 1) :
          a \in Cells /\ a \in used..(used + SectorSize - 1)
    BY <1>1, SectorCells
  <2>2. swap \in swap..(swap + SectorSize - 1)
    BY <1>1, FlashAssumption
  <2>3. QED
    BY <1>1, <2>1, <2>2, SectorsApart
<1>4. QED
  BY <1>2, <1>3 DEF SameSector, SwapMarked

LEMMA MarkKeeps ==
  ASSUME IInv, MarkInv, SoundInv, sound, MarkNew
  PROVE  SoundInv' /\ Promised
<1>1. PICK records, end : StoreInv(records, end)
  BY DEF SoundInv
<1>2. /\ pc = "mark" /\ pc' = "erase" /\ used' = used
      /\ request' = request /\ sound' = sound
      /\ flash' = Marked
  BY DEF MarkNew
<1>3. /\ flash \in Flash /\ used \in {Start, Second} /\ swap \in {Start, Second}
      /\ swap # used /\ (used = Start => swap = Second) /\ (used = Second => swap = Start)
  BY Sectors
<1>4. Sector = used /\ Sector' = used /\ swap' = swap
  BY <1>2 DEF Sector, swap
<1>5. /\ Chain(flash, used, records, end) /\ OneLive(flash, records)
      /\ Free(flash, request, records) /\ AllThere(flash, swap, records, end)
  BY <1>1, <1>2, <1>4 DEF StoreInv, Whole
<1>6. SwapMarked(flash')
  BY <1>2, MarkedIs
<1>7. /\ flash' \in Flash /\ swap \in Cells
      /\ flash'[swap] = And(flash[swap], InUseMark)
      /\ \A a \in Cells : a # swap => flash'[a] = flash[a]
  BY <1>2, <1>6, MarkedIs DEF SwapMarked
<1>8. SameSector(flash, flash', used) /\ SameSector(flash, flash', swap)
  BY <1>6, MarkedFrame
<1>9. /\ Whole(flash', used, records, end) /\ Free(flash', request, records)
      /\ \A key \in Keys : Kept(flash', used, key) = Kept(flash, used, key)
  BY <1>5, <1>7, <1>8, UsedFrame
<1>10. AllThere(flash', swap, records, end)
  <2>1. PICK copies, last : Whole(flash, swap, copies, last)
                            /\ Copy(flash, records, end, copies)
    BY <1>5 DEF AllThere
  <2>2. Chain(flash, swap, copies, last) /\ OneLive(flash, copies)
    BY <2>1 DEF Whole
  <2>3. Whole(flash', swap, copies, last)
    BY <1>3, <1>7, <1>8, <2>2, ChainFrame DEF Whole
  <2>4. \A a \in records : SameRecord(flash, a, flash', a)
    BY <1>3, <1>5, <1>7, <1>8, RecordFrame DEF SameRecord
  <2>5. \A a \in copies : SameRecord(flash, a, flash', a)
    BY <1>3, <1>7, <1>8, <2>2, RecordFrame DEF SameRecord
  <2>6. Copy(flash', records, end, copies)
    BY <1>3, <1>5, <2>1, <2>2, <2>4, <2>5, CopyStays
  <2>7. QED
    BY <2>3, <2>6 DEF AllThere
<1>11. StoreInv(records, end)'
  BY <1>2, <1>4, <1>9, <1>10 DEF StoreInv
<1>12. used = Start => flash'[Start] # Erased
  <2>1. used = Start => flash'[Start] = flash[Start]
    BY <1>3, <1>7, StartCell
  <2>2. QED
    BY <1>2, <2>1 DEF SoundInv
<1>13. used = Second => flash'[Start] # Erased
  <2>1. used = Second => swap = Start /\ flash[Start] = Erased
    BY <1>2, <1>3 DEF MarkInv
  <2>2. QED
    BY <1>7, <2>1, MarkedIs, AndAssumption
<1>14. SoundInv'
  BY <1>2, <1>11, <1>12, <1>13 DEF SoundInv
<1>15. store' = store
  BY <1>4, <1>9, StoreKept
<1>16. QED
  BY <1>2, <1>14, <1>15, Stutters

\* The sector that has been copied to holds what the other one did.
LEMMA SwapFrame ==
  ASSUME IInv, NEW records, NEW end, Whole(flash, used, records, end),
         AllThere(flash, swap, records, end), Free(flash, request, records),
         flash' \in Flash, SameSector(flash, flash', swap)
  PROVE  /\ \E copies, last : Whole(flash', swap, copies, last)
                              /\ Free(flash', request, copies)
         /\ \A key \in Keys : Kept(flash', swap, key) = Kept(flash, used, key)
<1>1. flash \in Flash /\ used \in {Start, Second} /\ swap \in {Start, Second}
  BY Sectors
<1>2. PICK copies, last : Whole(flash, swap, copies, last)
                          /\ Copy(flash, records, end, copies)
  BY DEF AllThere
<1>3. /\ Chain(flash, used, records, end) /\ OneLive(flash, records)
      /\ Chain(flash, swap, copies, last) /\ OneLive(flash, copies)
  BY <1>2 DEF Whole
<1>4. ASSUME NEW key
      PROVE  /\ Kept(flash, swap, key) = Kept(flash, used, key)
             /\ (\A a \in records : ~Hit(flash, key, a))
                  => \A b \in copies : ~Hit(flash, key, b)
  BY <1>1, <1>2, <1>3, CopyKeeps
<1>5. Whole(flash', swap, copies, last)
  BY <1>1, <1>3, ChainFrame DEF Whole
<1>6. \A key : \A b \in copies : Hit(flash', key, b) <=> Hit(flash, key, b)
  BY <1>1, <1>3, ChainFrame
<1>7. Free(flash', request, copies)
  BY <1>4, <1>6 DEF Free
<1>8. ASSUME NEW key \in Keys PROVE Kept(flash', swap, key) = Kept(flash, used, key)
  <2>1. Kept(flash', swap, key) = Kept(flash, swap, key)
    BY <1>1, <1>3, KeptFrame
  <2>2. QED
    BY <1>4, <2>1
<1>9. QED
  BY <1>5, <1>7, <1>8

LEMMA EraseKeeps ==
  ASSUME IInv, MarkInv, SoundInv, sound, EraseOld
  PROVE  SoundInv' /\ Promised
<1>1. PICK records, end : StoreInv(records, end)
  BY DEF SoundInv
<1>2. /\ pc = "erase" /\ pc' = "scan" /\ used' = swap
      /\ request' = request /\ sound' = sound /\ addr_start' = First(swap)
      /\ flash' = flash_erase_sector(flash, used)
  BY DEF EraseOld, First
<1>3. /\ flash \in Flash /\ used \in {Start, Second} /\ swap \in {Start, Second}
      /\ swap # used
  BY Sectors
<1>4. Sector = used /\ Sector' = swap
  BY <1>2 DEF Sector
<1>5. /\ Whole(flash, used, records, end) /\ Free(flash, request, records)
      /\ AllThere(flash, swap, records, end)
  BY <1>1, <1>2, <1>4 DEF StoreInv
<1>6. /\ flash' \in Flash /\ SameSector(flash, flash', swap)
      /\ flash'[swap] = flash[swap]
  BY <1>2, <1>3, SectorErased
<1>7. /\ \E copies, last : Whole(flash', swap, copies, last)
                           /\ Free(flash', request, copies)
      /\ \A key \in Keys : Kept(flash', swap, key) = Kept(flash, used, key)
  BY <1>5, <1>6, SwapFrame
<1>8. PICK copies, last : Whole(flash', swap, copies, last)
                          /\ Free(flash', request, copies)
  BY <1>7
<1>9. addr_start' \in copies \cup {last}
  BY <1>2, <1>8 DEF Whole, Chain
<1>10. StoreInv(copies, last)'
  BY <1>2, <1>4, <1>8, <1>9 DEF StoreInv
<1>11. swap = Start => flash'[Start] # Erased
  BY <1>2, <1>3, <1>6 DEF SoundInv
<1>12. SoundInv'
  BY <1>2, <1>10, <1>11 DEF SoundInv
<1>13. store' = store
  BY <1>4, <1>7, StoreKept
<1>14. QED
  BY <1>2, <1>12, <1>13, Stutters
-----------------------------------------------------------------------------
(* A loss of power *)

\* The mark tells tinyFlash_Init which sector to take, but for the moment in
\* which a swap has marked the new one and not yet erased the old one.
LEMMA MarkTells ==
  ASSUME IInv, MarkInv, SoundInv, sound, pc # "off"
  PROVE  /\ pc # "erase" => (flash[Start] # Erased <=> used = Start)
         /\ pc = "erase" => flash[Start] # Erased
<1>1. used = Start \/ used = Second
  BY Sectors
<1>2. used = Start => flash[Start] # Erased
  BY DEF SoundInv
<1>3. used = Second /\ pc # "erase" => flash[Start] = Erased
  BY DEF MarkInv
<1>4. used = Second /\ pc = "erase" => flash[Start] # Erased
  BY DEF SoundInv
<1>5. QED
  BY <1>1, <1>2, <1>3, <1>4

LEMMA StoreSame ==
  ASSUME store' = store, request' = {}, sound, sound' PROVE Promised
<1>1. Promise!PowerLoss
  <2>1. [key \in Keys |-> Stored(key)]' = [key \in Keys |-> Stored(key)]
    BY DEF store
  <2>2. QED
    BY <2>1 DEF Promise!PowerLoss
<1>2. QED
  BY <1>1 DEF Promised, Promise!Next, Promise!Sound

\* The records of the sector in use are the ones that are found again.
LEMMA LossUsed ==
  ASSUME IInv, sound, sound', pc # "off", pc' = "off", request' = {},
         NEW records, NEW end, Chain(flash, used, records, end),
         OneLive(flash, records), flash' \in Flash, SameSector(flash, flash', used),
         flash'[Start] # Erased <=> used = Start
  PROVE  SoundInv' /\ Promised
<1>1. used \in {Start, Second} /\ Start # Second
  BY Sectors, StartCell
<1>2. Sector = used /\ Sector' = used
  BY <1>1 DEF Sector, InUse
<1>3. Free(flash, {}, records)
  BY DEF Free
<1>4. /\ Whole(flash', used, records, end)
      /\ \A key \in Keys : Kept(flash', used, key) = Kept(flash, used, key)
  BY <1>3, UsedFrame
<1>5. StoreInv(records, end)'
  BY <1>2, <1>4 DEF StoreInv
<1>6. SoundInv'
  BY <1>5 DEF SoundInv
<1>7. store' = store
  BY <1>2, <1>4, StoreKept
<1>8. QED
  BY <1>6, <1>7, StoreSame

\* The copies are.
LEMMA LossSwap ==
  ASSUME IInv, SoundInv, sound, sound', pc \in {"mark", "erase"}, pc' = "off",
         request' = {},
         flash' \in Flash, SameSector(flash, flash', swap),
         flash'[Start] # Erased <=> swap = Start
  PROVE  SoundInv' /\ Promised
<1>1. swap \in {Start, Second} /\ Start # Second
  BY Sectors, StartCell
<1>2. Sector = used /\ Sector' = swap
  BY <1>1 DEF Sector, InUse
<1>3. PICK records, end : StoreInv(records, end)
  BY DEF SoundInv
<1>4. /\ Whole(flash, used, records, end) /\ Free(flash, request, records)
      /\ AllThere(flash, swap, records, end)
  BY <1>2, <1>3 DEF StoreInv
<1>5. /\ \E copies, last : Whole(flash', swap, copies, last)
                           /\ Free(flash', request, copies)
      /\ \A key \in Keys : Kept(flash', swap, key) = Kept(flash, used, key)
  BY <1>4, SwapFrame
<1>6. PICK copies, last : Whole(flash', swap, copies, last)
  BY <1>5
<1>7. StoreInv(copies, last)'
  BY <1>2, <1>6 DEF StoreInv
<1>8. SoundInv'
  BY <1>7 DEF SoundInv
<1>9. store' = store
  BY <1>2, <1>5, StoreKept
<1>10. QED
  BY <1>8, <1>9, StoreSame

\* What an interrupted operation was not to change is as it was.
LEMMA TornFrame ==
  ASSUME NEW fewer \in Flash, NEW more \in Flash, NEW torn \in Torn(fewer, more),
         NEW sector \in {Start, Second}, SameSector(fewer, more, sector)
  PROVE  SameSector(fewer, torn, sector) /\ SameSector(more, torn, sector)
<1> SUFFICES ASSUME NEW a \in First(sector)..(sector + SectorSize - 1)
             PROVE  torn[a] = fewer[a] /\ torn[a] = more[a]
  BY DEF SameSector
<1>1. a \in Cells
  BY SectorCells
<1>2. more[a] = fewer[a]
  BY DEF SameSector
<1>3. QED
  BY <1>1, <1>2, TornSame

\* An interrupted program of an erased cell leaves all bits that the byte has.
LEMMA TornByte ==
  ASSUME NEW fewer \in Flash, NEW more \in Flash, NEW torn \in Torn(fewer, more),
         NEW a \in Cells, more[a] = Erased
  PROVE  torn[a] \in Byte /\ And(fewer[a], torn[a]) = fewer[a]
<1>1. PICK bits \in TornBits : torn = Between(fewer, more, bits)
  BY DEF Torn
<1>2. bits[a] \in Byte /\ fewer[a] \in Byte
  BY TornAssumption DEF Flash
<1>3. torn[a] = And(Erased, Or(fewer[a], bits[a]))
  BY <1>1 DEF Between
<1>4. Or(fewer[a], bits[a]) \in Byte /\ And(fewer[a], Or(fewer[a], bits[a])) = fewer[a]
  BY <1>2, TornAssumption
<1>5. torn[a] = Or(fewer[a], bits[a])
  BY <1>3, <1>4, AndAssumption
<1>6. QED
  BY <1>4, <1>5

\* An interrupted erase of one sector leaves the other one alone.
LEMMA TornErased ==
  ASSUME IInv, NEW sector \in {Start, Second}, NEW other \in {Start, Second},
         other # sector, flash' \in Torn(flash, flash_erase_sector(flash, sector))
  PROVE  /\ SameSector(flash, flash', other)
         /\ sector = Start /\ flash[Start] = Erased => flash'[Start] = Erased
         /\ sector = Second => flash'[Start] = flash[Start]
<1> DEFINE erased == flash_erase_sector(flash, sector)
<1>1. flash \in Flash /\ erased \in Flash /\ SameSector(flash, erased, other)
      /\ erased[other] = flash[other]
  BY Sectors, SectorErased
<1>2. \A a \in Cells : flash[a] = Erased => erased[a] = Erased
  BY DEF flash_erase_sector
<1>3. flash' \in Torn(flash, erased)
  OBVIOUS
<1> HIDE DEF erased
<1>4. SameSector(flash, flash', other)
  BY <1>1, <1>3, TornFrame
<1>5. \A a \in Cells : erased[a] = flash[a] => flash'[a] = flash[a]
  BY <1>1, <1>3, TornSame
<1>6. Start \in Cells /\ (sector = Second => other = Start)
  BY StartCell
<1>7. QED
  BY <1>1, <1>2, <1>4, <1>5, <1>6

\* Nothing changes in the sector that is in use, nor the first sector's mark.
LEMMA LossIdle ==
  ASSUME IInv, MarkInv, SoundInv, sound, sound', pc # "off", pc # "erase", pc' = "off",
         request' = {}, flash' \in Flash, SameSector(flash, flash', used),
         flash'[Start] = flash[Start]
  PROVE  SoundInv' /\ Promised
<1>1. PICK records, end : StoreInv(records, end)
  BY DEF SoundInv
<1>2. Chain(flash, used, records, end) /\ OneLive(flash, records)
  BY <1>1 DEF StoreInv, Whole, Sector
<1>3. flash'[Start] # Erased <=> used = Start
  BY MarkTells
<1>4. QED
  BY <1>2, <1>3, LossUsed

\* Of a deletion: the record is dead or it is not.
LEMMA LossDelete ==
  ASSUME IInv, MarkInv, SoundInv, sound, sound', PowerLoss, pc = "idle",
         NEW key \in Keys, flash' \in Torn(Deleted(key), flash), flash' \in Flash
  PROVE  SoundInv' /\ Promised
<1>1. PICK records, end : StoreInv(records, end)
  BY DEF SoundInv
<1>2. /\ flash \in Flash /\ used \in {Start, Second} /\ addr_end = used + SectorSize
      /\ pc' = "off" /\ request' = {} /\ request = {}
  BY Sectors DEF PowerLoss, MarkInv
<1>3. Chain(flash, used, records, end) /\ OneLive(flash, records)
  BY <1>1 DEF StoreInv, Whole, Sector
<1>4. Deleted(key) \in Flash
  BY DeletedTyped DEF IInv
<1>5. \A a \in Cells : Deleted(key)[a] = flash[a] => flash'[a] = flash[a]
  BY <1>2, <1>4, TornSame
<1>6. flash'[Start] = flash[Start]
  BY <1>5, DeletedMark, StartCell
<1>7. CASE \A a \in Cells : flash'[a] = flash[a]
  <2>1. SameSector(flash, flash', used)
    BY <1>2, <1>7, SectorCells DEF SameSector
  <2>2. QED
    BY <1>2, <1>6, <2>1, LossIdle
<1>8. CASE \E a \in Cells : flash'[a] # flash[a]
  <2>1. Deleted(key) # flash
    BY <1>5, <1>8
  <2>2. Deleted(key) =
          IF Search(flash, used, key) = used + SectorSize THEN flash
          ELSE flash_write_page(flash, Search(flash, used, key) + 1, 1, [i \in {0} |-> 0])
    BY <1>2 DEF Deleted
  <2>3. PICK found \in records :
          /\ Hit(flash, key, found)
          /\ \A a \in Cells : a # found + 1 => Deleted(key)[a] = flash[a]
    BY <1>2, <1>3, <2>1, <2>2, Deletion
  <2>4. \A a \in Cells : a # found + 1 => flash'[a] = flash[a]
    BY <1>5, <2>3
  <2>5. flash'[found + 1] # flash[found + 1]
    BY <1>8, <2>4
  <2>6. /\ Chain(flash', used, records, end) /\ OneLive(flash', records)
        /\ Kept(flash', used, key) = Nothing
        /\ \A other : other # key =>
             Kept(flash', used, other) = Kept(flash, used, other)
    BY <1>2, <1>3, <2>3, <2>4, <2>5, CrossedOut
  <2>7. flash'[Start] # Erased <=> used = Start
    BY <1>6, MarkTells
  <2>8. Sector = used /\ Sector' = used
    BY <1>2, <2>7, StartCell DEF Sector, InUse
  <2>9. StoreInv(records, end)'
    BY <1>2, <2>6, <2>8 DEF StoreInv, Whole
  <2>10. SoundInv'
    <3>1. \E all, last : StoreInv(all, last)'
      BY <2>9
    <3>2. QED
      BY <1>2, <3>1 DEF SoundInv
  <2>11. store' = [store EXCEPT ![key] = Nothing]
    BY <2>6, <2>8, StoreChanged
  <2>12. Promise!Delete(key)
    BY <1>2, <2>11 DEF Promise!Delete, store
  <2>13. QED
    BY <2>10, <2>12 DEF Promised, Promise!Next, Promise!Sound
<1>9. QED
  BY <1>7, <1>8

\* Of a new record: a key and a length and perhaps more of it, live or not, or,
\* with Harmful, something else.
LEMMA LossWrite ==
  ASSUME IInv, MarkInv, SoundInv, sound, sound', PowerLoss, ~Harmful, pc = "scan", ~Full,
         flash[addr_start] = Erased, flash' \in Flash, flash' # flash
  PROVE  SoundInv' /\ Promised
<1>1. PICK records, end : StoreInv(records, end)
  BY DEF SoundInv
<1>2. /\ flash \in Flash /\ used \in {Start, Second} /\ addr_end = used + SectorSize
      /\ pc' = "off" /\ request' = {} /\ addr_start \in Nat
  BY Sectors DEF PowerLoss
<1>3. /\ Chain(flash, used, records, end) /\ OneLive(flash, records)
      /\ Free(flash, request, records) /\ addr_start \in records \cup {end}
  BY <1>1, AtRecord
<1>4. addr_start = end
  BY <1>3 DEF Chain
<1>5. PICK r \in request :
        flash' \in Torn(flash_write(flash, end, Len(r[2]) + 3, Record(r[1], r[2])), flash)
  BY <1>4 DEF PowerLoss, TornWrites
<1>6. PICK key \in Keys, value \in Values : r = <<key, value>>
  <2>1. r \in Keys \X Values
    BY DEF IInv, TypeOK
  <2>2. r[1] \in Keys /\ r[2] \in Values /\ r = <<r[1], r[2]>>
    BY <2>1
  <2>3. QED
    BY <2>2
<1>7. flash'[end] # Erased /\ flash'[end + 2] = Len(value) /\ ~TooLong(value)
  BY <1>4, <1>5, <1>6 DEF Harmful
<1> DEFINE len == Len(value) + 3
           data == Record(key, value)
           whole == flash_write(flash, end, len, data)
<1>8. /\ len \in 3..PageSize /\ len \in Nat /\ len >= 3
      /\ \A i \in 0..(len - 1) : data[i] \in Byte
      /\ data[0] = key /\ data[1] = Inverse(key)
  BY <1>6, <1>7, RecordOf
<1>9. /\ end \in Nat /\ end + len =< used + SectorSize /\ end + Len(value) + 3 = end + len
  <2>1. end + Len(r[2]) + 3 =< used + SectorSize
    BY <1>2, <1>4, <1>5, ScanRoom
  <2>2. end \in Nat /\ Len(value) \in Nat
    BY <1>2, <1>4, ValueLength
  <2>3. QED
    BY <1>6, <2>1, <2>2
<1>10. flash' \in Torn(whole, flash)
  BY <1>5, <1>6
<1> HIDE DEF data, len
<1>11. /\ whole \in Flash /\ \A i \in 0..(len - 1) : whole[end + i] = data[i]
       /\ Beyond(flash, whole, end, len)
  BY <1>2, <1>3, <1>8, <1>9, RecordAppended
<1> HIDE DEF whole
<1>12. Beyond(flash, flash', end, len)
  BY <1>2, <1>10, <1>11, TornSame DEF Beyond
<1>13. /\ end \in Cells /\ end + 1 \in Cells
       /\ flash[end] = Erased /\ flash[end + 1] = Erased
  <2>1. used \in Nat /\ SectorSize \in Nat /\ end >= used
    <3>1. used \in Nat /\ SectorSize \in Nat /\ First(used) \in Nat /\ First(used) > used
      BY <1>2, Places
    <3>2. end >= First(used)
      <4>1. First(used) \in records \cup {end}
            /\ \A a \in records : a \in Nat /\ a + 3 =< end
        BY <1>3 DEF Chain
      <4>2. QED
        BY <1>9, <3>1, <4>1
    <3>3. QED
      BY <1>9, <3>1, <3>2
  <2>2. /\ end \in used..(used + SectorSize - 1) /\ end + 1 \in used..(used + SectorSize - 1)
        /\ end \in end..(used + SectorSize - 1) /\ end + 1 \in end..(used + SectorSize - 1)
    BY <1>8, <1>9, <2>1
  <2>3. QED
    BY <1>2, <1>3, <2>2, Places DEF Chain
<1>14. /\ flash'[end] \in Byte /\ And(key, flash'[end]) = key
       /\ flash'[end + 1] \in Byte
       /\ And(Inverse(key), flash'[end + 1]) = Inverse(key)
  <2>1. 0 \in 0..(len - 1) /\ 1 \in 0..(len - 1) /\ end + 0 = end
    BY <1>8, <1>9
  <2>2. whole[end] = key /\ whole[end + 1] = Inverse(key)
    BY <1>8, <1>11, <2>1
  <2>3. QED
    BY <1>2, <1>10, <1>11, <1>13, <2>2, TornByte
<1>15. key \in Byte /\ key # 0
  <2>1. key \in 1..(Erased - 1) /\ Erased \in Nat /\ Byte = 0..Erased
    BY TinyAssumption, Sizes
  <2>2. QED
    BY <2>1
<1>16. flash'[end] \notin {0, Erased}
  <2>1. And(key, 0) = 0
    BY <1>15, TinyAssumption
  <2>2. QED
    BY <1>7, <1>14, <1>15, <2>1
<1>17. Live(flash', end) => flash'[end] = key
  <2> SUFFICES ASSUME flash'[end + 1] = Inverse(flash'[end]) PROVE flash'[end] = key
    BY DEF Live
  <2>1. And(Erased - key, Erased - flash'[end]) = Erased - key
    BY <1>14 DEF Inverse
  <2>2. QED
    BY <1>14, <2>1, TinyAssumption
<1>18. /\ Whole(flash', used, records \cup {end}, end + len)
       /\ OthersKept(flash, flash', used, key)
  <2>1. Absent(flash, records, key) /\ Whole(flash, used, records, end)
    BY <1>3, <1>6 DEF Free, Absent, Whole
  <2>2. Beyond(flash, flash', end, Len(value) + 3)
    BY <1>12 DEF len
  <2>3. end + Len(value) + 3 =< used + SectorSize
    BY <1>9
  <2>4. NewRecord(flash, flash', used, records, end, key, value)
    BY <1>2, <1>7, <1>16, <1>17, <2>1, <2>2, <2>3, RecordStored
  <2>5. QED
    BY <1>9, <2>4 DEF NewRecord
<1>19. flash'[Start] # Erased <=> used = Start
  <2>1. Start < end /\ Start \in Cells
    BY <1>2, <1>4, StartCell DEF MarkInv
  <2>2. flash'[Start] = flash[Start]
    BY <1>12, <2>1 DEF Beyond
  <2>3. QED
    BY <2>2, MarkTells
<1>20. Sector = used /\ Sector' = used
  BY <1>2, <1>19, StartCell DEF Sector, InUse
<1>21. StoreInv(records \cup {end}, end + len)'
  BY <1>2, <1>18, <1>20 DEF StoreInv
<1>22. SoundInv'
  <2>1. \E all, last : StoreInv(all, last)'
    BY <1>21
  <2>2. QED
    BY <1>2, <2>1 DEF SoundInv
<1>23. ASSUME NEW other \in Keys, other # key PROVE store'[other] = store[other]
  <2>1. Kept(flash', used, other) = Kept(flash, used, other)
    BY <1>18, <1>23 DEF OthersKept
  <2>2. QED
    BY <1>20, <2>1, StoreOf
<1>24. <<key, value>> \in request
  BY <1>5, <1>6
<1>25. Promise!PowerLoss
  BY <1>2, <1>23, <1>24 DEF Promise!PowerLoss, store
<1>26. QED
  BY <1>22, <1>25 DEF Promised, Promise!Next, Promise!Sound

LEMMA LossCopy ==
  ASSUME IInv, MarkInv, SoundInv, sound, sound', PowerLoss, flash' \in TornWrites,
         pc = "copy", ~AllCopied, Live(flash, addr_start), flash' \in Flash
  PROVE  SoundInv' /\ Promised
<1>1. PICK records, end : StoreInv(records, end)
  BY DEF SoundInv
<1>2. /\ flash \in Flash /\ used \in {Start, Second} /\ swap \in {Start, Second}
      /\ swap # used /\ pc' = "off" /\ request' = {}
  BY Sectors DEF PowerLoss
<1>3. /\ Chain(flash, used, records, end) /\ OneLive(flash, records)
      /\ addr_start \in records
  BY <1>1, AtRecord
<1> DEFINE size == RecordSize(flash, addr_start)
<1>4. PICK behind \in Behind_buf :
        flash' \in Torn(flash_write(flash, new_addr_start, size, Copied(behind)), flash)
  BY DEF TornWrites
<1> DEFINE whole == flash_write(flash, new_addr_start, size, Copied(behind))
<1>5. \A i \in 0..(size - 1) : Copied(behind)[i] = flash[addr_start + i]
  <2>1. size \in Nat /\ size =< PageSize
    <3>1. size \in Nat
      BY <1>2, <1>3, RecordCells
    <3>2. size =< PageSize
      BY <1>3 DEF Chain
    <3>3. QED
      BY <3>1, <3>2
  <2>2. QED
    BY <2>1, CopiedIs
<1>6. /\ Whole(flash, used, records, end)
      /\ Copying(flash, used, swap, records, addr_start, new_addr_start)
  BY <1>1, <1>3 DEF StoreInv, Whole
<1>7. /\ whole \in Flash /\ SameSector(flash, whole, used)
      /\ whole[Start] = flash[Start]
  BY <1>2, <1>3, <1>5, <1>6, RecordCopied
<1>8. flash' \in Torn(whole, flash)
  BY <1>4
<1> HIDE DEF whole
<1>9. SameSector(whole, flash, used)
  BY <1>7 DEF SameSector
<1>10. SameSector(flash, flash', used)
  BY <1>2, <1>7, <1>8, <1>9, TornFrame
<1>11. flash'[Start] = flash[Start]
  BY <1>2, <1>7, <1>8, StartCell, TornSame
<1>12. QED
  BY <1>2, <1>10, <1>11, LossIdle

\* A mark of which one bit is programmed counts.
LEMMA LossMark ==
  ASSUME IInv, MarkInv, SoundInv, sound, sound', PowerLoss, pc = "mark",
         flash' \in Torn(Marked, flash), flash' \in Flash
  PROVE  SoundInv' /\ Promised
<1>1. /\ flash \in Flash /\ used \in {Start, Second} /\ swap \in {Start, Second}
      /\ swap # used /\ pc' = "off" /\ request' = {}
      /\ used = Start => swap = Second
      /\ used = Second => swap = Start
  BY Sectors DEF PowerLoss
<1>2. Marked \in Flash /\ \A a \in Cells : a # swap => Marked[a] = flash[a]
  BY MarkedIs DEF SwapMarked
<1>3. SwapMarked(flash')
  BY <1>1, <1>2, TornSame DEF SwapMarked
<1>4. SameSector(flash, flash', used) /\ SameSector(flash, flash', swap)
  BY <1>3, MarkedFrame
<1>5. CASE flash'[Start] = flash[Start]
  BY <1>1, <1>4, <1>5, LossIdle
<1>6. CASE flash'[Start] # flash[Start]
  <2>1. swap = Start
    BY <1>3, <1>6, StartCell DEF SwapMarked
  <2>2. flash[Start] = Erased
    BY <1>1, <2>1, StartCell DEF MarkInv
  <2>3. flash'[Start] # Erased <=> swap = Start
    BY <1>6, <2>1, <2>2
  <2>4. QED
    BY <1>1, <1>4, <2>3, LossSwap
<1>7. QED
  BY <1>5, <1>6

LEMMA LossErase ==
  ASSUME IInv, MarkInv, SoundInv, sound, sound', PowerLoss, ~Harmful, pc = "erase",
         flash' = flash \/ flash' \in Torn(flash, flash_erase_sector(flash, used)),
         flash' \in Flash
  PROVE  SoundInv' /\ Promised
<1>1. /\ used \in {Start, Second} /\ swap \in {Start, Second} /\ swap # used
      /\ pc' = "off" /\ request' = {}
      /\ used = Start => swap = Second
      /\ used = Second => swap = Start
  BY Sectors DEF PowerLoss
<1>2. /\ SameSector(flash, flash', swap)
      /\ used = Second => flash'[Start] = flash[Start]
  <2>1. CASE flash' = flash
    BY <2>1 DEF SameSector
  <2>2. CASE flash' \in Torn(flash, flash_erase_sector(flash, used))
    BY <1>1, <2>2, TornErased
  <2>3. QED
    BY <2>1, <2>2
<1>3. flash[Start] # Erased /\ Start # Second
  BY MarkTells, StartCell
<1>4. CASE used = Second
  <2>1. flash'[Start] # Erased <=> swap = Start
    BY <1>1, <1>2, <1>3, <1>4
  <2>2. QED
    BY <1>1, <1>2, <2>1, LossSwap
<1>5. CASE used = Start /\ flash'[Start] = Erased
  <2>1. flash'[Start] # Erased <=> swap = Start
    BY <1>1, <1>3, <1>5
  <2>2. QED
    BY <1>1, <1>2, <2>1, LossSwap
<1>6. CASE used = Start /\ flash'[Start] # Erased
  <2>1. flash' = flash
    BY <1>6 DEF Harmful
  <2>2. PICK records, end : StoreInv(records, end)
    BY DEF SoundInv
  <2>3. Chain(flash, used, records, end) /\ OneLive(flash, records)
    BY <2>2 DEF StoreInv, Whole, Sector
  <2>4. SameSector(flash, flash', used)
    BY <2>1 DEF SameSector
  <2>5. flash'[Start] # Erased <=> used = Start
    BY <1>6
  <2>6. QED
    BY <1>1, <2>3, <2>4, <2>5, LossUsed
<1>7. QED
  BY <1>1, <1>4, <1>5, <1>6

LEMMA LossFormat ==
  ASSUME IInv, MarkInv, SoundInv, sound, sound', PowerLoss, pc = "format swap",
         flash' \in Torn(flash, flash_erase_sector(flash, swap)), flash' \in Flash
  PROVE  SoundInv' /\ Promised
<1>1. /\ used \in {Start, Second} /\ swap \in {Start, Second} /\ used # swap
      /\ pc' = "off" /\ request' = {}
  BY Sectors DEF PowerLoss
<1>2. /\ SameSector(flash, flash', used)
      /\ swap = Start /\ flash[Start] = Erased => flash'[Start] = Erased
      /\ swap = Second => flash'[Start] = flash[Start]
  BY <1>1, TornErased
<1>3. swap = Start => flash[Start] = Erased
  BY <1>1 DEF MarkInv
<1>4. flash'[Start] = flash[Start]
  BY <1>1, <1>2, <1>3
<1>5. QED
  BY <1>1, <1>2, <1>4, LossIdle

LEMMA LossKeeps ==
  ASSUME IInv, MarkInv, SoundInv, sound, sound', PowerLoss, flash' \in Flash
  PROVE  SoundInv' /\ Promised
<1>1. /\ pc # "off" /\ pc' = "off" /\ request' = {} /\ ~Harmful
      /\ flash' = flash \/ flash' \in TornWrites
  BY DEF PowerLoss
<1>2. CASE pc = "erase"
  <2>1. flash' = flash \/ flash' \in Torn(flash, flash_erase_sector(flash, used))
    BY <1>1, <1>2 DEF TornWrites
  <2>2. QED
    BY <1>1, <1>2, <2>1, LossErase
<1>3. CASE flash' = flash /\ pc # "erase"
  BY <1>1, <1>3, LossIdle DEF SameSector
<1>4. ASSUME flash' # flash, flash' \in TornWrites, pc # "erase"
      PROVE  SoundInv' /\ Promised
  <2>1. CASE pc = "idle"
    <3>1. PICK key \in Keys : flash' \in Torn(Deleted(key), flash)
      BY <1>4, <2>1 DEF TornWrites
    <3>2. QED
      BY <2>1, <3>1, LossDelete
  <2>2. CASE pc = "scan" /\ ~Full /\ flash[addr_start] = Erased
    BY <1>1, <1>4, <2>2, LossWrite
  <2>3. CASE pc = "copy" /\ ~AllCopied /\ Live(flash, addr_start)
    BY <1>4, <2>3, LossCopy
  <2>4. CASE pc = "mark"
    <3>1. flash' \in Torn(Marked, flash)
      BY <1>4, <2>4 DEF TornWrites
    <3>2. QED
      BY <2>4, <3>1, LossMark
  <2>5. CASE pc = "format swap"
    <3>1. flash' \in Torn(flash, flash_erase_sector(flash, swap))
      BY <1>4, <2>5 DEF TornWrites
    <3>2. QED
      BY <2>5, <3>1, LossFormat
  <2>6. pc # "format"
    BY <1>1, <1>4 DEF Harmful
  <2>7. QED
    BY <1>4, <2>1, <2>2, <2>3, <2>4, <2>5, <2>6 DEF TornWrites
<1>5. QED
  BY <1>1, <1>2, <1>3, <1>4

LEMMA SoundNext ==
  ASSUME IInv, IInv', MarkInv, SoundInv, [Next]_vars
  PROVE  SoundInv' /\ Promised
<1>1. CASE ~sound'
  BY <1>1, NothingPromised
<1>2. CASE UNCHANGED vars
  <2>1. SoundInv'
    BY <1>2 DEF vars, SoundInv, StoreInv, Sector, InUse, swap
  <2>2. store' = store /\ request' = request /\ sound' = sound
    BY <1>2 DEF vars, store, Stored, InUse
  <2>3. QED
    BY <2>1, <2>2, Stutters
<1>3. CASE tinyFlash_Init /\ sound'
  BY <1>3, InitKeeps
<1>4. CASE (BeginFormat \/ EraseUsed \/ EraseSwap) /\ sound'
  BY <1>4, FormatKeeps
<1>5. ASSUME sound',
             \/ \E key \in Keys : Delete(key) \/ \E value \in Values : BeginWrite(key, value)
             \/ WriteStep \/ SwapStep \/ PowerLoss
      PROVE  SoundInv' /\ Promised
  <2>1. sound
    BY <1>5 DEF Delete, BeginWrite, WriteStep, BeginSwap, StoreRecord, PassRecord, GiveUp,
                SwapStep, CopyRecord, EndCopy, MarkNew, EraseOld, PowerLoss
  <2>2. ASSUME NEW key \in Keys, Delete(key) PROVE SoundInv' /\ Promised
    BY <2>1, <2>2, DeleteKeeps
  <2>3. ASSUME NEW key \in Keys, NEW value \in Values, BeginWrite(key, value)
        PROVE  SoundInv' /\ Promised
    BY <2>1, <2>3, BeginKeeps
  <2>4. CASE WriteStep
    BY <1>5, <2>1, <2>4, BeginSwapKeeps, StoreKeeps, PassKeeps DEF WriteStep
  <2>5. CASE SwapStep
    BY <2>1, <2>5, CopyKeepsStore, EndCopyKeeps, MarkKeeps, EraseKeeps DEF SwapStep
  <2>6. CASE PowerLoss
    <3>1. flash' \in Flash
      BY DEF IInv, TypeOK
    <3>2. QED
      BY <1>5, <2>1, <2>6, <3>1, LossKeeps
  <2>7. QED
    BY <1>5, <2>2, <2>3, <2>4, <2>5, <2>6
<1>6. QED
  BY <1>1, <1>2, <1>3, <1>4, <1>5 DEF Next

\* KeyStore's promise is kept, whatever the sizes, the keys and the values are,
\* wherever the power fails and whichever bits of an interrupted program or erase
\* are changed, until something ends it that TinyFlash names (sound): a write that returns has stored its value
\* (tinyFlash_Write), no write, swap or loss of power touches another key's, and
\* tinyFlash_Init finds after a restart what was there, as long as the store is
\* sound.
THEOREM KeysKept == Spec => KeepsKeys
<1>1. IInv /\ MarkInv /\ SoundInv /\ [Next]_vars => SoundInv' /\ Promised
  BY NextTyped, SoundNext
<1>2. IInv /\ MarkInv /\ SoundInv /\ [Next]_vars => [Promise!Next]_(Promise!vars)
  BY <1>1 DEF Promised
<1>3. QED
  BY InitTyped, NextTyped, MarkInit, MarkNext, SoundInit, <1>1, <1>2, PTL
     DEF Spec, KeepsKeys, Promise!Spec
=============================================================================
