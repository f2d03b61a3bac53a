------------------------------- MODULE TinyFlash -------------------------------
(***************************************************************************)
(* tinyFlash.c: keys and values in two sectors of flash that are used in   *)
(* turn.  A record is Key, ~Key, Len and Len bytes; a deleted one has 0    *)
(* for ~Key.  When the sector in use is full the live records are copied   *)
(* to the other one.  The power may fail between any two flash operations  *)
(* and inside each of them.                                                *)
(***************************************************************************)
EXTENDS TornFlash, Sequences

CONSTANTS
  Start,             \* start_addr of tinyFlash_Init
  TINY_SECHAD_SIZE,  \* 32: a sector's bytes before the first record
  Keys,
  Values,
  InUseMark          \* 0xaa, in the first byte of a sector taken by a swap

Second == Start + SectorSize
ASSUME TinyAssumption ==
  /\ Byte = 0..Erased
  /\ Start \in Nat /\ Start % SectorSize = 0 /\ Start + 3 * SectorSize =< FlashSize
  /\ TINY_SECHAD_SIZE \in 1..(SectorSize - PageSize)
  /\ Keys \subseteq 1..(Erased - 1) /\ InUseMark \in 1..(Erased - 1)
  /\ \A value \in Values : value \in Seq(Byte) /\ Len(value) \in 1..Erased
  /\ \A byte \in Byte : And(byte, 0) = 0
  /\ \A key \in Keys, byte \in Byte :       \* the bits of both tell the key
       And(key, byte) = key /\ And(Erased - key, Erased - byte) = Erased - key
         => byte = key

VARIABLES
  flash,
  used,              \* tinyFlash_Used_Addr
  pc,                \* "off", "idle", "scan" in tinyFlash_Write; "copy", "mark"
                     \* and "erase" in tinyFlash_Swap;
                     \* "format", "format swap" in tinyFlash_Format;
                     \* "lost": what runs on has lost its memory
  request,           \* <<KEY, buf>> of tinyFlash_Write while it runs
  addr_start,        \* _addr_start of the loop that runs
  new_addr_start,    \* _new_addr_start of tinyFlash_Swap
  dirty,             \* dirty_data_len > 0
  sound              \* history: see the end of the module

vars == <<flash, used, pc, request, addr_start, new_addr_start, dirty, sound>>

\* tinyFlash_Swap_Addr.  Mutant: the two sectors do not take turns.
next_sector == used + SectorSize
swap == IF used = Start THEN Second ELSE Start
addr_end == used + SectorSize
Inverse(key) == Erased - key                      \* KEY ^ 0xFF
Nothing == <<>>

TypeOK ==
  /\ flash \in Flash
  /\ used \in {Start, Second}
  /\ pc \in {"off", "idle", "scan", "copy", "mark", "erase",
             "format", "format swap", "lost"}
  /\ request \subseteq Keys \X Values
  /\ addr_start \in Nat /\ new_addr_start \in Nat
  /\ dirty \in BOOLEAN /\ sound \in BOOLEAN
-----------------------------------------------------------------------------
(* Records *)

Record(key, value) ==
  [i \in 0..(Len(value) + 2) |->
     CASE i = 0 -> key [] i = 1 -> Inverse(key) [] i = 2 -> Len(value)
       [] OTHER -> value[i - 2]]

\* _buf holds a page.  The length is a byte: some records are longer.
TooLong(value) == Len(value) + 3 > PageSize

RecordSize(memory, address) == memory[address + 2] + 3
Live(memory, address) == memory[address + 1] = Inverse(memory[address])

\* flash_write programs to the end of the page and the rest from the next one on.
flash_write(memory, address, len, data) ==
  LET room == PageSize - (address % PageSize)
  IN IF len =< room THEN flash_write_page(memory, address, len, data)
     ELSE flash_write_page(flash_write_page(memory, address, room, data),
            PageOf(address) + PageSize, len - room,
            [i \in 0..(len - room - 1) |-> data[i + room]])

\* tinyFlash_Read: where the live record of a key is, or the sector's end.
Search(memory, sector, key) ==
  LET From[address \in Nat] ==
        IF address > sector + SectorSize - 3 \/ memory[address] \in {0, Erased}
        THEN sector + SectorSize
        ELSE IF memory[address] = key /\ Live(memory, address) THEN address
        ELSE From[address + RecordSize(memory, address)]
  IN From[sector + TINY_SECHAD_SIZE]

ValueAt(memory, address) ==
  [i \in 1..memory[address + 2] |-> memory[address + 2 + i]]

\* The flash without a key: 0 is programmed over ~Key.
Deleted(key) ==
  IF Search(flash, used, key) = addr_end THEN flash
  ELSE flash_write_page(flash, Search(flash, used, key) + 1, 1, [i \in {0} |-> 0])
-----------------------------------------------------------------------------
(* The operations.  The interface is called from one place at a time. *)

\* The test of tinyFlash_Init.
InUse == IF flash[Start] # Erased THEN Start ELSE Second

tinyFlash_Init ==
  /\ pc = "off"
  /\ used' = InUse
  /\ pc' = "idle"
  /\ sound' = (sound \/ \A a \in Cells : SectorOf(a) \in {Start, Second} => flash[a] = Erased)
  /\ UNCHANGED <<flash, request, addr_start, new_addr_start, dirty>>

\* tinyFlash_Read without a length
Delete(key) ==
  /\ pc = "idle"
  /\ flash' = Deleted(key)
  /\ UNCHANGED <<used, pc, request, addr_start, new_addr_start, dirty, sound>>

\* tinyFlash_Write deletes the old value, then looks for an erased place.
BeginWrite(key, value) ==
  /\ pc = "idle"
  /\ flash' = Deleted(key)
  /\ request' = {<<key, value>>}
  /\ pc' = "scan"
  /\ addr_start' = used + TINY_SECHAD_SIZE
  /\ dirty' = FALSE
  /\ UNCHANGED <<used, new_addr_start, sound>>

\* Mutant of Full: a record that fills the sector to its last byte is refused.
FullTooEarly ==
  /\ pc = "scan"
  /\ \E r \in request : addr_start >= addr_end - 3 - Len(r[2])

\* The end of the sector is near.  dirty_data_len is never cleared and any
\* record of another key, live or not, counts as dirty: what was passed makes it
\* greater than zero, and something always was.
Full ==
  /\ pc = "scan"
  /\ \E r \in request : addr_start > addr_end - 3 - Len(r[2])

BeginSwap ==
  /\ Full /\ dirty
  /\ pc' = "copy"
  /\ addr_start' = used + TINY_SECHAD_SIZE
  /\ new_addr_start' = swap + TINY_SECHAD_SIZE
  /\ sound' = (sound /\ \A a \in Cells : SectorOf(a) = swap => flash[a] = Erased)
  /\ UNCHANGED <<flash, used, request, dirty>>

\* The record is put together in _buf and written to the flash.  The memcpy of a
\* value that is too long overruns _buf by a byte or two, into variables that are
\* not modelled or ones that are: the program goes on with its own, or is lost.
StoreRecord ==
  /\ pc = "scan" /\ ~Full
  /\ flash[addr_start] = Erased
  /\ \E r \in request :
       /\ flash' = flash_write(flash, addr_start, Len(r[2]) + 3, Record(r[1], r[2]))
       /\ \/ ~TooLong(r[2]) /\ pc' = "idle" /\ UNCHANGED sound
          \/ TooLong(r[2]) /\ pc' \in {"idle", "lost"} /\ sound' = FALSE
  /\ request' = {}
  /\ UNCHANGED <<used, addr_start, new_addr_start, dirty>>

PassRecord ==
  /\ pc = "scan" /\ ~Full
  /\ flash[addr_start] \notin {0, Erased}
  /\ addr_start' = addr_start + RecordSize(flash, addr_start)
  /\ dirty' = (dirty \/ \E r \in request : flash[addr_start + 1] # Inverse(r[1]))
  /\ UNCHANGED <<flash, used, pc, request, new_addr_start, sound>>

\* A byte that no record begins with ends the write, which reports success.
GiveUp ==
  /\ pc = "scan" /\ ~Full
  /\ flash[addr_start] = 0
  /\ pc' = "idle"
  /\ request' = {}
  /\ UNCHANGED <<flash, used, addr_start, new_addr_start, dirty, sound>>

WriteStep == BeginSwap \/ StoreRecord \/ PassRecord \/ GiveUp
-----------------------------------------------------------------------------
(* tinyFlash_Swap *)

AllCopied == addr_start > addr_end - 3 \/ flash[addr_start] \in {0, Erased}

\* What a copy sends.  One page is read into _buf: a longer record ends with what
\* lies behind that.
Behind_buf == [PageSize..(RecordSize(flash, addr_start) - 1) -> Byte]
Copied(behind) ==
  [i \in 0..(RecordSize(flash, addr_start) - 1) |->
     IF i < PageSize THEN flash[addr_start + i] ELSE behind[i]]

CopyRecord ==
  /\ pc = "copy" /\ ~AllCopied
  /\ addr_start' = addr_start + RecordSize(flash, addr_start)
  /\ \/ /\ Live(flash, addr_start)
        /\ \E behind \in Behind_buf :
             flash' = flash_write(flash, new_addr_start,
                                  RecordSize(flash, addr_start), Copied(behind))
        /\ new_addr_start' = new_addr_start + RecordSize(flash, addr_start)
     \/ ~Live(flash, addr_start) /\ UNCHANGED <<flash, new_addr_start>>
  /\ UNCHANGED <<used, pc, request, dirty, sound>>

EndCopy ==
  /\ pc = "copy" /\ AllCopied
  /\ pc' = "mark"
  /\ UNCHANGED <<flash, used, request, addr_start, new_addr_start, dirty, sound>>

\* Mutant: the mark is forgotten.
SkipMark ==
  /\ pc = "mark"
  /\ pc' = "erase"
  /\ UNCHANGED <<flash, used, request, addr_start, new_addr_start, dirty, sound>>

Marked == flash_write_page(flash, swap, 1, [i \in {0} |-> InUseMark])
MarkNew ==
  /\ pc = "mark"
  /\ flash' = Marked
  /\ pc' = "erase"
  /\ UNCHANGED <<used, request, addr_start, new_addr_start, dirty, sound>>

EraseOld ==
  /\ pc = "erase"
  /\ flash' = flash_erase_sector(flash, used)
  /\ used' = swap
  /\ pc' = "scan"
  /\ addr_start' = swap + TINY_SECHAD_SIZE
  /\ UNCHANGED <<request, new_addr_start, dirty, sound>>

SwapStep == CopyRecord \/ EndCopy \/ MarkNew \/ EraseOld
-----------------------------------------------------------------------------
(* Formatting, and a loss of power *)

\* tinyFlash_Format leaves the first sector in use without its mark.
BeginFormat ==
  /\ pc = "idle"
  /\ pc' = "format"
  /\ UNCHANGED <<flash, used, request, addr_start, new_addr_start, dirty, sound>>

EraseUsed ==
  /\ pc = "format"
  /\ flash' = flash_erase_sector(flash, used)
  /\ pc' = "format swap"
  /\ sound' = (used = Second)
  /\ UNCHANGED <<used, request, addr_start, new_addr_start, dirty>>

EraseSwap ==
  /\ pc = "format swap"
  /\ flash' = flash_erase_sector(flash, swap)
  /\ pc' = "idle"
  /\ UNCHANGED <<used, request, addr_start, new_addr_start, dirty, sound>>

\* What the flash operation that is next leaves when it is interrupted.
TornWrites ==
  CASE pc = "idle" -> UNION {Torn(Deleted(key), flash) : key \in Keys}
    [] pc = "scan" /\ ~Full /\ flash[addr_start] = Erased ->
         UNION {Torn(flash_write(flash, addr_start, Len(r[2]) + 3, Record(r[1], r[2])),
                     flash) : r \in request}
    [] pc = "copy" /\ ~AllCopied /\ Live(flash, addr_start) ->
         UNION {Torn(flash_write(flash, new_addr_start,
                                 RecordSize(flash, addr_start), Copied(behind)),
                     flash) : behind \in Behind_buf}
    [] pc = "mark" -> Torn(Marked, flash)
    [] pc \in {"erase", "format"} -> Torn(flash, flash_erase_sector(flash, used))
    [] pc = "format swap" -> Torn(flash, flash_erase_sector(flash, swap))
    [] OTHER -> {}

\* The torn states that tinyFlash_Init takes for whole ones: a record without a
\* Key or with another Len, or one that is too long anyway; a sector in part
\* erased by a format; and an old first sector that is not whole but still marked.
Harmful ==
  \/ /\ pc = "scan" /\ flash' # flash
     /\ \E r \in request : \/ flash'[addr_start] = Erased
                          \/ flash'[addr_start + 2] # Len(r[2])
                          \/ TooLong(r[2])
  \/ pc = "format" /\ flash' # flash
  \/ pc = "erase" /\ used = Start /\ flash'[Start] # Erased /\ flash' # flash

PowerLoss ==
  /\ pc \notin {"off", "lost"}
  /\ flash' \in {flash} \cup TornWrites
  /\ pc' = "off"
  /\ request' = {}
  /\ used' = Start
  /\ addr_start' = 0 /\ new_addr_start' = 0 /\ dirty' = FALSE
  /\ sound' = (sound /\ ~Harmful)
-----------------------------------------------------------------------------
Init ==
  /\ flash = [a \in Cells |-> Erased]
  /\ used = Start
  /\ pc = "off"
  /\ request = {}
  /\ addr_start = 0 /\ new_addr_start = 0
  /\ dirty = FALSE
  /\ sound = TRUE

Next ==
  \/ tinyFlash_Init \/ BeginFormat \/ EraseUsed \/ EraseSwap
  \/ \E key \in Keys : Delete(key) \/ \E value \in Values : BeginWrite(key, value)
  \/ WriteStep \/ SwapStep
  \/ PowerLoss

\* A write is a loop that nothing holds up.
Fairness == WF_vars(WriteStep \/ SwapStep)

Spec == Init /\ [][Next]_vars
FairSpec == Spec /\ Fairness
-----------------------------------------------------------------------------
(* Properties *)

\* The key's value in the sector that is in use or, with the power off, that
\* tinyFlash_Init will take.
Stored(key) ==
  LET sector == IF pc = "off" THEN InUse ELSE used
      found == Search(flash, sector, key)
  IN IF found = sector + SectorSize THEN Nothing ELSE ValueAt(flash, found)

\* Through swaps, deletions and power losses the sectors keep the promise of
\* KeyStore, as long as the store is sound.  Four things end that: a value that is
\* too long for _buf, a loss of power that is Harmful, a swap into a sector that an
\* earlier interrupted swap has left dirty (tinyFlash_Init does not erase it), and
\* a format while the first sector is in use (the next start takes the second).
Promise == INSTANCE KeyStore WITH store <- [key \in Keys |-> Stored(key)]

KeepsKeys == Promise!Spec

\* "no space available" is what the branch of tinyFlash_Write that returns -1
\* says (tinyFlash.c:141): a write comes to an end, also in a full store.
WriteReturns ==
  pc \in {"scan", "copy", "mark", "erase"} ~> pc \in {"idle", "off"} \/ ~sound
=============================================================================
