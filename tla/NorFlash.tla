------------------------------- MODULE NorFlash -------------------------------
(***************************************************************************)
(* The serial NOR flash as the drivers of components/drivers/8258/flash.c  *)
(* use it: a sector is erased as a whole, a page is programmed by clearing *)
(* bits, and a page program that runs past the end of its page goes on at  *)
(* the page's beginning.                                                   *)
(***************************************************************************)
EXTENDS Integers

CONSTANTS
  PageSize,      \* 0x100
  SectorSize,    \* 0x1000
  FlashSize,
  Byte,          \* the values of a byte
  Erased,        \* the value of an erased byte, 0xff
  And(_, _)      \* bitwise and of two bytes

Cells == 0..(FlashSize - 1)
Flash == [Cells -> Byte]

ASSUME FlashAssumption ==
  /\ PageSize \in Nat \ {0}
  /\ SectorSize \in Nat \ {0} /\ SectorSize % PageSize = 0
  /\ FlashSize \in Nat \ {0}
  /\ Erased \in Byte
ASSUME AndAssumption ==
  /\ \A a, b \in Byte : And(a, b) \in Byte
  /\ \A b \in Byte : And(Erased, b) = b

\* The first cell of the sector or page that holds an address.
SectorOf(address) == address - (address % SectorSize)
PageOf(address) == address - (address % PageSize)

\* flash_erase_sector: the whole sector that holds the address.
flash_erase_sector(flash, address) ==
  [a \in Cells |-> IF SectorOf(a) = SectorOf(address) THEN Erased ELSE flash[a]]

\* The chip keeps a page of what it is sent: of the bytes for one cell, the last.
LastSent(i, len) == i + PageSize * ((len - 1 - i) \div PageSize)

\* flash_write_page: the first len bytes of data are programmed from the address
\* on, modulo the page.
flash_write_page(flash, address, len, data) ==
  [a \in Cells |->
     LET i == (a - address) % PageSize
     IN IF PageOf(a) = PageOf(address) /\ i < len
        THEN And(flash[a], data[LastSent(i, len)]) ELSE flash[a]]

\* flash_read_page: len bytes from the address on.
flash_read_page(flash, address, len) ==
  [i \in 0..(len - 1) |-> flash[address + i]]
=============================================================================
