-------------------------------- MODULE MCBoot --------------------------------
(* Boot with the firmware's own bytes in a small flash. *)
EXTENDS Boot

EightBits == 0..7
Bytes == SUBSET EightBits
BitAnd(a, b) == a \cap b
BitOr(a, b) == a \cup b

\* A number's byte.
Bits(n) == {k \in EightBits : (n \div 2^k) % 2 = 1}
Packed(numbers) == [i \in DOMAIN numbers |-> Bits(numbers[i])]

\* MAGIC_WORD 0xABCFF123 and the length 19, both little-endian.
PackedHeader == Packed(<<35, 241, 207, 171, 19, 0, 0, 0>>)
DefaultOptions == Packed(<<0, 0, 0, 1, 1, 6, 10, 0, 5, 10>>)

Blank == [a \in Cells |-> Erased]
Holding(header, options) ==
  LET bytes == header \o options
      record == [i \in 0..18 |-> IF i < 18 THEN bytes[i + 1] ELSE {}]
  IN flash_write_page(Blank, Address, 19, Sealed(record))

\* The settings sector: blank, the defaults, a record an earlier version saved,
\* a record of another length, and one of another program.
SomeSettings ==
  {Blank,
   Holding(PackedHeader, DefaultOptions),
   Holding(PackedHeader, Packed(<<1, 1, 1, 0, 0, 16, 20, 255, 9, 1>>)),
   Holding(Packed(<<35, 241, 207, 171, 18, 0, 0, 0>>), DefaultOptions),
   Holding(Packed(<<0, 0, 0, 0, 19, 0, 0, 0>>), DefaultOptions)}

\* The address sector: programmed, or all or its last two bytes erased while
\* the settings sector holds the defaults.
EightBytes == [i \in 0..7 |-> Bits(16 * i + 1)]
FirstContents ==
  {flash_write_page(f, CFG_ADR_MAC, 8, EightBytes) : f \in SomeSettings}
    \cup {flash_write_page(Holding(PackedHeader, DefaultOptions), CFG_ADR_MAC, n,
                           EightBytes) : n \in {0, 6}}

CompanyId == [i \in 3..5 |-> Bits(<<56, 193, 164>>[i - 2])]

\* Ordinary draws, and ones that look erased.
Draws(n) == {[i \in 0..(n - 1) |-> Bits(3 + i)], [i \in 0..(n - 1) |-> Erased]}
DrawsOfThree == Draws(3)
DrawsOfTwo == Draws(2)

\* Bits left set: in no cell or in all; half of each; behind the first bytes of
\* the address or of the record, its header, or all of it but the checksum; before
\* the options; and in two bytes that are 0 in the defaults, which the exclusive
\* or does not notice.
Bytewise(cells) == [a \in Cells |-> IF a \in cells THEN Erased ELSE {}]
SomeTornBits ==
  {Bytewise(a..(FlashSize - 1)) : a \in {0, FlashSize, CFG_ADR_MAC + 1, CFG_ADR_MAC + 4,
     CFG_ADR_MAC + 7, Address + 1, Address + 8, Address + 18}}
    \cup {Bytewise(0..(Address + 7)), Bytewise({Address + 8, Address + 9})}
    \cup {[a \in Cells |-> 0..3]}
=============================================================================
