-------------------------------- MODULE MCOta --------------------------------
(* A small flash for Ota: one-bit bytes, pages of two, sectors of four. *)
EXTENDS Ota

Bit == {0, 1}
BitAnd(a, b) == a * b

\* The running firmware and what lies behind the bank hold zeros; the bank is
\* erased.
Leftovers == {[a \in Cells |-> IF a \in Bank THEN Erased ELSE 0]}

SmallChunks == {<<0>>, <<1, 0>>}

\* None, just below the bank, at its start, inside a page, in the last page,
\* behind the bank.
SomeAddresses == {0, 7, 8, 13, 14, 16}
=============================================================================
