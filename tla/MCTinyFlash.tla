------------------------------ MODULE MCTinyFlash ------------------------------
(* A small TinyFlash: three-bit bytes, pages of six, sectors of twelve. *)
EXTENDS TinyFlash

Bytes == 0..7
Bit(n, k) == (n \div k) % 2
BitAnd(a, b) ==
  Bit(a, 1) * Bit(b, 1) + 2 * Bit(a, 2) * Bit(b, 2) + 4 * Bit(a, 4) * Bit(b, 4)
BitOr(a, b) == a + b - BitAnd(a, b)

\* One byte, or two of which the first looks erased; and four, one too many.
TwoValues == {<<4>>, <<7, 0>>}
FourBytes == <<4, 7, 0, 4>>
LongValues == TwoValues \cup {FourBytes}

\* Bits left set by an interrupted operation, besides all and none of them: one in
\* each cell; and those of all cells but the first of a sector.
SomeTornBits ==
  {[a \in Cells |-> 1], [a \in Cells |-> IF a % SectorSize = 0 THEN 0 ELSE Erased]}

\* The writes explored: a second and a third value for one key, one of four bytes
\* only in an empty store, and none at all to a store that is no longer sound,
\* which is then only formatted and started again.
Explored ==
  /\ request' \subseteq {<<1, value>> : value \in Values} \cup {<<2, <<7, 0>>>>}
  /\ <<1, FourBytes>> \in request' => \A key \in Keys : Stored(key) = Nothing
  /\ \/ sound
     \/ IF pc = "idle" THEN flash' = flash /\ pc' # "scan" ELSE pc' # "off"

\* Three values of two bytes written one after another, without a loss of power.
LongWrites ==
  /\ pc' \notin {"off", "format"}
  /\ request' \subseteq Keys \X {<<7, 0>>}
=============================================================================
