------------------------------- MODULE TornFlash -------------------------------
(***************************************************************************)
(* What a loss of power makes of a flash operation.  A program clears bits *)
(* and an erase sets them; of the bits an interrupted one was to change,   *)
(* any may be changed and any may not.                                     *)
(***************************************************************************)
EXTENDS NorFlash

CONSTANTS
  Or(_, _),        \* bitwise or of two bytes
  TornBits         \* which bits of each cell are left set: functions on cells

ASSUME TornAssumption ==
  /\ TornBits \subseteq Flash
  /\ \A a, b \in Byte : Or(a, b) \in Byte /\ And(a, Or(a, b)) = a

\* Between the contents with fewer bits set, after a program or before an erase,
\* and those with more, before the program or after the erase.
Between(fewer, more, bits) ==
  [a \in Cells |-> And(more[a], Or(fewer[a], bits[a]))]

\* All that may be found in place of the one or the other.
Torn(fewer, more) == {Between(fewer, more, bits) : bits \in TornBits}
=============================================================================
