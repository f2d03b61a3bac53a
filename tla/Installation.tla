----------------------------- MODULE Installation -----------------------------
(***************************************************************************)
(* What the update service promises, without its commands, buffers and     *)
(* addresses: the firmware changes as a whole, into what is in the bank,   *)
(* or it is broken for good.                                               *)
(***************************************************************************)
CONSTANT Images        \* what a firmware bank can hold

VARIABLES
  firmware,            \* what a start would run
  bank,                \* what an installation would copy
  condition            \* "whole", "installing" or "broken"

vars == <<firmware, bank, condition>>

\* The central fills the bank.
Receive ==
  /\ condition = "whole"
  /\ bank' \in Images
  /\ UNCHANGED <<firmware, condition>>

\* An installation overwrites the firmware bit by bit and leaves the bank.
Overwrite ==
  /\ condition \in {"whole", "installing"}
  /\ firmware' \in Images
  /\ condition' = "installing"
  /\ UNCHANGED bank

\* It ends only when the firmware is all of the bank.
Finish ==
  /\ condition = "installing"
  /\ firmware = bank
  /\ condition' = "whole"
  /\ UNCHANGED <<firmware, bank>>

Break ==
  /\ condition = "installing"
  /\ condition' = "broken"
  /\ UNCHANGED <<firmware, bank>>

Init ==
  /\ firmware \in Images
  /\ bank \in Images
  /\ condition = "whole"

Next == Receive \/ Overwrite \/ Finish \/ Break

Spec == Init /\ [][Next]_vars
=============================================================================
