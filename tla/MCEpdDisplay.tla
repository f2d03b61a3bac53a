---------------------------- MODULE MCEpdDisplay ----------------------------
(* Small panels, clocks and command sets for EpdDisplay. *)
EXTENDS EpdDisplay

\* A detected UC8151 panel, a detected SSD16xx panel, and a 3.5 inch panel, which
\* has no detection of its own and needs command 0xE0.  (It may be taken for a panel
\* of its family as well, which is where command 0xE0 with model 2 takes this one.)
Detected == {[model |-> 1, detects |-> 1], [model |-> 2, detects |-> 2]}
Undetected == {[model |-> 5, detects |-> 1]}
AllPanels == Detected \union Undetected
=============================================================================
