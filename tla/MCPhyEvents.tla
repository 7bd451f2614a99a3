---------------------------- MODULE MCPhyEvents ----------------------------
(* Small instances of PhyEvents for TLC.                                   *)
EXTENDS PhyEvents

\* What the callback understands, and one value of the HAL schema.
AllWords == {"up", "training", "down", "Up"}
=============================================================================
