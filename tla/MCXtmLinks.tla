----------------------------- MODULE MCXtmLinks -----------------------------
(***************************************************************************)
(* Instances of XtmLinks for TLC.  Three instance numbers, so that they    *)
(* wrap after three additions or one; two links at once; two rows of       *)
(* Ethernet.Link, of which the second is taken for the first; two failing  *)
(* calls or crashes.                                                       *)
(***************************************************************************)
EXTENDS XtmLinks

MCSettings == {"PeakCellRate", "MaximumBurstSize"}
MCValues == {1, 2}
MCEthIds == {1, 11}
MCStartNumbers == {3}
=============================================================================
