---------------------------- MODULE MCXdslReport ----------------------------
(* Small instances of XdslReport for TLC; the constants are in the cfgs.   *)
EXTENDS XdslReport, TLC

\* Reporters are interchangeable.
Symmetry == Permutations(Reporters)
=============================================================================
