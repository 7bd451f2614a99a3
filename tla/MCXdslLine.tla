----------------------------- MODULE MCXdslLine -----------------------------
(* Small instances of XdslLine for TLC; the constants are in the cfg files. *)
EXTENDS XdslLine, TLC

\* Threads are interchangeable, and helpers are; rows have numbers.
Symmetry == Permutations(Threads) \cup Permutations(Helpers)
=============================================================================
