--------------------------- MODULE MCHalReadout ----------------------------
(* Every pair of parameters of every object, a driver whose values move on *)
(* twice, and a line that retrains between standards of every width, one   *)
(* of them unknown to the client.                                          *)
EXTENDS HalReadout

MCKinds == {"Line", "Channel", "PTM", "ATM"}
MCModes ==
    {"T1.413", "G.992.1_Annex_C", "G.992.2", "G.992.3_Annex_L", "G.993.1",
     "G.993.2_Annex_C", "G.9701"}

\* The octets worked out for each standard alone name its bits: the whole
\* table of xtse_get_bit_position, against the comments of dsl_xtse_bit.
ASSUME EveryStandardPlaced ==
    \A s \in KnownStandards : Decoded(Octets({s})) = BitsOf[s]
=============================================================================
