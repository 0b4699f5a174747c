--------------------------- MODULE MCNTokenLedger ---------------------------
(***************************************************************************)
(* Values of the constants of NTokenLedger for TLC.                        *)
(***************************************************************************)
EXTENDS NTokenLedger, TLC

MCSymmetry == Permutations(Users) \cup Permutations(Tokens)
=============================================================================
