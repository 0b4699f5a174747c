--------------------------- MODULE MCNTokenRights ---------------------------
(***************************************************************************)
(* Values of the constants of NTokenRights for TLC.                        *)
(***************************************************************************)
EXTENDS NTokenRights, TLC

MCSymmetry == Permutations(Users) \cup Permutations(Tokens) \cup Permutations(Delegates)
=============================================================================
