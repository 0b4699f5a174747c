----------------------------- MODULE MCTimeLock -----------------------------
(***************************************************************************)
(* Values of the constants of TimeLock for TLC.                            *)
(***************************************************************************)
EXTENDS TimeLock, TLC

MCSymmetry == Permutations(Users)

\* Amounts below, between and above the thresholds; more than one
\* NFT or an amount of two in a period exceeds its limit.
MCStrategy == [a \in Assets |->
    [minThreshold |-> 2, midThreshold |-> 3,
     minWaitTime |-> 1, midWaitTime |-> 2, maxWaitTime |-> 3,
     poolPeriodLimit |-> IF a \in Coins THEN 2 ELSE 1,
     poolPeriodWaitTime |-> 1, period |-> 2]]

\* One NFT of each collection.
MCCollectionOf == [t \in NFTs |-> t]
=============================================================================
