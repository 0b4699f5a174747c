------------------------------- MODULE MCPool -------------------------------
(***************************************************************************)
(* Values of the constants of Pool for TLC.  Amounts are small enough for  *)
(* the roundings of the code to show.                                      *)
(***************************************************************************)
EXTENDS Pool, TLC

CONSTANTS
    alice, bob,      \* users
    t1, t2,          \* tokens of the collection
    weth, usd, bayc, \* reserves
    treasury

MCUsers == {alice, bob}
MCSymmetry == Permutations({alice, bob}) \cup Permutations({t1, t2})
MCUserSymmetry == Permutations({alice, bob})

MCCollectionOf == [t \in Tokens |-> bayc]

ByReserve(w, s, n) == [r \in Reserves |-> CASE r = weth -> w [] r = usd -> s [] r = bayc -> n]

MCLTV == ByReserve(8000, 7000, 5000)
MCLT == ByReserve(9000, 8500, 8000)
MCBonus == ByReserve(10500, 10750, 11000)
MCProtocolFee == ByReserve(1000, 3000, 1000)

\* Auctions start at one and a half times the floor price.
MCAuctionMultiplier == [d \in 0 .. MaxTime |-> CASE d = 0 -> 15000 [] OTHER -> 5000]

InitialPriceOf == ByReserve(10, 30, 10000)

\* The NFT run: one ERC20 asset, the price of the NFTs falls and recovers, first
\* to below the recovery threshold of the auctions, then beyond.
NFTSupplyCap == ByReserve(750, 0, 2)
NFTBorrowCap == [a \in ERC20s |-> 300]
NFTPriceMoves == ByReserve({}, {}, {<<10000, 3000>>, <<3000, 5000>>, <<5000, 9000>>})
NFTAmounts == {300}

\* The ERC20 run: two assets, one to borrow, no NFT; the price of the other falls
\* to just below health, where half of the debt may be liquidated, and beyond.
ERC20SupplyCap == ByReserve(300, 100, 0)
ERC20BorrowCap == [a \in ERC20s |-> 200]
ERC20PriceMoves == ByReserve({}, {<<30, 23>>, <<23, 20>>}, {})
ERC20Amounts == {100}

\* The admin run: one asset and one NFT, flags and auction strategy switched
\* at any moment; the price falls once.
AdminSupplyCap == ByReserve(450, 0, 1)
AdminPriceMoves == ByReserve({}, {}, {<<10000, 3000>>})
AdminSwitchable == {weth, bayc}
=============================================================================
