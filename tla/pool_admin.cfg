\* One ERC20 asset, one NFT: pauses, freezes and the auction strategy.
CONSTANTS
    alice = alice
    bob = bob
    t1 = t1
    t2 = t2
    weth = weth
    usd = usd
    bayc = bayc
    treasury = treasury
    NoOwner = NoOwner
    Users = {alice, bob}
    Tokens = {t1}
    MaxTime = 2
    ERC20s = {weth}
    WETH = weth
    Collections = {bayc}
    CollectionOf <- MCCollectionOf
    Treasury = treasury
    LTV <- MCLTV
    LT <- MCLT
    Bonus <- MCBonus
    ProtocolFee <- MCProtocolFee
    SupplyCap <- AdminSupplyCap
    BorrowCap <- NFTBorrowCap
    BorrowingEnabled = {weth}
    InitialPrice <- InitialPriceOf
    PriceMoves <- AdminPriceMoves
    AuctionMultiplier <- MCAuctionMultiplier
    Wad = 1000
    MaxHealthFactor = 10000000
    CloseThreshold = 950
    RecoveryThreshold = 1500
    Amounts <- NFTAmounts
    Switchable <- AdminSwitchable
    AuctionSwitchable = {bayc}
SYMMETRY MCUserSymmetry
SPECIFICATION PoolSpec
PROPERTIES
    PausedReserveStandsStill
    FrozenReserveWindsDown
