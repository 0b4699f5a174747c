\* Two users, one ERC20 asset, two NFTs of one collection, auctions.
CONSTANTS
    alice = alice
    bob = bob
    t1 = t1
    t2 = t2
    weth = weth
    usd = usd
    bayc = bayc
    treasury = treasury
    NoOwner = NoOwner
    Users = {alice, bob}
    Tokens = {t1, t2}
    MaxTime = 2
    ERC20s = {weth}
    WETH = weth
    Collections = {bayc}
    CollectionOf <- MCCollectionOf
    Treasury = treasury
    LTV <- MCLTV
    LT <- MCLT
    Bonus <- MCBonus
    ProtocolFee <- MCProtocolFee
    SupplyCap <- NFTSupplyCap
    BorrowCap <- NFTBorrowCap
    BorrowingEnabled = {weth}
    InitialPrice <- InitialPriceOf
    PriceMoves <- NFTPriceMoves
    AuctionMultiplier <- MCAuctionMultiplier
    Wad = 1000
    MaxHealthFactor = 10000000
    CloseThreshold = 950
    RecoveryThreshold = 1500
    Amounts <- NFTAmounts
    Switchable = {}
    AuctionSwitchable = {}
SYMMETRY MCSymmetry
SPECIFICATION PoolSpec
INVARIANTS
    PoolTypeOK
    BorrowingFlagMatchesDebt
    CollectionFlagMatchesTokens
    AuctionedTokensAreCollateral
    HealthyMeansNFTsSafe
PROPERTIES
    OnlyMarketEndangers
    AuctionNeverRevives
