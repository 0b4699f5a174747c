\* Two users, two ERC20 assets, no NFT: liquidations, repayments, transfers.
CONSTANTS
    alice = alice
    bob = bob
    t1 = t1
    t2 = t2
    weth = weth
    usd = usd
    bayc = bayc
    treasury = treasury
    NoOwner = NoOwner
    Users = {alice, bob}
    Tokens = {}
    MaxTime = 2
    ERC20s = {weth, usd}
    WETH = weth
    Collections = {}
    CollectionOf <- MCCollectionOf
    Treasury = treasury
    LTV <- MCLTV
    LT <- MCLT
    Bonus <- MCBonus
    ProtocolFee <- MCProtocolFee
    SupplyCap <- ERC20SupplyCap
    BorrowCap <- ERC20BorrowCap
    BorrowingEnabled = {weth}
    InitialPrice <- InitialPriceOf
    PriceMoves <- ERC20PriceMoves
    AuctionMultiplier <- MCAuctionMultiplier
    Wad = 1000
    MaxHealthFactor = 10000000
    CloseThreshold = 950
    RecoveryThreshold = 1500
    Amounts <- ERC20Amounts
    Switchable = {}
    AuctionSwitchable = {}
SYMMETRY MCUserSymmetry
SPECIFICATION PoolSpec
INVARIANTS
    LiquidityConserved
PROPERTIES
    LiquidationIsFair
