\* Two beneficiaries, one coin, three agreements, over three periods.
CONSTANTS
    Users = {alice, bob}
    Assets = {weth}
    Coins = {weth}
    WETH = weth
    NFTs = {}
    CollectionOf <- MCCollectionOf
    MoonBirds = moonbird
    WPunks = punk
    NoOne = NoOne
    XToken = XToken
    Lock = Lock
    Strategy <- MCStrategy
    MIN_WAIT_TIME = 1
    Start = 2
    MaxTime = 5
    Amounts = {1, 2}
    MaxAgreements = 3
SYMMETRY MCSymmetry
SPECIFICATION TimeLockSpec
INVARIANTS
    CoinsBacked
    WindowLimit
PROPERTIES
    AgreementsAreKept
    PaidInFull
