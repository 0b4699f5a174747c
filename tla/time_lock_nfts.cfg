\* Two beneficiaries, an NFT of two collections, three agreements, fairness.
CONSTANTS
    Users = {alice, bob}
    Assets = {moonbird, punk}
    Coins = {}
    WETH = weth
    NFTs = {moonbird, punk}
    CollectionOf <- MCCollectionOf
    MoonBirds = moonbird
    WPunks = punk
    NoOne = NoOne
    XToken = XToken
    Lock = Lock
    Strategy <- MCStrategy
    MIN_WAIT_TIME = 1
    Start = 2
    MaxTime = 5
    Amounts = {1, 2}
    MaxAgreements = 3
SPECIFICATION FairTimeLockSpec
INVARIANTS
    NFTsBacked
PROPERTIES
    EventuallyPaid
