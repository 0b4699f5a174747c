---------------------------- MODULE MarketConfig ----------------------------
(***************************************************************************)
(* The market configurations of src/market-config: the tokens a market can *)
(* list, the interest rate, auction and time lock strategies, the risk     *)
(* parameters of every reserve, and for every network the configuration    *)
(* the deployment scripts read with getParaSpaceConfig().                  *)
(*                                                                         *)
(* Amounts are in the units of the source: percentages in basis points,    *)
(* rates (27 decimals in the source) in basis points too, auction          *)
(* multipliers in hundredths, auction steps in units of 10^-8 rounded      *)
(* down, thresholds of the time lock in 10^dec base units divided by       *)
(* scale.  Addresses are left out: a token is in "tokens" when its address *)
(* is given and in "chainlink" when the address of its price feed is.      *)
(***************************************************************************)
EXTENDS Integers, Sequences, FiniteSets, TLC

\* The fungible tokens, in the order in which the scripts enumerate them.
ERC20TokenContractId ==
    << "DAI", "WETH", "USDC", "aUSDC", "USDT", "FRAX", "WBTC", "stETH", "wstETH",
       "bendETH", "cbETH", "rETH", "astETH", "awstETH", "aWETH", "APE", "sAPE", "cAPE",
       "yAPE", "cETH", "PUNK", "xcDOT", "xcUSDT", "stDOT", "USDCWH", "WETHWH", "WBTCWH",
       "WGLMR", "BLUR", "ARB", "GMX", "LINK", "UNI", "BAL", "AAVE", "RDNT", "MATIC",
       "stMATIC", "CRV", "WMATIC", "uBAYC", "uPPG" >>

\* The collections, in the same order.
ERC721TokenContractId ==
    << "DOODLE", "WPUNKS", "BAYC", "MAYC", "AZUKI", "CLONEX", "MOONBIRD", "MEEBITS",
       "OTHR", "UniswapV3", "BAKC", "SEWER", "PPG", "SFVLDR", "HVMTL", "BEANZ", "DEGODS",
       "EXP", "VSL", "KODA", "BLOCKS", "EXRP" >>

-----------------------------------------------------------------------------
\* optimalUsageRatio, baseVariableBorrowRate, variableRateSlope1 and 2, in basis points.
Rate(optimal, base, slope1, slope2) ==
    [optimal |-> optimal, base |-> base, slope1 |-> slope1, slope2 |-> slope2]

RateStrategies1 ==
  [ DAI |-> Rate(8000, 0, 400, 7500),
    USDC |-> Rate(9000, 0, 400, 6000),
    aUSDC |-> Rate(9000, 0, 400, 6000),
    USDT |-> Rate(9000, 0, 400, 7500),
    FRAX |-> Rate(8500, 1800, 800, 6000),
    WETH |-> Rate(7000, 250, 800, 9000),
    WBTC |-> Rate(8500, 1800, 800, 6000),
    APE |-> Rate(9000, 7000, 4500, 5500),
    cAPE |-> Rate(8500, 500, 1000, 2300),
    XCDOT |-> Rate(8000, 200, 2500, 2000),
    STDOT |-> Rate(8000, 200, 2500, 2000),
    XCUSDT |-> Rate(8000, 200, 2500, 2000),
    USDCWH |-> Rate(9000, 0, 400, 6000),
    WETHWH |-> Rate(7000, 250, 800, 9000),
    WBTCWH |-> Rate(8500, 1800, 800, 6000),
    WGLMR |-> Rate(8000, 0, 2500, 2500) ]

RateStrategies2 ==
  [ BLUR |-> Rate(9000, 0, 400, 6000),
    GMX |-> Rate(8000, 0, 400, 7500),
    ARB |-> Rate(8000, 0, 400, 7500),
    BAL |-> Rate(8000, 0, 400, 7500),
    LINK |-> Rate(8000, 0, 400, 7500),
    AAVE |-> Rate(8000, 0, 400, 7500),
    UNI |-> Rate(8000, 0, 400, 7500),
    RDNT |-> Rate(9000, 0, 400, 6000),
    MATIC |-> Rate(9000, 0, 400, 6000),
    STMATIC |-> Rate(9000, 0, 400, 6000),
    CRV |-> Rate(9000, 0, 400, 6000),
    WMATIC |-> Rate(7000, 250, 800, 9000),
    NFT |-> Rate(4500, 0, 700, 30000),
    STETH |-> Rate(8800, 2000, 800, 6000),
    XETH |-> Rate(6500, 250, 700, 10000) ]

RateStrategies == RateStrategies1 @@ RateStrategies2

-----------------------------------------------------------------------------
\* Multipliers of the floor price, the two steps by which it falls, seconds per tick.
Auction(max, minExp, min, stepLinear, stepExp, tick) ==
    [max |-> max, minExp |-> minExp, min |-> min,
     stepLinear |-> stepLinear, stepExp |-> stepExp, tick |-> tick]

AuctionStrategies1 ==
  [ BAYC |-> Auction(250, 120, 80, 1102276, 2022592, 900),
    WPunks |-> Auction(500, 120, 80, 1149268, 4100348, 900),
    MAYC |-> Auction(200, 120, 80, 1830333, 2337453, 900),
    Doodles |-> Auction(350, 120, 70, 2106053, 4508812, 900),
    Othr |-> Auction(300, 190, 80, 6875000, 2854740, 900),
    CloneX |-> Auction(300, 150, 80, 2584044, 2558746, 900),
    Moonbird |-> Auction(200, 110, 80, 1136311, 2264429, 900),
    Meebits |-> Auction(500, 120, 80, 1144912, 4084807, 900),
    Azuki |-> Auction(300, 120, 70, 2957356, 5419596, 900),
    UniswapV3 |-> Auction(120, 100, 80, 310227, 20225927, 900),
    BAKC |-> Auction(200, 120, 80, 1102276, 2022592, 900),
    SEWER |-> Auction(250, 120, 80, 1102276, 2022592, 900),
    PudgyPenguins |-> Auction(260, 120, 80, 2500000, 4830000, 900) ]

AuctionStrategies2 ==
  [ StakefishValidator |-> Auction(100, 100, 95, 364, 4830000, 900),
    HVMTL |-> Auction(300, 120, 80, 6875000, 2854740, 900),
    BEANZ |-> Auction(260, 110, 70, 2500000, 5376257, 900),
    DEGODS |-> Auction(300, 120, 80, 6875000, 2854740, 900),
    EXP |-> Auction(300, 120, 80, 6875000, 2854740, 900),
    VSL |-> Auction(300, 120, 80, 6875000, 2854740, 900),
    KODA |-> Auction(300, 120, 80, 6875000, 2854740, 900),
    BLOCKS |-> Auction(1000, 110, 80, 625000, 4598489, 900),
    Exp |-> Auction(300, 120, 50, 5700000, 8000000, 900),
    EXRP |-> Auction(300, 120, 80, 6875000, 2854740, 900),
    Linear |-> Auction(300, 100, 50, 5000000, 10000000, 60),
    Zero |-> Auction(300, 100, 50, 5000000, 10000000, 60) ]

AuctionStrategies == AuctionStrategies1 @@ AuctionStrategies2

-----------------------------------------------------------------------------
\* Thresholds and period limit, and the waits in seconds, the same in every strategy.
Lock(min, mid, limit, dec, scale) ==
    [minThreshold |-> min, midThreshold |-> mid, poolPeriodLimit |-> limit,
     decimals |-> dec, scale |-> scale, minWaitTime |-> 12, midWaitTime |-> 7200,
     maxWaitTime |-> 21600, poolPeriodWaitTime |-> 600, period |-> 86400]

TimeLockStrategies1 ==
  [ USDC |-> Lock(105000, 400000, 1875000, 6, 1),
    aUSDC |-> Lock(105000, 400000, 1875000, 6, 1),
    USDT |-> Lock(105000, 200500, 400000, 6, 1),
    DAI |-> Lock(40000, 100000, 17500, 18, 1),
    FRAX |-> Lock(30000, 50000, 15000, 18, 1),
    WETH |-> Lock(515, 1550, 19000, 18, 10),
    uBAYC |-> Lock(1800000, 5400000, 64800000, 18, 1),
    uPPG |-> Lock(10000000, 30000000, 360000000, 18, 1),
    CBETH |-> Lock(515, 1550, 19000, 18, 10),
    RETH |-> Lock(515, 1550, 19000, 18, 10),
    STETH |-> Lock(515, 1550, 19000, 18, 10) ]

TimeLockStrategies2 ==
  [ ASTETH |-> Lock(515, 1550, 19000, 18, 10),
    WSTETH |-> Lock(515, 1550, 19000, 18, 10),
    BENDETH |-> Lock(515, 1550, 19000, 18, 10),
    AWSTETH |-> Lock(515, 1550, 19000, 18, 10),
    AWETH |-> Lock(515, 1550, 19000, 18, 10),
    CETH |-> Lock(515, 1550, 19000, 18, 10),
    PUNK |-> Lock(1000, 5000, 50000, 18, 1),
    WBTC |-> Lock(25, 28, 30, 8, 10),
    APE |-> Lock(10975, 20100, 30000, 18, 1),
    SAPE |-> Lock(10975, 53000, 1000000, 18, 1),
    CAPE |-> Lock(10975, 53000, 1000000, 18, 1) ]

TimeLockStrategies3 ==
  [ YAPE |-> Lock(10975, 53000, 1000000, 18, 1),
    XCDOT |-> Lock(1000, 5000, 50000, 10, 1),
    STDOT |-> Lock(1000, 5000, 50000, 10, 1),
    XCUSDT |-> Lock(105000, 200500, 400000, 6, 1),
    USDCWH |-> Lock(105000, 400000, 1875000, 6, 1),
    WETHWH |-> Lock(515, 1550, 19000, 18, 10),
    WBTCWH |-> Lock(25, 28, 30, 8, 10),
    WGLMR |-> Lock(1000, 5000, 50000, 18, 1),
    BLUR |-> Lock(71500, 118750, 200000, 18, 1),
    GMX |-> Lock(1000, 2000, 3000, 18, 1),
    ARB |-> Lock(10000, 20000, 30000, 18, 1) ]

TimeLockStrategies4 ==
  [ BAL |-> Lock(10000, 20000, 30000, 18, 1),
    RDNT |-> Lock(80000, 120000, 240000, 18, 1),
    LINK |-> Lock(10000, 20000, 30000, 18, 1),
    AAVE |-> Lock(1000, 2000, 3000, 18, 1),
    UNI |-> Lock(10000, 20000, 30000, 18, 1),
    MATIC |-> Lock(80000, 120000, 240000, 18, 1),
    STMATIC |-> Lock(80000, 120000, 240000, 18, 1),
    CRV |-> Lock(80000, 120000, 240000, 18, 1),
    WMATIC |-> Lock(80000, 120000, 240000, 18, 1),
    BAYC |-> Lock(2, 4, 100, 0, 1),
    MAYC |-> Lock(2, 6, 200, 0, 1) ]

TimeLockStrategies5 ==
  [ BAKC |-> Lock(4, 12, 57, 0, 1),
    Doodles |-> Lock(5, 20, 2, 0, 1),
    OTHR |-> Lock(10, 30, 230, 0, 1),
    CloneX |-> Lock(5, 20, 8, 0, 1),
    Moonbird |-> Lock(5, 20, 3, 0, 1),
    Meebits |-> Lock(5, 20, 13, 0, 1),
    Azuki |-> Lock(2, 6, 9, 0, 1),
    WPunks |-> Lock(2, 4, 2, 0, 1),
    UniswapV3 |-> Lock(5, 10, 50, 0, 1),
    SEWER |-> Lock(5, 20, 2, 0, 1),
    Penguins |-> Lock(4, 12, 2, 0, 1) ]

TimeLockStrategies6 ==
  [ StakefishValidator |-> Lock(4, 12, 2, 0, 1),
    HVMTL |-> Lock(10, 30, 100, 0, 1),
    BEANZ |-> Lock(5, 20, 40, 0, 1),
    DEGODS |-> Lock(4, 12, 10, 0, 1),
    EXP |-> Lock(10, 30, 100, 0, 1),
    VSL |-> Lock(20, 50, 100, 0, 1),
    KODA |-> Lock(4, 12, 10, 0, 1),
    BLOCKS |-> Lock(4, 12, 10, 0, 1),
    EXRP |-> Lock(20, 50, 100, 0, 1) ]

TimeLockStrategies ==
    TimeLockStrategies1 @@ TimeLockStrategies2 @@ TimeLockStrategies3 @@ TimeLockStrategies4
        @@ TimeLockStrategies5 @@ TimeLockStrategies6

-----------------------------------------------------------------------------
\* The risk parameters of a reserve; liquidationProtocolFeePercentage is 0 in all of them.
Reserve(impl, decimals, ltv, threshold, bonus, borrowing, factor, borrowCap, supplyCap, rate, auction, lock) ==
    [xTokenImpl |-> impl, reserveDecimals |-> decimals, baseLTVAsCollateral |-> ltv,
     liquidationThreshold |-> threshold, liquidationBonus |-> bonus,
     borrowingEnabled |-> borrowing, reserveFactor |-> factor, borrowCap |-> borrowCap,
     supplyCap |-> supplyCap, strategy |-> rate, auctionStrategy |-> auction,
     timeLockStrategy |-> lock]

ReserveParams1 ==
  [ DAI |-> Reserve("PTokenImpl", 18, 7700, 9000, 10400, TRUE, 1000, 0, 0,
        "DAI", "Zero", "DAI"),
    USDC |-> Reserve("PTokenImpl", 6, 8700, 8900, 10450, TRUE, 1000, 0, 0,
        "USDC", "Zero", "USDC"),
    AUSDC |-> Reserve("PTokenATokenImpl", 6, 8700, 8900, 10450, TRUE, 1000, 0, 0,
        "aUSDC", "Zero", "aUSDC"),
    USDT |-> Reserve("PTokenImpl", 6, 7500, 8000, 10500, TRUE, 1000, 0, 0,
        "USDT", "Zero", "USDT"),
    FRAX |-> Reserve("PTokenImpl", 18, 7500, 8000, 10500, TRUE, 1000, 0, 0,
        "FRAX", "Zero", "FRAX"),
    WETH |-> Reserve("PTokenImpl", 18, 8250, 8600, 10450, TRUE, 1000, 0, 0,
        "WETH", "Zero", "WETH"),
    WBTC |-> Reserve("PTokenImpl", 8, 7200, 8200, 10500, TRUE, 1000, 0, 0,
        "WBTC", "Zero", "WBTC"),
    APE |-> Reserve("PTokenImpl", 18, 5000, 7000, 10500, TRUE, 1000, 0, 18062500,
        "APE", "Zero", "APE") ]

ReserveParams2 ==
  [ SAPE |-> Reserve("PTokenSApeImpl", 18, 5000, 7000, 10500, FALSE, 2500, 0, 0,
        "APE", "Zero", "SAPE"),
    CAPE |-> Reserve("PTokenCApeImpl", 18, 5000, 7000, 10500, TRUE, 1000, 0, 18062500,
        "APE", "Zero", "CAPE"),
    YAPE |-> Reserve("PYieldTokenImpl", 18, 2000, 7000, 10500, FALSE, 1000, 0, 18062500,
        "APE", "Zero", "YAPE"),
    XCDOT |-> Reserve("PTokenImpl", 10, 6500, 7000, 10500, TRUE, 1000, 0, 0,
        "XCDOT", "Zero", "XCDOT"),
    STDOT |-> Reserve("PTokenStKSMImpl", 10, 6500, 7000, 10500, TRUE, 1000, 0, 0,
        "STDOT", "Zero", "STDOT"),
    XCUSDT |-> Reserve("PTokenImpl", 10, 7500, 8000, 10500, TRUE, 1000, 0, 0,
        "XCUSDT", "Zero", "XCUSDT"),
    USDCWH |-> Reserve("PTokenImpl", 6, 8700, 8900, 10450, TRUE, 1000, 0, 0,
        "USDCWH", "Zero", "USDCWH"),
    WETHWH |-> Reserve("PTokenImpl", 18, 8250, 8600, 10450, TRUE, 1000, 0, 0,
        "WETHWH", "Zero", "WETHWH") ]

ReserveParams3 ==
  [ WBTCWH |-> Reserve("PTokenImpl", 8, 7200, 8200, 10500, TRUE, 1000, 0, 0,
        "WBTCWH", "Zero", "WBTCWH"),
    WGLMR |-> Reserve("PTokenImpl", 18, 3000, 4500, 10500, TRUE, 1000, 0, 0,
        "WGLMR", "Zero", "WGLMR"),
    CBETH |-> Reserve("PTokenImpl", 18, 7200, 8300, 10700, TRUE, 1000, 110000, 110000,
        "XETH", "Zero", "WETH"),
    STETH |-> Reserve("PTokenStETHImpl", 18, 6900, 8100, 10750, TRUE, 1000, 0, 0,
        "XETH", "Zero", "WETH"),
    ASTETH |-> Reserve("PTokenAStETHImpl", 18, 6900, 8100, 10750, TRUE, 1000, 0, 0,
        "XETH", "Zero", "ASTETH"),
    WSTETH |-> Reserve("PTokenImpl", 18, 6900, 8100, 10750, TRUE, 1000, 0, 0,
        "XETH", "Zero", "WSTETH"),
    AWSTETH |-> Reserve("PTokenATokenImpl", 18, 6900, 8100, 10750, TRUE, 1000, 0, 0,
        "XETH", "Zero", "AWSTETH"),
    BENDETH |-> Reserve("PTokenATokenImpl", 18, 6900, 8100, 10750, TRUE, 1000, 0, 0,
        "XETH", "Zero", "BENDETH") ]

ReserveParams4 ==
  [ AWETH |-> Reserve("PTokenATokenImpl", 18, 8250, 8600, 10450, TRUE, 1000, 80000, 80000,
        "XETH", "Zero", "AWETH"),
    CETH |-> Reserve("PTokenImpl", 8, 6900, 8100, 10750, TRUE, 1000, 0, 0,
        "XETH", "Zero", "CETH"),
    RETH |-> Reserve("PTokenImpl", 18, 7200, 8300, 10700, TRUE, 1000, 20000, 20000,
        "XETH", "Zero", "RETH"),
    PUNK |-> Reserve("PTokenImpl", 18, 6900, 8100, 10750, TRUE, 1000, 0, 0,
        "XETH", "Zero", "PUNK"),
    BLUR |-> Reserve("PTokenImpl", 18, 2000, 3000, 11000, TRUE, 1000, 5000000, 5000000,
        "BLUR", "Zero", "BLUR"),
    GMX |-> Reserve("PTokenImpl", 18, 5000, 6500, 11000, TRUE, 1000, 0, 0,
        "GMX", "Zero", "GMX"),
    ARB |-> Reserve("PTokenImpl", 18, 3500, 6500, 11000, TRUE, 1000, 0, 0,
        "ARB", "Zero", "ARB"),
    BAL |-> Reserve("PTokenImpl", 18, 5000, 6500, 11000, TRUE, 1000, 0, 0,
        "BAL", "Zero", "BAL") ]

ReserveParams5 ==
  [ LINK |-> Reserve("PTokenImpl", 18, 7000, 7500, 11000, TRUE, 1000, 0, 0,
        "LINK", "Zero", "LINK"),
    AAVE |-> Reserve("PTokenImpl", 18, 5000, 6500, 11000, TRUE, 1000, 0, 0,
        "AAVE", "Zero", "AAVE"),
    UNI |-> Reserve("PTokenImpl", 18, 3000, 7000, 10500, TRUE, 0, 0, 0,
        "UNI", "Zero", "UNI"),
    RDNT |-> Reserve("PTokenImpl", 18, 2500, 3500, 11000, TRUE, 1000, 0, 0,
        "RDNT", "Zero", "RDNT"),
    STMATIC |-> Reserve("PTokenImpl", 18, 5000, 6500, 11000, TRUE, 1000, 0, 0,
        "STMATIC", "Zero", "STMATIC"),
    CRV |-> Reserve("PTokenImpl", 18, 2500, 3500, 11000, TRUE, 1000, 0, 0,
        "CRV", "Zero", "CRV"),
    WMATIC |-> Reserve("PTokenImpl", 18, 6800, 7300, 10700, TRUE, 2000, 0, 0,
        "WMATIC", "Zero", "WMATIC"),
    BAYC |-> Reserve("NTokenBAYCImpl", 0, 4000, 8000, 10500, FALSE, 0, 0, 0,
        "NFT", "BAYC", "BAYC") ]

ReserveParams6 ==
  [ MAYC |-> Reserve("NTokenMAYCImpl", 0, 3250, 7000, 10500, FALSE, 0, 0, 0,
        "NFT", "MAYC", "MAYC"),
    BAKC |-> Reserve("NTokenBAKCImpl", 0, 4000, 8000, 10500, FALSE, 0, 0, 1000,
        "NFT", "BAKC", "BAKC"),
    Doodles |-> Reserve("NTokenImpl", 0, 3000, 6500, 10500, FALSE, 0, 0, 0,
        "NFT", "Doodles", "Doodles"),
    Othr |-> Reserve("NTokenImpl", 0, 3000, 6500, 10500, FALSE, 0, 0, 0,
        "NFT", "Othr", "OTHR"),
    Clonex |-> Reserve("NTokenImpl", 0, 3000, 6500, 10500, FALSE, 0, 0, 0,
        "NFT", "CloneX", "CloneX"),
    Moonbird |-> Reserve("NTokenMoonBirdsImpl", 0, 3000, 6500, 10500, FALSE, 0, 0, 0,
        "NFT", "Moonbird", "Moonbird"),
    Meebits |-> Reserve("NTokenImpl", 0, 3000, 6500, 10500, FALSE, 0, 0, 0,
        "NFT", "Meebits", "Meebits"),
    Azuki |-> Reserve("NTokenImpl", 0, 3000, 6500, 10500, FALSE, 0, 0, 0,
        "NFT", "Azuki", "Azuki") ]

ReserveParams7 ==
  [ WPunks |-> Reserve("NTokenImpl", 0, 3500, 7000, 10500, FALSE, 0, 0, 0,
        "NFT", "WPunks", "WPunks"),
    UniswapV3 |-> Reserve("NTokenUniswapV3Impl", 0, 3000, 7000, 10500, FALSE, 0, 0, 0,
        "NFT", "UniswapV3", "UniswapV3"),
    SEWER |-> Reserve("NTokenImpl", 0, 0, 0, 0, FALSE, 0, 0, 1000, "NFT", "SEWER", "SEWER"),
    PudgyPenguins |-> Reserve("NTokenImpl", 0, 3000, 6500, 10500, FALSE, 0, 0, 0,
        "NFT", "PudgyPenguins", "Penguins"),
    StakefishValidator |-> Reserve("NTokenStakefishImpl", 0, 7425, 7740, 10450, FALSE, 0, 0, 20,
        "NFT", "StakefishValidator", "StakefishValidator"),
    HVMTL |-> Reserve("NTokenImpl", 0, 3000, 6500, 10500, FALSE, 0, 0, 1000,
        "NFT", "HVMTL", "HVMTL"),
    BEANZ |-> Reserve("NTokenImpl", 0, 3000, 6500, 10500, FALSE, 0, 0, 0,
        "NFT", "BEANZ", "BEANZ"),
    DEGODS |-> Reserve("NTokenImpl", 0, 3000, 6500, 10500, FALSE, 0, 0, 1000,
        "NFT", "DEGODS", "DEGODS") ]

ReserveParams8 ==
  [ EXP |-> Reserve("NTokenImpl", 0, 3000, 6500, 10500, FALSE, 0, 0, 1000,
        "NFT", "EXP", "EXP"),
    VSL |-> Reserve("NTokenImpl", 0, 3000, 6500, 10500, FALSE, 0, 0, 1000,
        "NFT", "VSL", "VSL"),
    KODA |-> Reserve("NTokenImpl", 0, 3000, 6500, 10500, FALSE, 0, 0, 1000,
        "NFT", "KODA", "KODA"),
    BLOCKS |-> Reserve("NTokenImpl", 0, 2000, 6500, 10500, FALSE, 0, 0, 0,
        "NFT", "BLOCKS", "BLOCKS"),
    EXRP |-> Reserve("NTokenImpl", 0, 2000, 3500, 10500, FALSE, 0, 0, 1000,
        "NFT", "EXRP", "EXRP"),
    uBAYC |-> Reserve("PTokenImpl", 18, 4000, 8000, 10500, TRUE, 1000, 0, 0,
        "BLUR", "Zero", "uBAYC"),
    uPPG |-> Reserve("PTokenImpl", 18, 3000, 6500, 10500, TRUE, 1000, 0, 0,
        "BLUR", "Zero", "uPPG") ]

ReserveParams ==
    ReserveParams1 @@ ReserveParams2 @@ ReserveParams3 @@ ReserveParams4
        @@ ReserveParams5 @@ ReserveParams6 @@ ReserveParams7 @@ ReserveParams8

-----------------------------------------------------------------------------
\* The tokens that have a price in the mocks, the same in ether and in dollars.
MockPriced ==
    { "DAI", "USDC", "aUSDC", "USDT", "FRAX", "WETH", "WBTC", "stETH", "wstETH", "APE",
      "sAPE", "cAPE", "yAPE", "aWETH", "cETH", "bendETH", "cbETH", "astETH", "rETH",
      "awstETH", "PUNK", "xcDOT", "xcUSDT", "stDOT", "WGLMR", "USDCWH", "WETHWH", "WBTCWH",
      "BLUR", "ARB", "GMX", "LINK", "UNI", "BAL", "AAVE", "RDNT", "MATIC", "stMATIC",
      "CRV", "BAYC", "WPUNKS", "PUNKS", "MAYC", "DOODLE", "MOONBIRD", "MEEBITS", "AZUKI",
      "OTHR", "CLONEX", "BAKC", "SEWER", "PPG", "HVMTL", "BEANZ", "DEGODS", "EXP", "VSL",
      "KODA", "BLOCKS", "EXRP", "uBAYC", "uPPG" }

\* What an oracle is denominated in: WETH, or dollars when BaseCurrency is the zero address.
OracleConfig == [ Mainnet |-> "WETH", Testnet |-> "WETH", Moonbeam |-> "USD",
                  Arbitrum |-> "USD", Polygon |-> "USD", ZkSync |-> "USD", Linea |-> "USD" ]

\* What a market takes from CommonConfig unless it says otherwise.  Its name is that of the
\* network it is for.
CommonConfig ==
    [name |-> "", WrappedNativeTokenId |-> "WETH", mocks |-> "WETH", oracle |-> "Testnet",
     admins |-> FALSE, tokens |-> {}, chainlink |-> {}, external |-> {}, reserves |-> << >>]

HardhatConfig ==
    [CommonConfig EXCEPT
       !.tokens = { "sAPE" },
       !.reserves = << "DAI", "USDC", "USDT", "FRAX", "WETH", "APE", "WBTC", "stETH",
                       "wstETH", "aWETH", "cETH", "PUNK", "BLUR", "DOODLE", "BAYC", "MAYC",
                       "WPUNKS", "MOONBIRD", "MEEBITS", "AZUKI", "OTHR", "CLONEX",
                       "UniswapV3", "sAPE", "cAPE", "yAPE", "BAKC", "BLOCKS", "SEWER",
                       "PPG", "SFVLDR" >>]

MoonbeamConfig ==
    [CommonConfig EXCEPT
       !.WrappedNativeTokenId = "WGLMR", !.mocks = "none", !.oracle = "Moonbeam",
       !.admins = TRUE,
       !.tokens = { "WGLMR", "xcDOT", "xcUSDT", "stDOT", "USDC", "WETH", "WBTC", "EXRP" },
       !.chainlink = { "WGLMR", "xcDOT", "xcUSDT", "stDOT", "USDC", "WETH", "WBTC" },
       !.reserves = << "xcDOT", "xcUSDT", "stDOT", "WGLMR", "USDC", "WETH", "WBTC", "EXRP" >>]

MoonbaseConfig ==
    [CommonConfig EXCEPT
       !.WrappedNativeTokenId = "WGLMR", !.mocks = "USD", !.oracle = "Moonbeam",
       !.admins = TRUE,
       !.tokens = { "WGLMR" },
       !.reserves = << "xcDOT", "xcUSDT", "stDOT", "WGLMR", "USDC", "WETH", "WBTC", "EXRP" >>]

GoerliConfig ==
    [CommonConfig EXCEPT
       !.admins = TRUE,
       !.tokens = { "APE", "BAYC", "MAYC", "BAKC", "sAPE", "WETH", "aWETH", "bendETH",
                    "UniswapV3", "PPG", "SEWER", "SFVLDR" },
       !.external = { "ApeCoinStaking", "BAKC", "V2Factory", "V2Router", "V3Factory",
                      "V3Router", "V3NFTPositionManager", "Seaport", "LendingPool",
                      "LendingPoolLoan", "StakefishManager" },
       !.chainlink = { "WETH", "BAYC", "MAYC", "CLONEX", "WPUNKS", "DOODLE", "AZUKI" },
       !.reserves = << "DAI", "USDC", "USDT", "FRAX", "WETH", "APE", "WBTC", "stETH",
                       "wstETH", "aWETH", "bendETH", "cbETH", "rETH", "astETH", "awstETH",
                       "cETH", "PUNK", "BLUR", "DOODLE", "BAYC", "MAYC", "WPUNKS",
                       "MOONBIRD", "MEEBITS", "AZUKI", "OTHR", "CLONEX", "UniswapV3",
                       "sAPE", "cAPE", "yAPE", "BAKC", "SEWER", "PPG", "SFVLDR", "HVMTL",
                       "BEANZ", "DEGODS", "EXP", "VSL", "KODA", "BLOCKS", "uBAYC", "uPPG" >>]

PolygonConfig ==
    [CommonConfig EXCEPT
       !.WrappedNativeTokenId = "WMATIC", !.mocks = "none", !.oracle = "Polygon",
       !.admins = TRUE,
       !.tokens = { "WMATIC", "stMATIC", "WETH", "WBTC", "USDT", "USDC", "DAI", "UNI",
                    "LINK", "AAVE", "BAL", "CRV", "UniswapV3" },
       !.external = { "V3Factory", "V3NFTPositionManager", "V3Router", "Seaport" },
       !.chainlink = { "DAI", "USDT", "USDC", "WETH", "WBTC", "WMATIC", "LINK", "UNI",
                       "AAVE", "BAL", "CRV", "stMATIC" },
       !.reserves = << "DAI", "USDT", "USDC", "WETH", "WBTC", "WMATIC", "stMATIC", "AAVE",
                       "LINK", "BAL", "UNI", "CRV", "UniswapV3" >>]

PolygonZkevmConfig ==
    [CommonConfig EXCEPT
       !.mocks = "USD", !.oracle = "Polygon", !.admins = TRUE,
       !.reserves = << "DAI", "USDC", "USDT", "FRAX", "WETH", "WBTC", "stETH", "wstETH",
                       "WMATIC", "stMATIC", "CRV", "UniswapV3" >>]

PolygonMumbaiConfig ==
    [CommonConfig EXCEPT
       !.WrappedNativeTokenId = "WMATIC", !.mocks = "USD", !.oracle = "Polygon",
       !.admins = TRUE,
       !.tokens = { "WETH", "WMATIC", "UniswapV3" },
       !.external = { "V3Factory", "V3NFTPositionManager", "V3Router" },
       !.reserves = << "DAI", "USDC", "USDT", "FRAX", "WETH", "WBTC", "stETH", "wstETH",
                       "stMATIC", "WMATIC", "CRV", "UniswapV3" >>]

PolygonZkevmGoerliConfig ==
    [CommonConfig EXCEPT
       !.mocks = "USD", !.oracle = "Polygon", !.admins = TRUE,
       !.reserves = << "DAI", "USDC", "USDT", "FRAX", "WETH", "WBTC", "stETH", "wstETH",
                       "WMATIC", "stMATIC", "CRV", "UniswapV3" >>]

ArbitrumGoerliConfig ==
    [CommonConfig EXCEPT
       !.mocks = "USD", !.oracle = "Arbitrum", !.admins = TRUE,
       !.tokens = { "WETH", "UniswapV3" },
       !.external = { "V3Factory", "V3NFTPositionManager", "V3Router" },
       !.chainlink = { "WETH", "WBTC", "DAI", "USDC", "USDT" },
       !.reserves = << "DAI", "USDC", "USDT", "FRAX", "WETH", "WBTC", "stETH", "wstETH",
                       "GMX", "ARB", "BAL", "LINK", "AAVE", "UNI", "RDNT", "UniswapV3" >>]

ArbitrumSepoliaConfig ==
    [CommonConfig EXCEPT
       !.reserves = << "DAI", "USDC", "USDT", "FRAX", "WETH", "WBTC", "PUNK", "BLUR",
                       "DOODLE", "WPUNKS", "MOONBIRD", "MEEBITS", "AZUKI", "OTHR",
                       "CLONEX", "BLOCKS", "SEWER", "PPG" >>]

ParallelDevConfig ==
    [CommonConfig EXCEPT
       !.reserves = << "DAI", "USDC", "USDT", "FRAX", "WETH", "WBTC", "PUNK", "BLUR",
                       "DOODLE", "WPUNKS", "MOONBIRD", "MEEBITS", "AZUKI", "OTHR",
                       "CLONEX", "BLOCKS", "SEWER", "PPG" >>]

ZkSyncGoerliConfig ==
    [CommonConfig EXCEPT
       !.mocks = "USD", !.oracle = "ZkSync", !.admins = TRUE,
       !.reserves = << "DAI", "USDC", "USDT", "FRAX", "WETH", "WBTC" >>]

LineaGoerliConfig ==
    [CommonConfig EXCEPT
       !.mocks = "USD", !.oracle = "Linea", !.admins = TRUE,
       !.reserves = << "DAI", "USDC", "USDT", "FRAX", "WETH", "WBTC" >>]

ArbitrumConfig ==
    [CommonConfig EXCEPT
       !.mocks = "none", !.oracle = "Arbitrum", !.admins = TRUE,
       !.tokens = { "WETH", "wstETH", "USDC", "DAI", "USDT", "FRAX", "WBTC", "ARB", "GMX",
                    "BAL", "AAVE", "LINK", "UNI", "RDNT", "UniswapV3" },
       !.external = { "V3Factory", "V3Router", "V3NFTPositionManager", "Seaport" },
       !.chainlink = { "WETH", "wstETH", "DAI", "USDC", "USDT", "FRAX", "WBTC", "ARB",
                       "GMX", "LINK", "UNI", "AAVE", "BAL", "RDNT" },
       !.reserves = << "DAI", "USDC", "USDT", "FRAX", "WETH", "wstETH", "WBTC", "BAL",
                       "LINK", "AAVE", "UNI", "RDNT", "GMX", "ARB", "UniswapV3" >>]

ZkSyncConfig ==
    [CommonConfig EXCEPT
       !.mocks = "none", !.oracle = "ZkSync", !.admins = TRUE,
       !.tokens = { "WETH", "USDC", "WBTC" },
       !.chainlink = { "WETH", "USDC", "WBTC" },
       !.reserves = << "USDC", "WETH", "WBTC" >>]

LineaConfig ==
    [CommonConfig EXCEPT
       !.mocks = "USD", !.oracle = "Linea", !.admins = TRUE,
       !.reserves = << "DAI", "USDC", "USDT", "FRAX", "WETH", "WBTC", "stETH", "wstETH" >>]

MainnetConfig ==
    [CommonConfig EXCEPT
       !.mocks = "none", !.oracle = "Mainnet", !.admins = TRUE,
       !.tokens = { "WETH", "stETH", "wstETH", "astETH", "awstETH", "bendETH", "cbETH",
                    "rETH", "aWETH", "USDC", "DAI", "USDT", "FRAX", "WBTC", "APE", "BLUR",
                    "BAYC", "MAYC", "BAKC", "PUNKS", "WPUNKS", "DOODLE", "MOONBIRD",
                    "MEEBITS", "AZUKI", "OTHR", "CLONEX", "sAPE", "UniswapV3", "cETH",
                    "SEWER", "PPG", "SFVLDR", "HVMTL", "BEANZ", "DEGODS", "EXP", "VSL",
                    "KODA", "BLOCKS", "uBAYC", "uPPG" },
       !.external = { "ApeCoinStaking", "V2Factory", "V2Router", "V3Factory", "V3Router",
                      "V3NFTPositionManager", "Seaport", "LendingPool", "LendingPoolLoan",
                      "PoolV1", "ProtocolDataProviderV1", "CApeV1", "TimeLockV1",
                      "P2PPairStakingV1", "StakefishManager" },
       !.chainlink = { "WETH", "rETH", "aWETH", "stETH", "astETH", "wstETH", "awstETH",
                       "cbETH", "DAI", "USDC", "USDT", "FRAX", "WBTC", "APE", "sAPE",
                       "cAPE", "yAPE", "BLUR", "AZUKI", "BAYC", "BAKC", "CLONEX", "WPUNKS",
                       "DOODLE", "MAYC", "MOONBIRD", "UniswapV3", "SFVLDR", "SEWER" },
       !.reserves = << "DAI", "USDC", "USDT", "FRAX", "WETH", "aWETH", "stETH", "wstETH",
                       "cbETH", "rETH", "APE", "WBTC", "BLUR", "DOODLE", "BAYC", "MAYC",
                       "WPUNKS", "MOONBIRD", "MEEBITS", "AZUKI", "OTHR", "CLONEX", "sAPE",
                       "cAPE", "UniswapV3", "BAKC", "SEWER", "PPG", "SFVLDR", "HVMTL",
                       "BEANZ", "DEGODS", "EXP", "VSL", "KODA", "BLOCKS", "uBAYC", "uPPG" >>]

\* The name under which reservesConfigs.ts declares the parameters of a symbol, when the two differ.
StrategyConstant ==
    [ stETH |-> "STETH", wstETH |-> "WSTETH", aWETH |-> "AWETH", cETH |-> "CETH",
      DOODLE |-> "Doodles", WPUNKS |-> "WPunks", MOONBIRD |-> "Moonbird",
      MEEBITS |-> "Meebits", AZUKI |-> "Azuki", OTHR |-> "Othr", CLONEX |-> "Clonex",
      sAPE |-> "SAPE", cAPE |-> "CAPE", yAPE |-> "YAPE", PPG |-> "PudgyPenguins",
      SFVLDR |-> "StakefishValidator", xcDOT |-> "XCDOT", xcUSDT |-> "XCUSDT",
      stDOT |-> "STDOT", bendETH |-> "BENDETH", cbETH |-> "CBETH", rETH |-> "RETH",
      astETH |-> "ASTETH", awstETH |-> "AWSTETH", stMATIC |-> "STMATIC" ]

\* ReservesConfig[symbol]: the Moonbeam markets list bridged coins under the plain symbols.
StrategyName(config, s) ==
    IF config.WrappedNativeTokenId = "WGLMR" /\ s \in {"USDC", "WETH", "WBTC"} THEN s \o "WH"
    ELSE IF s \in DOMAIN StrategyConstant THEN StrategyConstant[s]
    ELSE s

ParamsOf(config, s) == ReserveParams[StrategyName(config, s)]

\* The configuration of a network.
ParaSpaceConfigs ==
    [ hardhat |-> HardhatConfig, anvil |-> HardhatConfig, localhost |-> HardhatConfig,
      moonbeam |-> MoonbeamConfig, moonbase |-> MoonbaseConfig, goerli |-> GoerliConfig,
      mainnet |-> MainnetConfig, arbitrumGoerli |-> ArbitrumGoerliConfig,
      arbitrumSepolia |-> ArbitrumSepoliaConfig, parallelDev |-> ParallelDevConfig,
      arbitrum |-> ArbitrumConfig, polygon |-> PolygonConfig,
      polygonMumbai |-> PolygonMumbaiConfig, polygonZkevm |-> PolygonZkevmConfig,
      polygonZkevmGoerli |-> PolygonZkevmGoerliConfig, zksync |-> ZkSyncConfig,
      zksyncGoerli |-> ZkSyncGoerliConfig, linea |-> LineaConfig,
      lineaGoerli |-> LineaGoerliConfig, parallel |-> HardhatConfig, neon |-> HardhatConfig ]

\* A fresh chain of the hardhat id, and the public test chains.
isLocalTestnet(n) == n \in {"hardhat", "localhost", "anvil"}

isPublicTestnet(n) ==
    n \in {"goerli", "arbitrumGoerli", "arbitrumSepolia", "parallelDev", "zksyncGoerli",
          "polygonZkevmGoerli", "polygonMumbai", "moonbase", "lineaGoerli"}

isMainnet(n) ==
    n \in {"mainnet", "moonbeam", "arbitrum", "zksync", "polygon", "polygonZkevm", "linea",
          "neon", "parallel"}

=============================================================================
