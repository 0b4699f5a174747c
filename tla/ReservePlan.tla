---------------------------- MODULE ReservePlan ----------------------------
(***************************************************************************)
(* What steps 10 and 11 of a deployment make of a market configuration:    *)
(* the price source of every token, and the reserves with their groups,    *)
(* token implementations, strategies and risk parameters.                  *)
(***************************************************************************)
EXTENDS MarketConfig, SequencesExt

CONSTANT Networks   \* the networks deployed to

ASSUME NetworksAssumption == Networks \subseteq DOMAIN ParaSpaceConfigs

-----------------------------------------------------------------------------
\* Step 10.

\* A market: the configuration of a network, with its name.
Config(n) == [ParaSpaceConfigs[n] EXCEPT !.name = n]
BaseCurrency(m) == OracleConfig[m.oracle]

\* The tokens of the market.
getAllTokens(m) ==
    ToSet(m.reserves) \cap ToSet(ERC20TokenContractId \o ERC721TokenContractId)

\* The wrapped and staked ethers that share the price of another token.
SharesPriceOf == [awstETH |-> "wstETH", astETH |-> "stETH"]

\* The kind of price source a token gets from its own row of the configuration; "none" when
\* it gets no source.
OwnSource(m, s) ==
    CASE s = BaseCurrency(m) -> "base"
      [] s # BaseCurrency(m) /\ s \in m.chainlink -> "chainlink"
      [] s # BaseCurrency(m) /\ s \notin m.chainlink ->
           CASE s \in {"bendETH", "aWETH"} /\ BaseCurrency(m) = "WETH" -> "fixed"
             [] s = "cETH" -> "cToken"
             [] s = "SFVLDR" -> "fixed"
             [] s = "wstETH" -> "wstETH"
             [] s \in DOMAIN SharesPriceOf -> "shared"
             [] s = "rETH" -> "exchangeRate"
             [] s = "UniswapV3" -> "UniswapV3OracleWrapper"
             [] OTHER -> IF m.mocks = "none" THEN "ERC721OracleWrapper"
                         ELSE IF s \in MockPriced THEN "mock" ELSE "none"

\* wstETH is priced from the source of stETH, and a shared source has to be there already.
PriceSource(m, s) ==
    LET own == OwnSource(m, s)
        other == IF own = "shared" THEN SharesPriceOf[s] ELSE "stETH"
    IN  IF own \notin {"shared", "wstETH"} THEN own
        ELSE IF other \notin ToSet(m.reserves) THEN "none"
        ELSE IF own = "wstETH" THEN own
        ELSE OwnSource(m, other)

\* (mutant: the filter on the feeds is turned round)
FloorProjectsWithFeed(m) ==
    (getAllTokens(m) \cap ToSet(ERC721TokenContractId)) \cap m.chainlink

\* The collections the floor oracle is told to follow.
FloorProjects(m) ==
    (getAllTokens(m) \cap ToSet(ERC721TokenContractId))
        \ (m.chainlink \union {"UniswapV3"})

\* The oracle takes an aggregator for every token but the base currency, and the data
\* provider for the interface a feed of the base currency, or of a dollar token.
OracleCanBeDeployed(m) == \A s \in getAllTokens(m) : PriceSource(m, s) # "none"
HasNetworkFeed(m) ==
    \/ BaseCurrency(m) \in m.chainlink
    \/ {"USDC", "USDT"} \cap getAllTokens(m) # {}

-----------------------------------------------------------------------------
\* Step 11.

\* The token implementations step 11 knows; any other reserve is left out.
SupportedImpls ==
    {"DelegationAwarePTokenImpl", "PTokenImpl", "NTokenImpl", "NTokenBAYCImpl", "NTokenMAYCImpl",
     "NTokenMoonBirdsImpl", "NTokenUniswapV3Impl", "PTokenStETHImpl", "PTokenStKSMImpl",
     "PTokenATokenImpl", "PTokenSApeImpl", "PTokenCApeImpl", "PYieldTokenImpl",
     "NTokenBAKCImpl", "NTokenStakefishImpl", "NTokenOtherdeedImpl",
     "NTokenChromieSquiggleImpl"}

chunk(seq, size) ==
    [i \in 1 .. (Len(seq) + size - 1) \div size |->
        SubSeq(seq, (i - 1) * size + 1, IF i * size < Len(seq) THEN i * size ELSE Len(seq))]

Reserves(m) ==
    SelectSeq(m.reserves, LAMBDA s : ParamsOf(m, s).xTokenImpl \in SupportedImpls)
Groups(m) == chunk(Reserves(m), 20)

\* (mutant: the last staking token is forgotten)
nftImplsWithoutBAKC ==
    {"NTokenImpl", "NTokenMoonBirdsImpl", "NTokenUniswapV3Impl", "NTokenBAYCImpl",
     "NTokenMAYCImpl", "NTokenStakefishImpl", "NTokenChromieSquiggleImpl",
     "NTokenOtherdeedImpl"}

nftImpls ==
    {"NTokenImpl", "NTokenMoonBirdsImpl", "NTokenUniswapV3Impl", "NTokenBAYCImpl",
     "NTokenMAYCImpl", "NTokenBAKCImpl", "NTokenStakefishImpl", "NTokenChromieSquiggleImpl",
     "NTokenOtherdeedImpl"}

xTokenType(m, s) ==
    LET impl == ParamsOf(m, s).xTokenImpl
    IN  IF impl = "DelegationAwarePTokenImpl" THEN "delegation aware"
        ELSE IF impl \in nftImpls THEN "nft" ELSE "generic"

\* The implementation is chosen by the symbol of the reserve.
genericImplOf ==
    [stETH |-> "PTokenStETHImpl", stDOT |-> "PTokenStKSMImpl", aWETH |-> "PTokenATokenImpl",
     awstETH |-> "PTokenATokenImpl", aUSDC |-> "PTokenATokenImpl",
     astETH |-> "PTokenAStETHImpl", sAPE |-> "PTokenSApeImpl", cAPE |-> "PTokenCApeImpl",
     yAPE |-> "PYieldTokenImpl"]

nftImplOf ==
    [MOONBIRD |-> "NTokenMoonBirdsImpl", UniswapV3 |-> "NTokenUniswapV3Impl",
     BAYC |-> "NTokenBAYCImpl", MAYC |-> "NTokenMAYCImpl", BAKC |-> "NTokenBAKCImpl",
     OTHR |-> "NTokenOtherdeedImpl", SFVLDR |-> "NTokenStakefishImpl",
     BLOCKS |-> "NTokenChromieSquiggleImpl"]

xTokenOf(type, s) ==
    LET table == IF type = "nft" THEN nftImplOf ELSE genericImplOf
    IN  IF type = "delegation aware" THEN "DelegationAwarePTokenImpl"
        ELSE IF s \in DOMAIN table THEN table[s]
        ELSE IF type = "nft" THEN "NTokenImpl" ELSE "PTokenImpl"
xTokenToUse(m, s) == xTokenOf(xTokenType(m, s), s)

\* One auction strategy and no time lock on a local chain.
auctionStrategyOf(m, s) ==
    LET name == ParamsOf(m, s).auctionStrategy
    IN  IF name # "Zero" /\ isLocalTestnet(m.name) THEN "Linear" ELSE name

timeLockStrategyOf(m, s) ==
    IF isLocalTestnet(m.name) THEN "Zero" ELSE ParamsOf(m, s).timeLockStrategy

InputOf(m, s) ==
    [xTokenImpl |-> xTokenToUse(m, s),
     assetType |-> IF xTokenType(m, s) = "nft" THEN "ERC721" ELSE "ERC20",
     decimals |-> ParamsOf(m, s).reserveDecimals,
     strategy |-> ParamsOf(m, s).strategy,
     auctionStrategy |-> auctionStrategyOf(m, s),
     timeLockStrategy |-> timeLockStrategyOf(m, s)]

RiskOf(m, s) ==
    LET p == ParamsOf(m, s)
    IN  [ltv |-> p.baseLTVAsCollateral, threshold |-> p.liquidationThreshold,
         bonus |-> p.liquidationBonus, borrowing |-> p.borrowingEnabled,
         borrowCap |-> IF p.borrowingEnabled THEN p.borrowCap ELSE 0,
         supplyCap |-> p.supplyCap, reserveFactor |-> p.reserveFactor]

-----------------------------------------------------------------------------
(* The markets of the networks.                                            *)

Markets == [n \in Networks |-> Config(n)]

deployAllAggregators ==
    [n \in Networks |-> [s \in getAllTokens(Markets[n]) |-> PriceSource(Markets[n], s)]]

GroupsOf == [n \in Networks |-> Groups(Markets[n])]
ReservesOf == [n \in Networks |-> ToSet(Reserves(Markets[n]))]

InitReserveInput ==
    [n \in Networks |-> [s \in ReservesOf[n] |-> InputOf(Markets[n], s)]]

ConfigureReserveInput ==
    [n \in Networks |-> [s \in ReservesOf[n] |-> RiskOf(Markets[n], s)]]

=============================================================================
