------------------------------ MODULE Contracts ------------------------------
(***************************************************************************)
(* What helpers/contracts-deployments.ts deploys, and what                 *)
(* helpers/contracts-getters.ts looks up.                                  *)
(*                                                                         *)
(* A contract is known by its id in the deployment database.  Its row has  *)
(* the contract that answers at its address (for a proxy, the one behind   *)
(* it) and the other contracts of the database whose addresses it is       *)
(* linked with or constructed with.                                        *)
(*                                                                         *)
(* A getter attaches a contract class to the address it finds under an id. *)
(***************************************************************************)
EXTENDS TLC

LOCAL C(contract, args) == [contract |-> contract, args |-> args]
LOCAL Plain(contract) == C(contract, {})

\* (mutant: the registry is deployed from the artifact of the provider)
RegistriesOfProviders ==
  [ PoolAddressesProvider |-> Plain("PoolAddressesProvider"),
    PoolAddressesProviderRegistry |-> Plain("PoolAddressesProvider"),
    ACLManager |-> C("ACLManager", {"PoolAddressesProvider"}) ]

\* The address book and its registry, the access control.
Registries ==
  [ PoolAddressesProvider |-> Plain("PoolAddressesProvider"),
    PoolAddressesProviderRegistry |-> Plain("PoolAddressesProviderRegistry"),
    ACLManager |-> C("ACLManager", {"PoolAddressesProvider"}) ]

\* The libraries of the protocol and the configurator.
Libraries ==
  [ ConfiguratorLogic |-> Plain("ConfiguratorLogic"),
    PoolConfiguratorImpl |-> C("PoolConfigurator", {"ConfiguratorLogic"}),
    SupplyLogic |-> Plain("SupplyLogic"),
    SupplyExtendedLogic |-> Plain("SupplyExtendedLogic"),
    FlashClaimLogic |-> Plain("FlashClaimLogic"),
    BorrowLogic |-> Plain("BorrowLogic"),
    LiquidationLogic |-> C("LiquidationLogic", {"SupplyLogic"}),
    AuctionLogic |-> Plain("AuctionLogic"),
    PoolLogic |-> Plain("PoolLogic"),
    PositionMoverLogic |-> C("PositionMoverLogic", {"SupplyLogic", "BorrowLogic"}) ]

\* The facets of the pool.
PoolComponents ==
  [ PoolCoreImpl |-> C("PoolCore", {"SupplyLogic", "SupplyExtendedLogic", "BorrowLogic",
        "AuctionLogic", "LiquidationLogic", "FlashClaimLogic", "PoolAddressesProvider",
        "TimeLockProxy"}),
    PoolParametersImpl |-> C("PoolParameters", {"PoolLogic", "PoolAddressesProvider"}),
    PoolMarketplaceImpl |-> C("PoolMarketplace", {"MarketplaceLogic", "PoolAddressesProvider"}),
    PoolApeStakingImpl |-> C("PoolApeStaking", {"BorrowLogic", "SupplyLogic",
        "PoolAddressesProvider", "cAPE", "APE", "USDC", "UniswapV3SwapRouter", "WETH"}),
    PoolBorrowAndStakeImpl |-> C("PoolBorrowAndStake", {"BorrowLogic", "PoolAddressesProvider",
        "cAPE", "APE"}) ]

OtherFacets ==
  [ ParaProxyInterfacesImpl |-> Plain("ParaProxyInterfaces"),
    PoolAAPositionMoverImpl |-> Plain("PoolAAPositionMover"),
    PoolPositionMoverImpl |-> C("PoolPositionMover", {"PositionMoverLogic",
        "PoolAddressesProvider", "cAPE", "APE"}) ]

\* Prices and views.
OraclesAndViews ==
  [ PriceOracle |-> Plain("PriceOracle"),
    ParaSpaceOracle |-> C("ParaSpaceOracle", {"PoolAddressesProvider", "Aggregators"}),
    NFTFloorOracle |-> Plain("NFTFloorOracle"),
    ProtocolDataProvider |-> C("ProtocolDataProvider", {"PoolAddressesProvider"}) ]

\* The token implementations of a reserve.
GenericTokens ==
  [ MockReserveAuctionStrategy |-> Plain("MockReserveAuctionStrategy"),
    VariableDebtTokenImpl |-> C("VariableDebtToken", {"PoolProxy"}),
    PTokenImpl |-> C("PToken", {"PoolProxy"}),
    NTokenImpl |-> C("NToken", {"MintableERC721Logic", "PoolProxy"}),
    NTokenUniswapV3Impl |-> C("NTokenUniswapV3", {"MintableERC721Logic", "PoolProxy"}),
    NTokenMoonBirdsImpl |-> C("NTokenMoonBirds", {"MintableERC721Logic", "PoolProxy"}),
    DelegationAwarePTokenImpl |-> C("DelegationAwarePToken", {"PoolProxy"}) ]

RebasingTokens ==
  [ PTokenATokenImpl |-> C("PTokenAToken", {"PoolProxy"}),
    PTokenStETHImpl |-> C("PTokenStETH", {"PoolProxy"}),
    PTokenStKSMImpl |-> C("PTokenStKSM", {"PoolProxy"}),
    PTokenAStETHImpl |-> C("PTokenAStETH", {"PoolProxy"}),
    PTokenSApeImpl |-> C("PTokenSApe", {"PoolProxy"}) ]

StakingTokens ==
  [ ApeCoinStaking |-> C("ApeCoinStaking", {"APE", "BAYC", "MAYC", "BAKC"}),
    ApeStakingLogic |-> Plain("ApeStakingLogic"),
    NTokenBAYCImpl |-> C("NTokenBAYC", {"ApeStakingLogic", "MintableERC721Logic", "PoolProxy",
                                         "ApeCoinStaking"}),
    NTokenMAYCImpl |-> C("NTokenMAYC", {"ApeStakingLogic", "MintableERC721Logic", "PoolProxy",
                                         "ApeCoinStaking"}),
    NTokenBAKCImpl |-> C("NTokenBAKC", {"MintableERC721Logic", "PoolProxy", "ApeCoinStaking"}) ]

DebtTokens ==
  [ ATokenDebtToken |-> C("ATokenDebtToken", {"PoolProxy"}),
    StETHDebtToken |-> C("StETHDebtToken", {"PoolProxy"}),
    StKSMDebtToken |-> C("StKSMDebtToken", {"PoolProxy"}),
    AStETHDebtToken |-> C("AStETHDebtToken", {"PoolProxy"}),
    MintableERC721Logic |-> Plain("MintableERC721Logic") ]

\* The vaults and the tokens of their shares.
ApeVaults ==
  [ cAPEImpl |-> C("AutoCompoundApe", {"APE", "ApeCoinStaking", "ACLManager"}),
    cAPE |-> Plain("AutoCompoundApe"),
    P2PPairStakingImpl |-> C("P2PPairStaking", {"BAYC", "MAYC", "BAKC", "APE", "cAPE",
                                                 "ApeCoinStaking"}),
    P2PPairStaking |-> Plain("P2PPairStaking") ]

YieldVault ==
  [ yAPEImpl |-> C("AutoYieldApe", {"ApeCoinStaking", "APE", "USDC", "PoolProxy",
                                     "UniswapV3SwapRouter", "ACLManager"}),
    yAPE |-> Plain("AutoYieldApe"),
    HelperContractImpl |-> C("HelperContract", {"APE", "cAPE", "PoolProxy"}),
    HelperContract |-> Plain("HelperContract"),
    PTokenCApeImpl |-> C("PTokenCApe", {"PoolProxy"}),
    CApeDebtToken |-> C("CApeDebtToken", {"PoolProxy"}),
    PYieldTokenImpl |-> C("PYieldToken", {"PoolProxy"}) ]

\* The time lock, and the NTokens of three more collections.
TimeLockContracts ==
  [ TimeLockImpl |-> C("TimeLock", {"PoolAddressesProvider"}),
    TimeLockProxy |-> Plain("TimeLock"),
    NTokenOtherdeedImpl |-> C("NTokenOtherdeed", {"MintableERC721Logic", "PoolProxy"}),
    NTokenChromieSquiggleImpl |-> C("NTokenChromieSquiggle", {"MintableERC721Logic",
                                                               "PoolProxy"}),
    NTokenStakefishImpl |-> C("NTokenStakefish", {"MintableERC721Logic", "PoolProxy"}) ]

\* Stand-ins for contracts of others, and the accounts.
OtherServices ==
  [ HotWalletProxy |-> Plain("HotWalletProxy"),
    DelegationRegistry |-> Plain("DelegateRegistry"),
    DepositContract |-> Plain("DepositContract"),
    StakefishValidator |-> C("StakefishValidatorV1", {"DepositContract"}),
    StakefishValidatorFactory |-> C("StakefishValidatorFactory", {"StakefishValidator"}),
    SFVLDR |-> C("StakefishNFTManager", {"StakefishValidatorFactory"}),
    Account |-> Plain("Account"),
    AccountRegistry |-> C("AccountRegistry", {"Account"}),
    AccountFactory |-> C("AccountFactory", {"AccountRegistry"}) ]

\* Helpers of the deployment, views for the front end, the gateway of the native coin.
HelpersAndGateway ==
  [ MOONBIRD |-> Plain("Moonbirds"),
    ReservesSetupHelper |-> Plain("ReservesSetupHelper"),
    WETH |-> Plain("WETH9Mocked"),
    UiPoolDataProvider |-> C("UiPoolDataProvider", {"Aggregators"}),
    UiIncentiveDataProvider |-> Plain("UiIncentiveDataProvider"),
    WalletBalanceProvider |-> Plain("WalletBalanceProvider"),
    WETHGatewayImpl |-> C("WETHGateway", {"pool"}),
    WETHGatewayProxy |-> C("WETHGateway", {"WETHGatewayImpl"}) ]

\* The collections of a test chain, and the gateway of the punks.
Collections ==
  [ MEEBITS |-> C("Meebits", {"PUNKS"}),
    AZUKI |-> Plain("Azuki"),
    OTHR |-> Plain("Land"),
    CLONEX |-> Plain("CloneX"),
    SEWER |-> Plain("BAYCSewerPass"),
    DOODLE |-> Plain("Doodles"),
    MAYC |-> Plain("MutantApeYachtClub"),
    BAYC |-> Plain("BoredApeYachtClub"),
    Aggregators |-> C("ERC721OracleWrapper", {"PoolAddressesProvider", "NFTFloorOracle"}) ]

Punks ==
  [ PUNKS |-> Plain("CryptoPunksMarket"),
    WPUNKS |-> C("WPunk", {"PUNKS"}),
    WPunkGatewayImpl |-> C("WPunkGateway", {"PUNKS", "WPUNKS", "pool"}),
    WPunkGatewayProxy |-> C("WPunkGateway", {"WPunkGatewayImpl"}) ]

\* The marketplaces the pool can buy from.
MarketplaceAdapters ==
  [ SeaportAdapter |-> C("SeaportAdapter", {"PoolAddressesProvider"}),
    LooksRareAdapter |-> C("LooksRareAdapter", {"PoolAddressesProvider",
                                                 "StrategyStandardSaleForFixedPrice"}),
    X2Y2Adapter |-> C("X2Y2Adapter", {"PoolAddressesProvider"}),
    MarketplaceLogic |-> C("MarketplaceLogic", {"SupplyLogic", "SupplyExtendedLogic",
                                                 "BorrowLogic"}),
    ConduitController |-> Plain("ConduitController"),
    PausableZoneController |-> Plain("PausableZoneController"),
    Seaport |-> C("Seaport", {"ConduitController"}) ]

Exchanges ==
  [ CurrencyManager |-> Plain("CurrencyManager"),
    ExecutionManager |-> Plain("ExecutionManager"),
    LooksRareExchange |-> C("LooksRareExchange", {"CurrencyManager", "ExecutionManager",
                                                   "RoyaltyFeeManager", "WETH"}),
    RoyaltyFeeManager |-> C("RoyaltyFeeManager", {"RoyaltyFeeRegistry"}),
    RoyaltyFeeRegistry |-> Plain("RoyaltyFeeRegistry"),
    TransferSelectorNFT |-> C("TransferSelectorNFT", {"TransferManagerERC721",
                                                       "TransferManagerERC1155"}),
    TransferManagerERC721 |-> C("TransferManagerERC721", {"LooksRareExchange"}),
    TransferManagerERC1155 |-> C("TransferManagerERC1155", {"LooksRareExchange"}),
    StrategyStandardSaleForFixedPrice |-> Plain("StrategyStandardSaleForFixedPrice"),
    X2Y2R1 |-> Plain("X2Y2R1"),
    ERC721Delegate |-> Plain("ERC721Delegate") ]

Blur ==
  [ MerkleVerifier |-> Plain("MerkleVerifier"),
    ExecutionDelegate |-> Plain("ExecutionDelegate"),
    PolicyManager |-> Plain("PolicyManager"),
    StandardPolicyERC721 |-> Plain("StandardPolicyERC721"),
    BlurExchangeImpl |-> C("BlurExchange", {"MerkleVerifier"}),
    BlurExchangeProxy |-> C("BlurExchange", {"BlurExchangeImpl", "ExecutionDelegate",
                                              "PolicyManager", "WETH"}),
    BlurAdapter |-> C("BlurAdapter", {"PoolAddressesProvider", "StandardPolicyERC721"}) ]

Uniswap ==
  [ UniswapV3Factory |-> Plain("UniswapV3Factory"),
    NFTDescriptor |-> Plain("NFTDescriptor"),
    NonfungibleTokenPositionDescriptor |->
        C("NonfungibleTokenPositionDescriptor", {"NFTDescriptor", "WETH"}),
    UniswapV3 |-> C("NonfungiblePositionManager", {"UniswapV3Factory", "WETH",
                                                    "NonfungibleTokenPositionDescriptor"}),
    UniswapV3SwapRouter |-> C("SwapRouter", {"UniswapV3Factory", "WETH"}) ]

\* Test tokens that need more than a name.
MockTokens ==
  [ stETH |-> Plain("StETHMocked"),
    wstETH |-> C("WstETHMocked", {"stETH"}),
    aWETH |-> Plain("MockAToken"), awstETH |-> Plain("MockAToken"),
    astETH |-> Plain("MockAStETH"), rETH |-> Plain("MockRETH"), cETH |-> Plain("MockCToken") ]

FlashClaims ==
  [ FlashClaimRegistry |-> C("UserFlashclaimRegistry", {"AirdropFlashClaimReceiver"}),
    UserFlashClaimRegistryProxy |-> C("UserFlashclaimRegistry", {"FlashClaimRegistry"}),
    BAYCSewerPassClaim |-> C("BAYCSewerPassClaim", {"BAYC", "MAYC", "BAKC", "SEWER"}),
    AirdropFlashClaimReceiver |-> C("AirdropFlashClaimReceiver", {"pool"}),
    MockAirdropProject |-> C("MockAirdropProject", {"BAYC"}),
    MockMultiAssetAirdropProject |-> C("MockMultiAssetAirdropProject", {"BAYC", "MAYC"}) ]

TestMocks ==
  [ MockIncentivesController |-> Plain("MockIncentivesController"),
    MockTokenFaucet |-> Plain("MockTokenFaucet"),
    MockBendDaoLendPool |-> C("MockLendPool", {"WETH"}) ]

\* Registered by the steps themselves: the pool, the configurator, the conduit and the zone.
Registered ==
  [ PoolProxy |-> C("IPool", {"pool"}),
    PoolConfiguratorProxy |-> C("PoolConfigurator", {"configurator"}),
    Conduit |-> C("Conduit", {"conduit"}), PausableZone |-> C("PausableZone", {"zone"}) ]

Deployments ==
    Registries @@ Libraries @@ PoolComponents @@ OtherFacets @@ OraclesAndViews
      @@ GenericTokens @@ RebasingTokens @@ StakingTokens @@ DebtTokens @@ ApeVaults
      @@ YieldVault @@ TimeLockContracts @@ OtherServices @@ HelpersAndGateway @@ Collections
      @@ Punks @@ MarketplaceAdapters @@ Exchanges @@ Blur @@ Uniswap @@ MockTokens
      @@ FlashClaims @@ TestMocks @@ Registered

\* Any other token of a test chain is a MintableERC20 or a MintableERC721.
Contract(id) == IF id \in DOMAIN Deployments THEN Deployments[id] ELSE Plain("Mintable")

-----------------------------------------------------------------------------
\* A getter: the id it looks up and the class it attaches.
LOCAL G(id, as) == [id |-> id, as |-> as]

Getters1 ==
  [ getPoolAddressesProvider |-> G("PoolAddressesProvider", "PoolAddressesProvider"),
    getACLManager |-> G("ACLManager", "ACLManager"),
    getPoolConfiguratorProxy |-> G("PoolConfiguratorProxy", "PoolConfigurator"),
    getSupplyLogic |-> G("SupplyLogic", "SupplyLogic"),
    getSupplyExtendedLogic |-> G("SupplyExtendedLogic", "SupplyLogic"),
    getBorrowLogic |-> G("BorrowLogic", "BorrowLogic"),
    getLiquidationLogic |-> G("LiquidationLogic", "LiquidationLogic"),
    getMarketplaceLogic |-> G("MarketplaceLogic", "MarketplaceLogic"),
    getFlashClaimLogic |-> G("FlashClaimRegistry", "FlashClaimLogic"),
    getPoolLogic |-> G("PoolLogic", "PoolLogic"),
    getPoolProxy |-> G("PoolProxy", "IPool"),
    getPriceOracle |-> G("PriceOracle", "PriceOracle") ]

Getters2 ==
  [ getUiPoolDataProvider |-> G("UiPoolDataProvider", "UiPoolDataProvider"),
    getUiIncentiveDataProviderV3 |-> G("UiIncentiveDataProvider", "UiIncentiveDataProvider"),
    getPToken |-> G("PTokenImpl", "PToken"),
    getPYieldToken |-> G("PYieldTokenImpl", "PYieldToken"),
    getNToken |-> G("NTokenImpl", "NToken"),
    getVariableDebtToken |-> G("VariableDebtTokenImpl", "VariableDebtToken"),
    getStETHDebtToken |-> G("StETHDebtToken", "StETHDebtToken"),
    getIRStrategy |->
        G("DefaultReserveInterestRateStrategy", "DefaultReserveInterestRateStrategy"),
    getMintableERC20 |-> G("MintableERC20", "MintableERC20"),
    getMintableERC721 |-> G("MintableERC721", "MintableERC721"),
    getIErc20Detailed |-> G("IERC20Detailed", "IERC20Detailed") ]

Getters3 ==
  [ getProtocolDataProvider |-> G("ProtocolDataProvider", "ProtocolDataProvider"),
    getParaSpaceOracle |-> G("ParaSpaceOracle", "ParaSpaceOracle"),
    getPoolAddressesProviderRegistry |->
        G("PoolAddressesProviderRegistry", "PoolAddressesProviderRegistry"),
    getReservesSetupHelper |-> G("ReservesSetupHelper", "ReservesSetupHelper"),
    getWETH |-> G("WETH", "WETH9Mocked"),
    getPunks |-> G("PUNKS", "CryptoPunksMarket"),
    getWPunk |-> G("WPUNKS", "WPunk"),
    getWETHGateway |-> G("WETHGatewayImpl", "WETHGateway") ]

Getters4 ==
  [ getWETHGatewayProxy |-> G("WETHGatewayProxy", "WETHGateway"),
    getWPunkGateway |-> G("WPunkGatewayImpl", "WPunkGateway"),
    getWPunkGatewayProxy |-> G("WPunkGatewayProxy", "WPunkGateway"),
    getERC20 |-> G("MintableERC20", "ERC20"),
    getERC721 |-> G("MintableERC721", "ERC721"),
    getMoonBirds |-> G("MOONBIRD", "Moonbirds"),
    getNTokenMoonBirds |-> G("NTokenMoonBirdsImpl", "NTokenMoonBirds"),
    getUniswapV3Factory |-> G("UniswapV3Factory", "UniswapV3Factory"),
    getNonfungiblePositionManager |-> G("UniswapV3", "INonfungiblePositionManager"),
    getUniswapV3SwapRouter |-> G("UniswapV3SwapRouter", "ISwapRouter") ]

Getters5 ==
  [ getNTokenUniswapV3 |-> G("NTokenUniswapV3Impl", "NTokenUniswapV3"),
    getMockTokenFaucet |-> G("MockTokenFaucet", "MockTokenFaucet"),
    getConduitController |-> G("ConduitController", "ConduitController"),
    getConduit |-> G("Conduit", "Conduit"),
    getPausableZoneController |-> G("PausableZoneController", "PausableZoneController"),
    getPausableZone |-> G("PausableZone", "PausableZone"),
    getSeaport |-> G("Seaport", "Seaport"),
    getLooksRareExchange |-> G("LooksRareExchange", "LooksRareExchange"),
    getStrategyStandardSaleForFixedPrice |->
        G("StrategyStandardSaleForFixedPrice", "StrategyStandardSaleForFixedPrice"),
    getTransferManagerERC721 |-> G("TransferManagerERC721", "TransferManagerERC721"),
    getX2Y2R1 |-> G("X2Y2R1", "X2Y2R1") ]

Getters6 ==
  [ getERC721Delegate |-> G("ERC721Delegate", "ERC721Delegate"),
    getStETH |-> G("stETH", "StETHMocked"),
    getWstETH |-> G("wstETH", "WstETHMocked"),
    getPTokenStETH |-> G("PTokenStETHImpl", "PTokenStETH"),
    getPTokenSApe |-> G("PTokenSApeImpl", "PTokenSApe"),
    getPTokenAToken |-> G("PTokenATokenImpl", "PTokenAToken"),
    getNFTFloorOracle |-> G("NFTFloorOracle", "NFTFloorOracle"),
    getUserFlashClaimRegistry |-> G("UserFlashClaimRegistryProxy", "UserFlashclaimRegistry"),
    getNTokenBAYC |-> G("NTokenImpl", "NTokenBAYC"),
    getNTokenMAYC |-> G("NTokenImpl", "NTokenMAYC"),
    getNTokenBAKC |-> G("NTokenBAKCImpl", "NTokenBAKC"),
    getApeCoinStaking |-> G("ApeCoinStaking", "ApeCoinStaking") ]

Getters7 ==
  [ getApeStakingLogic |-> G("ApeStakingLogic", "ApeStakingLogic"),
    getMintableERC721Logic |-> G("MintableERC721Logic", "MintableERC721Logic"),
    getExecutionDelegate |-> G("ExecutionDelegate", "ExecutionDelegate"),
    getStandardPolicyERC721 |-> G("StandardPolicyERC721", "StandardPolicyERC721"),
    getBlurExchangeProxy |-> G("BlurExchangeProxy", "BlurExchange"),
    getAutoCompoundApe |-> G("cAPE", "AutoCompoundApe"),
    getAutoYieldApe |-> G("yAPE", "AutoYieldApe"),
    getP2PPairStaking |-> G("P2PPairStaking", "P2PPairStaking"),
    getHelperContract |-> G("HelperContract", "HelperContract"),
    getSeaportAdapter |-> G("SeaportAdapter", "SeaportAdapter"),
    getLooksRareAdapter |-> G("LooksRareAdapter", "LooksRareAdapter") ]

Getters8 ==
  [ getX2Y2Adapter |-> G("X2Y2Adapter", "X2Y2Adapter"),
    getBlurAdapter |-> G("BlurAdapter", "BlurAdapter"),
    getTimeLockExecutor |-> G("TimeLockExecutor", "ExecutorWithTimelock"),
    getMultiSendCallOnly |-> G("MultiSendCallOnly", "MultiSendCallOnly"),
    getBAYCSewerPass |-> G("SEWER", "BAYCSewerPass"),
    getTimeLockProxy |-> G("TimeLockProxy", "TimeLock"),
    getNTokenOtherdeed |-> G("NTokenOtherdeedImpl", "NTokenOtherdeed"),
    getNTokenChromieSquiggle |-> G("NTokenChromieSquiggleImpl", "NTokenChromieSquiggle"),
    getHotWalletProxy |-> G("HotWalletProxy", "HotWalletProxy"),
    getDelegationRegistry |-> G("DelegationRegistry", "DelegateRegistry"),
    getStakefishValidatorFactory |-> G("StakefishValidatorFactory", "StakefishValidatorFactory"),
    getStakefishNFTManager |-> G("SFVLDR", "StakefishNFTManager") ]

Getters9 ==
  [ getStakefishValidator |-> G("StakefishValidator", "StakefishValidatorV1"),
    getDepositContract |-> G("DepositContract", "DepositContract"),
    getNTokenStakefish |-> G("NTokenStakefishImpl", "NTokenStakefish"),
    getAccount |-> G("Account", "Account"),
    getAccountRegistry |-> G("AccountRegistry", "AccountRegistry"),
    getAccountFactory |-> G("AccountFactory", "AccountFactory"),
    getMockVariableDebtToken |-> G("MockVariableDebtToken", "MockVariableDebtToken"),
    getMockInitializableImple |-> G("MockInitializableImple", "MockInitializableImple"),
    getMockInitializableImpleV2 |-> G("MockInitializableImpleV2", "MockInitializableImpleV2"),
    getMockIncentivesController |-> G("MockIncentivesController", "MockIncentivesController"),
    getMockAToken |-> G("MockAToken", "MockAToken"),
    getMockCToken |-> G("MockCToken", "MockCToken") ]

Getters10 ==
  [ getMockAirdropProject |-> G("MockAirdropProject", "MockAirdropProject"),
    getMockMultiAssetAirdropProject |->
        G("MockMultiAssetAirdropProject", "MockMultiAssetAirdropProject"),
    getMockReserveAuctionStrategy |->
        G("MockReserveAuctionStrategy", "MockReserveAuctionStrategy"),
    getMockBendDaoLendPool |-> G("MockBendDaoLendPool", "MockLendPool") ]

Getters == Getters1 @@ Getters2 @@ Getters3 @@ Getters4 @@ Getters5 @@ Getters6 @@ Getters7
             @@ Getters8 @@ Getters9 @@ Getters10

=============================================================================
