----------------------------- MODULE DeployPlan -----------------------------
(***************************************************************************)
(* The steps of a deployment, as what each does to the deployment database *)
(* and to the contracts it names.  A step is a sequence of operations:     *)
(*                                                                         *)
(*   new       deploys a contract and records it under its id; an          *)
(*             incremental run takes the recorded one, and skips the       *)
(*             initialization that follows (n operations)                  *)
(*   create    makes a contract through another one, afresh each time      *)
(*   register  records the address a contract answers                      *)
(*   put       records an address of the configuration                     *)
(*   look      needs records                                               *)
(*   init      initializes a proxy, within its deployment                  *)
(*   set, once a call that can be repeated, a call that reverts then       *)
(*   try       a once call whose failure is caught, and skips n operations *)
(*   keep      a call whose failure is logged and forgotten                *)
(*   unless    skips n operations when the id is recorded                  *)
(*   wipe      deletes the database                                        *)
(*                                                                         *)
(* An operation names the fact it establishes (id), the contract that has  *)
(* the fact as state (on) and the facts it relies on (uses).  m is the     *)
(* market that is deployed.                                                *)
(***************************************************************************)
EXTENDS ReservePlan, Contracts

LOCAL Op(kind, id, on, uses, n) ==
    [kind |-> kind, id |-> id, on |-> on, uses |-> uses, n |-> n]

NewWith(id, more) == << Op("new", id, "", more, 0) >>
New(id) == NewWith(id, {})
\* A proxy that is initialized as part of its deployment.
NewProxy(id) == << Op("new", id, "", {}, 1),
                   Op("init", id \o ".initialize", id, {}, 0) >>
\* What an operation relies on: what it names, and what a contract is deployed with.
Needs(op) ==
    op.uses \union IF op.kind \in {"new", "register"} THEN Contract(op.id).args ELSE {}

Create(on, id, uses) == << Op("create", id, on, uses, 0) >>
Register(id) == << Op("register", id, "", {}, 0) >>
Put(id) == << Op("put", id, "", {}, 0) >>
Look(uses) == << Op("look", "", "", uses, 0) >>
Set(on, id, uses) == << Op("set", id, on, uses, 0) >>
Once(on, id, uses) == << Op("once", id, on, uses, 0) >>
Try(on, id, uses, n) == << Op("try", id, on, uses, n) >>
Keep(on, id, uses) == << Op("keep", id, on, uses, 0) >>
Unless(id, ops) == << Op("unless", id, "", {}, Len(ops)) >> \o ops
When(cond, ops) == IF cond THEN ops ELSE << >>
Each(seq, Ops(_)) == FlattenSeq([i \in 1 .. Len(seq) |-> Ops(seq[i])])
NewAll(ids) == Each(ids, New)

ListedTokens(m, ids) == SelectSeq(ids, LAMBDA s : s \in ToSet(m.reserves))
TestChain(m) == isLocalTestnet(m.name) \/ isPublicTestnet(m.name)
Listed(m, s) == s \in ToSet(m.reserves)
-----------------------------------------------------------------------------
step_00(m) == << Op("wipe", "", "", {}, 0) >>

\* A fungible token of a test chain; its stETH is the one of this very run.
DeployERC20(s) ==
    IF s = "wstETH" THEN << Op("look", "stETH", "", {}, 0) >> \o New(s) ELSE New(s)

deployAllERC20Tokens(m) ==
    Each(ListedTokens(m, ERC20TokenContractId), LAMBDA s :
         Unless(s,
           IF s \notin m.tokens THEN DeployERC20(s)
           ELSE Put(s)
                \o When(s = "sAPE" /\ "ApeCoinStaking" \in m.external,
                        Put("ApeCoinStaking"))
                \o When(s = "sAPE" /\ "BAKC" \in m.external, Put("BAKC"))))

step_01(m) == deployAllERC20Tokens(m)

DeployUniswapV3 ==
    Look({"WETH"})
      \o NewAll(<<"NFTDescriptor", "NonfungibleTokenPositionDescriptor", "UniswapV3Factory",
                  "UniswapV3SwapRouter", "UniswapV3">>)

DeployStakefish ==
    NewAll(<<"DepositContract", "StakefishValidator", "StakefishValidatorFactory", "SFVLDR">>)
      \o Set("StakefishValidatorFactory", "setDeployer", {"SFVLDR"})

DeployERC721(s) ==
    CASE s = "WPUNKS" -> New("PUNKS") \o New("WPUNKS")
      [] s = "MEEBITS" -> Look({"PUNKS"}) \o New(s)
      [] s = "MOONBIRD" -> New(s) \o Set(s, "setNestingOpen", {})
      [] s = "UniswapV3" -> DeployUniswapV3
      [] s = "SFVLDR" -> DeployStakefish
      [] OTHER -> New(s)

deployAllERC721Tokens(m) ==
    Each(ListedTokens(m, ERC721TokenContractId), LAMBDA s :
         Unless(s,
           IF s \notin m.tokens THEN DeployERC721(s)
           ELSE Put(s)
                \o When(s = "UniswapV3" /\ "V3Factory" \in m.external,
                        Put("UniswapV3Factory"))
                \o When(s = "UniswapV3" /\ "V3Router" \in m.external,
                        Put("UniswapV3SwapRouter"))
                \o When(s = "WPUNKS" /\ "PUNKS" \in m.tokens, Put("PUNKS"))))

step_02(m) == deployAllERC721Tokens(m)

step_03(m) == When(TestChain(m), New("MockTokenFaucet"))

\* The tokens of the market, in the database.
AllTokens(m) == Look(getAllTokens(m))

step_04(m) ==
    AllTokens(m) \o New("PoolAddressesProviderRegistry") \o New("PoolAddressesProvider")
      \o Once("PoolAddressesProviderRegistry", "registerAddressesProvider",
              {"PoolAddressesProvider"})
      \o Set("PoolAddressesProvider", "setACLAdmin", {})
      \o Set("PoolAddressesProvider", "setWETH", {m.WrappedNativeTokenId})

step_05(m) ==
    Look({"PoolAddressesProvider"}) \o New("ACLManager")
      \o Set("PoolAddressesProvider", "setACLManager", {"ACLManager"})
      \o Set("ACLManager", "addPoolAdmin", {})
      \o Set("ACLManager", "addAssetListingAdmin", {})
      \o Set("ACLManager", "addEmergencyAdmin", {})
      \o Set("ACLManager", "addRiskAdmin", {})
-----------------------------------------------------------------------------
\* Adding the functions of a facet to the pool reverts when they are there.
AddFacet(id) == Once("pool", "add" \o id, {id})

deployPoolComponents(m) ==
    NewAll(<<"SupplyLogic", "SupplyExtendedLogic", "BorrowLogic", "AuctionLogic",
             "LiquidationLogic", "FlashClaimLogic", "MarketplaceLogic", "PoolLogic">>)
      \o AllTokens(m) \o Unless("TimeLockProxy", New("TimeLockProxy"))
      \o NewAll(<<"PoolCoreImpl", "PoolParametersImpl", "PoolMarketplaceImpl">>)
      \o When(Listed(m, "APE"), NewAll(<<"PoolApeStakingImpl", "PoolBorrowAndStakeImpl">>))

\* The libraries of the position mover are deployed once more.
deployPoolPositionMover ==
    NewAll(<<"SupplyLogic", "BorrowLogic", "PositionMoverLogic", "PoolPositionMoverImpl">>)

PositionMover(m) ==
    When("LendingPoolLoan" \notin m.external,
         Unless("MockBendDaoLendPool", Look({"WETH"}) \o New("MockBendDaoLendPool")))
      \o deployPoolPositionMover \o AddFacet("PoolPositionMoverImpl")

\* The first facet makes the provider create the pool.
step_06(m) ==
    Look({"PoolAddressesProvider"}) \o AllTokens(m)
      \o deployPoolComponents(m) \o New("ParaProxyInterfacesImpl")
      \o Once("PoolAddressesProvider", "pool", {"PoolParametersImpl"})
      \o AddFacet("PoolMarketplaceImpl")
      \o When(isLocalTestnet(m.name) \/ {"LendingPoolLoan", "PoolV1"} \cap m.external # {},
              PositionMover(m))
      \o New("PoolAAPositionMoverImpl") \o AddFacet("PoolAAPositionMoverImpl")
      \o When(Listed(m, "APE"), AddFacet("PoolApeStakingImpl")
                                  \o AddFacet("PoolBorrowAndStakeImpl"))
      \o AddFacet("PoolCoreImpl") \o AddFacet("ParaProxyInterfacesImpl")
      \o When(Listed(m, "APE"), Look({"UniswapV3SwapRouter", "cAPE"})
                                  \o Set("pool", "approveRouter", {"UniswapV3SwapRouter"})
                                  \o Set("pool", "approveCApe", {"cAPE"}))
      \o Register("PoolProxy")

step_07(m) ==
    Look({"PoolAddressesProvider"}) \o New("ConfiguratorLogic") \o New("PoolConfiguratorImpl")
      \o Once("PoolAddressesProvider", "configurator", {"PoolConfiguratorImpl"})
      \o Set("configurator", "setAuctionRecoveryHealthFactor", {"pool", "setACLManager"})
      \o Register("PoolConfiguratorProxy")

step_08(m) == New("ReservesSetupHelper")

step_09(m) ==
    AllTokens(m) \o When(isMainnet(m.name), Put("PriceOracle"))
      \o When(TestChain(m), New("PriceOracle") \o Set("PriceOracle", "setEthUsdPrice", {})
                              \o Set("PriceOracle", "setInitialAssetPrices", getAllTokens(m)))

\* (mutant: the floor oracle of an earlier run is taken, and its initialization not guarded)
deployNftOracleOnce(m) ==
    Look(getAllTokens(m) \cap ToSet(ERC721TokenContractId))
      \o Unless("NFTFloorOracle", New("NFTFloorOracle"))
      \o Once("NFTFloorOracle", "initializeFloorOracle", FloorProjects(m))
      \o Set("NFTFloorOracle", "setConfig", {})

\* A floor oracle that is initialized stays as it is, unconfigured if need be.
deployNftOracle(m) ==
    Look(getAllTokens(m) \cap ToSet(ERC721TokenContractId)) \o New("NFTFloorOracle")
      \o Try("NFTFloorOracle", "initializeFloorOracle", FloorProjects(m), 1)
      \o Set("NFTFloorOracle", "setConfig", {})

step_10(m) ==
    AllTokens(m) \o Look({"PoolAddressesProvider"}) \o deployNftOracle(m)
      \o NewWith("Aggregators", IF Listed(m, "UniswapV3") THEN {"UniswapV3Factory"} ELSE {})
      \o NewWith("ParaSpaceOracle",
                 IF isMainnet(m.name) \/ TestChain(m) THEN {"PriceOracle"} ELSE {})
      \o Set("PoolAddressesProvider", "setPriceOracle", {"ParaSpaceOracle"})
      \o New("ProtocolDataProvider")
      \o Set("PoolAddressesProvider", "setProtocolDataProvider", {"ProtocolDataProvider"})
      \o New("UiPoolDataProvider") \o New("WalletBalanceProvider")
-----------------------------------------------------------------------------
\* The staking contract of the apes is deployed by whoever needs it first.
ApeCoinStakingContract ==
    Unless("ApeCoinStaking", New("ApeCoinStaking") \o Set("ApeCoinStaking", "addTimeRange", {}))

Library(id) == Unless(id, New(id))

\* What a token implementation needs before it is deployed.
BeforeToken(id) ==
    CASE id = "PTokenCApeImpl" -> ApeCoinStakingContract \o New("cAPEImpl")
                                    \o Once("cAPE", "initializeCApe", {"cAPEImpl"})
      [] id = "PYieldTokenImpl" -> ApeCoinStakingContract \o New("yAPEImpl")
                                    \o Once("yAPE", "initializeYApe", {"yAPEImpl"})
      [] id \in {"NTokenBAYCImpl", "NTokenMAYCImpl"} ->
            ApeCoinStakingContract \o Library("ApeStakingLogic") \o Library("MintableERC721Logic")
      [] id = "NTokenBAKCImpl" -> ApeCoinStakingContract \o Library("MintableERC721Logic")
      [] OTHER -> When("MintableERC721Logic" \in Contract(id).args,
                       Library("MintableERC721Logic"))

debtTokenOf ==
    [PTokenStETHImpl |-> "StETHDebtToken", PTokenStKSMImpl |-> "StKSMDebtToken",
     PTokenATokenImpl |-> "ATokenDebtToken", PTokenAStETHImpl |-> "AStETHDebtToken",
     PTokenCApeImpl |-> "CApeDebtToken"]
DebtToken(id) == IF id \in DOMAIN debtTokenOf THEN debtTokenOf[id] ELSE "VariableDebtTokenImpl"

\* The vaults are initialized for their reserve; a token implementation serves its group.
initReservesByHelper(m, g) ==
    LET group == Groups(m)[g]
        tokens == [i \in 1 .. Len(group) |-> xTokenToUse(m, group[i])]
        First(i, F(_)) == \A j \in 1 .. i - 1 : F(tokens[j]) # F(tokens[i])
        Token(i) == When(First(i, LAMBDA x : x), BeforeToken(tokens[i]) \o New(tokens[i]))
                      \o When(First(i, DebtToken), New(DebtToken(tokens[i])))
    IN  FlattenSeq([i \in 1 .. Len(tokens) |-> Token(i)])
          \o Keep("pool", "reserves" \o ToString(g),
                  ToSet(tokens) \union {DebtToken(tokens[i]) : i \in 1 .. Len(tokens)})

configureReservesByHelper(g) ==
    Set("ACLManager", "helperIsAdmin", {"ReservesSetupHelper"})
      \o Keep("pool", "configureReserves" \o ToString(g), {"reserves" \o ToString(g)})

step_11(m) ==
    AllTokens(m)
      \o When(isLocalTestnet(m.name),
              NewAll(<<"MockIncentivesController", "MockReserveAuctionStrategy",
                       "HotWalletProxy">>)
                \o Set("HotWalletProxy", "initializeHotWallet", {}) \o New("DelegationRegistry"))
      \o Look({"PoolProxy", "PoolConfiguratorProxy", "ReservesSetupHelper"})
      \o FlattenSeq([g \in 1 .. Len(Groups(m)) |->
                        initReservesByHelper(m, g) \o configureReservesByHelper(g)])

step_12(m) == New("UiIncentiveDataProvider")

step_13(m) ==
    When(Listed(m, m.WrappedNativeTokenId),
         AllTokens(m) \o Look({"PoolAddressesProvider", "pool"})
           \o NewWith("WETHGatewayImpl", {m.WrappedNativeTokenId})
           \o NewProxy("WETHGatewayProxy"))

step_14(m) ==
    When(Listed(m, "WPUNKS"),
         AllTokens(m) \o Look({"PUNKS", "PoolAddressesProvider"})
           \o New("WPunkGatewayImpl") \o NewProxy("WPunkGatewayProxy"))
-----------------------------------------------------------------------------
\* Enabling a marketplace; it can be repeated.
SetMarketplace(id, uses) == Set("PoolAddressesProvider", "setMarketplace" \o id, uses)

step_15(m) ==
    Look({"PoolAddressesProvider", "ProtocolDataProvider"})
      \o NewAll(<<"ConduitController", "PausableZoneController">>)
      \o Once("ConduitController", "conduit", {})
      \o Once("conduit", "initializeConduit", {"ProtocolDataProvider"})
      \o Create("PausableZoneController", "zone", {})
      \o NewAll(<<"Seaport", "SeaportAdapter">>)
      \o When(m.name \notin {"zksync", "zksyncGoerli"},
              Set("conduit", "updateChannel", {"Seaport"}))
      \o SetMarketplace("ParaSpace", {"Seaport", "SeaportAdapter", "conduit"})
      \o When("Seaport" \in m.external, SetMarketplace("OpenSea", {"SeaportAdapter"}))
      \o Register("Conduit") \o Register("PausableZone")

step_16(m) ==
    AllTokens(m)
      \o When(TestChain(m) /\ Listed(m, "WETH"),
              New("CurrencyManager") \o Look({"PoolAddressesProvider"})
                \o When(Listed(m, "DAI"), Once("CurrencyManager", "addCurrencyDAI", {"DAI"}))
                \o Once("CurrencyManager", "addCurrencyWETH", {"WETH"})
                \o NewAll(<<"ExecutionManager", "RoyaltyFeeRegistry", "RoyaltyFeeManager",
                            "LooksRareExchange", "StrategyStandardSaleForFixedPrice",
                            "LooksRareAdapter">>)
                \o SetMarketplace("LooksRare", {"LooksRareExchange", "LooksRareAdapter"})
                \o NewAll(<<"TransferManagerERC721", "TransferManagerERC1155",
                            "TransferSelectorNFT">>)
                \o Set("LooksRareExchange", "updateTransferSelectorNFT", {"TransferSelectorNFT"})
                \o Once("ExecutionManager", "addStrategy",
                        {"StrategyStandardSaleForFixedPrice"}))

step_17(m) ==
    When(TestChain(m),
         Look({"PoolAddressesProvider"}) \o New("X2Y2R1")
           \o Once("X2Y2R1", "initializeX2Y2", {"setWETH"}) \o New("ERC721Delegate")
           \o Set("X2Y2R1", "updateDelegates", {"ERC721Delegate"})
           \o Set("ERC721Delegate", "grantRole", {"X2Y2R1"})
           \o New("X2Y2Adapter") \o SetMarketplace("X2Y2", {"X2Y2R1", "X2Y2Adapter"}))

step_18(m) ==
    Look(getAllTokens(m) \cap ToSet(ERC20TokenContractId))
      \o When(TestChain(m) /\ Listed(m, "WETH"),
              Look({"PoolAddressesProvider"})
                \o NewAll(<<"MerkleVerifier", "BlurExchangeImpl", "ExecutionDelegate",
                            "PolicyManager", "StandardPolicyERC721">>)
                \o Once("PolicyManager", "addPolicy", {"StandardPolicyERC721"})
                \o NewProxy("BlurExchangeProxy")
                \o Set("ExecutionDelegate", "approveContract", {"BlurExchangeProxy"})
                \o New("BlurAdapter")
                \o SetMarketplace("Blur", {"BlurExchangeProxy", "BlurAdapter",
                                           "ExecutionDelegate"}))

step_19(m) ==
    AllTokens(m) \o Look({"PoolAddressesProvider"})
      \o NewAll(<<"AirdropFlashClaimReceiver", "FlashClaimRegistry">>)
      \o NewProxy("UserFlashClaimRegistryProxy")
      \o When(TestChain(m) /\ Listed(m, "BAYC") /\ Listed(m, "MAYC"),
              NewAll(<<"MockAirdropProject", "MockMultiAssetAirdropProject">>)
                \o When(Listed(m, "BAKC") /\ Listed(m, "SEWER"), New("BAYCSewerPassClaim")))

\* The NToken of an ape is looked up in the pool, where its group has to be listed.
ListingOf(m, s) ==
    {"reserves" \o ToString(g) : g \in {k \in 1 .. Len(Groups(m)) : s \in ToSet(Groups(m)[k])}}

step_20(m) ==
    When(Listed(m, "APE"),
         AllTokens(m) \o Look({"ProtocolDataProvider"}) \o ApeCoinStakingContract
           \o New("P2PPairStakingImpl") \o New("P2PPairStaking")
           \o Once("P2PPairStaking", "initializeP2P", {"P2PPairStakingImpl"})
           \o Look({"PoolProxy"})
           \o Each(<<"BAYC", "MAYC", "BAKC">>, LAMBDA s :
                   Set("pool", "approveP2P" \o s, {"P2PPairStaking"} \union ListingOf(m, s))))

step_21(m) ==
    When(Listed(m, "APE"),
         AllTokens(m) \o Look({"ProtocolDataProvider", "PoolProxy"})
           \o New("HelperContractImpl") \o New("HelperContract")
           \o Once("HelperContract", "initializeHelper", {"HelperContractImpl"}))

step_22(m) ==
    Look({"PoolAddressesProvider", "TimeLockProxy"}) \o AllTokens(m) \o New("TimeLockImpl")
      \o Once("TimeLockProxy", "initializeTimeLock", {"TimeLockImpl"})

\* Where the market has administrators of its own, the deployer hands over to them.
step_23(m) ==
    Look({"PoolAddressesProviderRegistry", "PoolAddressesProvider", "ReservesSetupHelper",
          "ConduitController", "Conduit", "PausableZoneController", "ACLManager"})
      \o When(m.admins, Set("PoolAddressesProvider", "handedOver", {}))

step_24(m) ==
    When(~isLocalTestnet(m.name), NewAll(<<"Account", "AccountRegistry", "AccountFactory">>))

\* The tokens of the reserves are recorded from the front end's view of the pool.
afterAll(m) == Look({"UiPoolDataProvider", "PoolAddressesProvider"}) \o Put("xTokens")

Steps(m) ==
    << step_00(m), step_01(m), step_02(m), step_03(m), step_04(m), step_05(m), step_06(m),
       step_07(m), step_08(m), step_09(m), step_10(m), step_11(m), step_12(m), step_13(m),
       step_14(m), step_15(m), step_16(m), step_17(m), step_18(m), step_19(m), step_20(m),
       step_21(m), step_22(m), step_23(m), step_24(m), afterAll(m) >>

=============================================================================
