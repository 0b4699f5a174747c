---------------------------- MODULE ReserveSetup ----------------------------
(***************************************************************************)
(* Steps 10 and 11 of a deployment: the price source of every token of a   *)
(* market, then its reserves.  Step 11 goes through the listed reserves in *)
(* groups of 20.  For each group it deploys the token implementations,     *)
(* sends one initReserves transaction per 4 reserves, and one              *)
(* configureReserves transaction that ReservesSetupHelper executes, as a   *)
(* pool admin for the time of the call.  A failed transaction is logged    *)
(* and forgotten; any other error ends the process, and the operator runs  *)
(* the step again.  Meanwhile the reserves already listed are open.        *)
(*                                                                         *)
(* What the chain holds of a reserve never changes here, so the state has  *)
(* only which reserves are listed and which are configured.                *)
(***************************************************************************)
EXTENDS ReservePlan

CONSTANT MaxFaults   \* how often a process dies or a transaction fails

ASSUME FaultsAssumption == MaxFaults \in Nat

VARIABLES network, pc, group, pos, todo,
          priced,        \* the price oracle is set, with deployAllAggregators[network]
          listed,        \* the reserves of the pool, each with its InitReserveInput
          configured,    \* those that have the parameters of their ConfigureReserveInput
          apeProxies,    \* the ApeCoin vaults whose proxy has its implementation
          helperIsPoolAdmin, supplied, faults,
          clean          \* no transaction of this run failed by accident

progress == <<pc, group, pos, todo>>
chain == <<priced, listed, configured, apeProxies, helperIsPoolAdmin, supplied>>
vars == <<network, progress, chain, faults, clean>>

market == Markets[network]
Group == GroupsOf[network][group]

-----------------------------------------------------------------------------
\* What configureReserveAsCollateral and the setters require of the parameters of a reserve.
ValidRisk(r) ==
    /\ r.ltv <= r.threshold
    /\ IF r.threshold # 0
       THEN r.bonus >= 10000 /\ (r.threshold * r.bonus + 5000) \div 10000 <= 10000
       ELSE r.bonus = 0
    /\ r.reserveFactor <= 10000

\* No one may have supplied a reserve that is not to be collateral.
ConfiguratorAccepts(s, r) ==
    /\ s \in listed
    /\ ValidRisk(r)
    /\ r.threshold = 0 => s \notin supplied

\* (mutant: a reserve is taken for configured when it is active)
AlreadyActive(s) == s \in listed

usageAsCollateralEnabled(s) ==
    s \in configured /\ ConfigureReserveInput[network][s].threshold # 0

-----------------------------------------------------------------------------
(* What the steps rely on and only the tables of the markets see to.       *)

\* The apes come in an earlier initReserves transaction than the tokens that stake them.
ApesComeFirst(reserves) ==
    \A i \in DOMAIN reserves : reserves[i] \in {"sAPE", "BAKC"} =>
        {"BAYC", "MAYC"} \subseteq {reserves[j] : j \in 1 .. 4 * ((i - 1) \div 4)}

\* Every market has reserves, none of them twice, and the configurator has nothing against
\* their parameters.  An oracle that has all its sources has the feed of the network too.
ASSUME PlanAssumption == \A n \in Networks :
    /\ Reserves(Markets[n]) \in Seq(STRING) \ {<< >>}
    /\ IsInjective(Reserves(Markets[n]))
    /\ ApesComeFirst(Reserves(Markets[n]))
    /\ \A s \in ReservesOf[n] : ValidRisk(ConfigureReserveInput[n][s])
    /\ OracleCanBeDeployed(Markets[n]) => HasNetworkFeed(Markets[n])

-----------------------------------------------------------------------------
Init ==
    /\ network \in Networks
    /\ pc = "oracle" /\ group = 1 /\ pos = 1 /\ todo = {}
    /\ priced = FALSE /\ listed = {} /\ configured = {} /\ apeProxies = {}
    /\ helperIsPoolAdmin = FALSE /\ supplied = {} /\ faults = 0 /\ clean = TRUE

\* An error outside the two try blocks: the process exits.
Throw == pc' = "aborted" /\ UNCHANGED <<group, pos, todo>>

\* Step 10, from the aggregators to setPriceOracle.
DeployOracle ==
    /\ pc = "oracle"
    /\ IF OracleCanBeDeployed(market)
       THEN /\ priced' = TRUE
            /\ pc' = IF HasNetworkFeed(market) THEN "prepare" ELSE "aborted"
       ELSE pc' = "aborted" /\ UNCHANGED priced
    /\ UNCHANGED <<network, group, pos, todo, listed, configured, apeProxies, helperIsPoolAdmin,
                   supplied, faults, clean>>

\* (mutant: the staking tokens wait for the kennel too)
CanPrepareAfterBAKC(s) ==
    /\ s \in {"sAPE", "BAKC"} => {"BAYC", "MAYC", "BAKC"} \subseteq listed \union {s}
    /\ s \in {"cAPE", "yAPE"} => s \notin apeProxies

\* The contracts of one reserve.  The staking tokens look up nBAYC and nMAYC in the pool;
\* the vaults initialize their proxy, which reverts when that was done before.
CanPrepare(s) ==
    /\ s \in {"sAPE", "BAKC"} => {"BAYC", "MAYC"} \subseteq listed
    /\ s \in {"cAPE", "yAPE"} => s \notin apeProxies

PrepareReserve ==
    LET s == Group[pos]
    IN  /\ pc = "prepare"
        /\ IF CanPrepare(s)
           THEN /\ apeProxies' = apeProxies \union ({s} \cap {"cAPE", "yAPE"})
                /\ pc' = IF pos % 4 = 0 \/ pos = Len(Group) THEN "init" ELSE "prepare"
                /\ pos' = pos + 1
                /\ UNCHANGED <<group, todo>>
           ELSE Throw /\ UNCHANGED apeProxies
        /\ UNCHANGED <<network, priced, listed, configured, helperIsPoolAdmin, supplied, faults,
                       clean>>

\* The reserves of one initReserves transaction; it reverts if one of them is listed.
Chunk == ToSet(chunk(Group, 4)[(pos + 2) \div 4])

InitReserves ==
    /\ pc = "init"
    /\ pc' = IF pos > Len(Group) THEN "plan" ELSE "prepare"
    /\ \/ /\ listed' = IF Chunk \cap listed = {}
                        THEN listed \union Chunk ELSE listed
          /\ UNCHANGED <<faults, clean>>
       \/ /\ faults < MaxFaults
          /\ faults' = faults + 1 /\ clean' = FALSE
          /\ UNCHANGED listed
    /\ UNCHANGED <<network, group, pos, todo, priced, configured, apeProxies, helperIsPoolAdmin,
                   supplied>>

NextGroup ==
    /\ IF group < Len(GroupsOf[network])
       THEN pc' = "prepare" /\ group' = group + 1
       ELSE pc' = "done" /\ UNCHANGED group
    /\ pos' = 1 /\ todo' = {}

\* The reserves of the group that are not collateral yet.
PlanConfiguration ==
    /\ pc = "plan"
    /\ LET rest == {s \in ToSet(Group) : ~usageAsCollateralEnabled(s)}
       IN  IF rest = {} THEN NextGroup
           ELSE pc' = "addAdmin" /\ todo' = rest /\ UNCHANGED <<group, pos>>
    /\ UNCHANGED <<network, chain, faults, clean>>

AddPoolAdmin ==
    /\ pc = "addAdmin"
    /\ pc' = "configure" /\ helperIsPoolAdmin' = TRUE
    /\ UNCHANGED <<network, group, pos, todo, priced, listed, configured, apeProxies, supplied,
                   faults, clean>>

\* One transaction for all of them: one that is refused takes the others with it.
ConfigureReserves ==
    /\ pc = "configure"
    /\ pc' = "removeAdmin"
    /\ \/ /\ configured' = IF \A s \in todo :
                           ConfiguratorAccepts(s, ConfigureReserveInput[network][s])
                     THEN configured \union todo ELSE configured
          /\ UNCHANGED <<faults, clean>>
       \/ /\ faults < MaxFaults
          /\ faults' = faults + 1 /\ clean' = FALSE
          /\ UNCHANGED configured
    /\ UNCHANGED <<network, group, pos, todo, priced, listed, apeProxies,
                   helperIsPoolAdmin, supplied>>

RemovePoolAdmin ==
    /\ pc = "removeAdmin"
    /\ helperIsPoolAdmin' = FALSE
    /\ NextGroup
    /\ UNCHANGED <<network, priced, listed, configured, apeProxies, supplied, faults, clean>>

ScriptStep == \/ DeployOracle \/ PrepareReserve \/ InitReserves \/ PlanConfiguration
              \/ AddPoolAdmin \/ ConfigureReserves \/ RemovePoolAdmin

\* The process dies, or a transaction that is not in a try block fails.
Crash ==
    /\ pc \notin {"done", "aborted", "crashed"} /\ faults < MaxFaults
    /\ pc' = "crashed" /\ faults' = faults + 1
    /\ UNCHANGED <<network, group, pos, todo, chain, clean>>

AllSetUp == /\ ReservesOf[network] \subseteq listed
            /\ ReservesOf[network] \subseteq configured

\* The operator starts the step again, after an error or on finding reserves missing.
Rerun ==
    /\ pc \in {"crashed", "aborted"} \/ (pc = "done" /\ ~AllSetUp)
    /\ pc' = IF priced THEN "prepare" ELSE "oracle"
    /\ group' = 1 /\ pos' = 1 /\ todo' = {} /\ clean' = TRUE
    /\ UNCHANGED <<network, chain, faults>>

\* A listed reserve is open.  The script only feels the supply of a reserve that is not to be
\* collateral.
Supply(s) ==
    /\ s \in listed \ supplied
    /\ ParamsOf(market, s).liquidationThreshold = 0
    /\ supplied' = supplied \union {s}
    /\ UNCHANGED <<network, progress, priced, listed, configured, apeProxies, helperIsPoolAdmin,
                   faults, clean>>

Next == ScriptStep \/ Crash \/ Rerun
        \/ \E s \in listed : Supply(s)

Spec == Init /\ [][Next]_vars
\* The script runs on, and the operator does not give up.
FairSpec == Spec /\ WF_vars(ScriptStep) /\ WF_vars(Rerun)

-----------------------------------------------------------------------------
\* The failures that step 11 only logs are no accident of the configuration: a run in which
\* no transaction failed by accident lists every reserve and configures every group, even when
\* earlier runs stopped half way and many of its own transactions revert for that.  Only the
\* supply of a reserve that is not to be collateral keeps its group from being configured.
\* ReservesSetupHelper, a pool admin while it configures reserves, is none afterwards, unless
\* a run stopped in between: no later one takes back what an earlier one has granted.
CompleteRunSetsUpAll ==
    pc = "done" /\ clean =>
      /\ helperIsPoolAdmin => faults > 0
      /\ ReservesOf[network] \subseteq listed
      /\ \A g \in 1 .. Len(GroupsOf[network]) :
            ToSet(GroupsOf[network][g]) \cap supplied = {}
              => ToSet(GroupsOf[network][g]) \subseteq configured

\* A run ends in an error of its own for one of three reasons: a token no price source is
\* known for, a vault whose proxy was initialized by an earlier run, which had to be repeated,
\* or a failed transaction that left the apes unlisted when the tokens that stake them are
\* deployed.
AbortHasCause ==
    pc = "aborted" =>
      \/ \E s \in DOMAIN deployAllAggregators[network] : deployAllAggregators[network][s] = "none"
      \/ apeProxies # {} /\ (faults > 0 \/ supplied # {})
      \/ ~clean /\ ~({"BAYC", "MAYC"} \subseteq listed)

\* Every listed reserve has a price source that can answer: a floor price is asked of the
\* floor oracle only for a collection it follows, and a mock serves no main network but the
\* three that are configured with mocks.  Two fungible tokens of Mainnet are wired to the
\* floor oracle, which follows collections only.
ListedReservesHavePrices ==
    \A s \in listed :
      /\ priced
      /\ deployAllAggregators[network][s] = "ERC721OracleWrapper"
           => s \in FloorProjects(market) \union {"uBAYC", "uPPG"}
      /\ deployAllAggregators[network][s] = "mock" /\ isMainnet(network)
           => network \in {"linea", "neon", "parallel"}

\* The strategies of a listed reserve suit it: collections and no other reserve are set up as
\* such, auctioned, priced for idle liquidity and never borrowed; the time lock counts in the
\* decimals of the reserve, but for two reserves; the token is the one the configuration
\* names, but for two collections with a token of their own and bendETH, which step 11 gives
\* the plain token.
StrategiesFit ==
    \A s \in listed :
      LET r == InitReserveInput[network][s]
          collection == s \in ToSet(ERC721TokenContractId)
      IN  /\ collection <=> r.assetType = "ERC721"
          /\ collection <=> r.auctionStrategy # "Zero"
          /\ collection <=> r.strategy = "NFT"
          /\ collection <=> r.decimals = 0
          /\ collection => ~ConfigureReserveInput[network][s].borrowing
          /\ r.timeLockStrategy # "Zero" /\ s \notin {"xcUSDT", "cETH"}
               => TimeLockStrategies[r.timeLockStrategy].decimals = r.decimals
          /\ s \notin {"OTHR", "BLOCKS", "bendETH"}
               => r.xTokenImpl = ParamsOf(market, s).xTokenImpl

\* The step can be repeated until the market is complete: in a market without ApeCoin vaults,
\* with prices for its tokens, and where nobody supplies a reserve that is not to be
\* collateral, a finite number of faults delays the setup but does not prevent it.
EventuallySetUp ==
    OracleCanBeDeployed(market) /\ ReservesOf[network] \cap {"cAPE", "yAPE"} = {}
        /\ [](supplied = {})
      => <>[](pc = "done" /\ AllSetUp)

=============================================================================
