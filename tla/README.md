# Verification of ParaSpace

ParaSpace is a lending protocol on Ethereum. Users supply ERC20 assets and
NFTs to a Pool, borrow ERC20 assets against them, and are liquidated when
prices turn against them; NFTs are sold in auctions. The repository holds the
contracts and the TypeScript that deploys, configures, hands over and upgrades
them. This directory holds TLA+ modules translated from both, TLC
configurations that check them on small instances, and TLAPS proofs about them
for every value of the constants.

Run a check with `tlc -config X.cfg M`, a proof with `tlapm M.tla`.
`PROJECT.json` lists the components, the runs with their properties, a mutant
for every property (a plausible bug of the code that the run finds), the source
lines of every definition, the hazards of the code and the theorems.

## Inventory

Paths are relative to `src/contracts`; those of the scripts, in the second
table, to `src`.

| Component | State | Operations |
|---|---|---|
| **Pool core** (`protocol/pool/PoolCore.sol`, `protocol/libraries/logic/*`) | per user: a bit per reserve "used as collateral", a bit per reserve "borrowing", `auctionValidityTime`; per reserve: configuration, indexes | supply, withdraw, borrow, repay, repayWithPTokens, set as collateral, supply/withdraw/mark ERC721, startAuction, endAuction, liquidateERC20, liquidateERC721, finalizeTransfer |
| **PToken, debt token** (`protocol/tokenization/PToken.sol`, `VariableDebtToken.sol`, `base/*`) | scaled balances, the underlying held | mint, burn, transfer, transferOnLiquidation, transferUnderlyingTo |
| **NToken** (`protocol/tokenization/NToken.sol`, `base/MintableIncentivizedERC721.sol`, `libraries/MintableERC721Logic.sol`) | owners, enumeration arrays with their index maps, counters, collateral marks, auctions, approvals, delegations | mint, burn, transfer, batch marks, start and end of an auction, approve, delegateForToken |
| **Reserve state** (`ReserveLogic.sol`, interest rate strategy, math) | liquidity and borrow index, rates, accrued treasury | updateState, updateInterestRates, mintToTreasury |
| **Configurator and parameters** | reserve flags, caps, thresholds, auction and time lock strategies; reserve list | pause, freeze, caps, init/drop reserve |
| **Time lock** (`misc/TimeLock.sol`, `misc/DefaultTimeLockStrategy.sol`) | agreements, freezes, list of quick beneficiaries; amount of the period | createAgreement, claim (four forms), freeze, unfreeze, list |
| **ApeCoin vaults** (`apestaking/AutoCompoundApe.sol`, `AutoYieldApe.sol`, `protocol/tokenization/PYieldToken.sol`) | shares, buffer, yield index | deposit, withdraw, harvest, compound |
| **Peer-to-peer ape staking** (`apestaking/P2PPairStaking.sol`) | listing status, matches, match count of an ape, ApeCoin shares | cancel, match, break up, claim |
| **Ape staking of supplied apes** (`PoolApeStaking.sol`, `NTokenApeStaking.sol`, `ApeStakingLogic.sol`) | staked ApeCoin as collateral (SAPE) | deposit, withdraw, borrow and stake, unstake and repay |
| **NFT floor oracle** (`misc/NFTFloorOracle.sol`) | assets, feeders, feeds, price, expiry | setPrice, add/remove asset and feeder, median |
| **Price oracle and sentinel** | sources, fallback, sequencer state | getAssetPrice |
| **Marketplace with credit, flash claim, position movers** | none of their own | compositions of supply, borrow and external calls |
| **Governance executor** (`governance/ExecutorWithTimelock.sol`) | queued actions, delay, admins | queue, cancel, execute |
| **Pool proxy, access control, address book** (`protocol/libraries/paraspace-upgradeability`, `protocol/configuration`) | routing table of selectors, roles, owners, addresses | updateImplementation, grant, revoke, transferOwnership |
| **Rebasing tokens, Uniswap V3 NTokens, special NTokens** | variants of PToken and NToken | the same |
| **Account abstraction, airdrop, gateways, data providers** | none of the protocol | wrappers and views |

| Scripts | State | Operations |
|---|---|---|
| **Market configuration** (`market-config/*`) | none: tables of reserves, strategies, price sources | read by symbol |
| **Reserve setup** (`scripts/deployments/steps/10_*`, `11_*`, `helpers/init-helpers.ts`) | reserves listed and configured, price oracle | deploy prices, initReserves by chunks of 4, configureReserves by groups of 20 |
| **Deployment** (`tasks/deployments/all.ts`, 25 steps, `helpers/contracts-*.ts`) | the database of contracts, links between contracts | deploy and record, look up, connect; resume, incremental run, rerun |
| **Ownership handover** (`steps/23_renounceOwnership.ts`) | owners, proxy admins, roles, proposed owners | some twenty transactions, run again by another owner |
| **Pool upgrade** (`scripts/upgrade/pool.ts`, `tasks/upgrade/index.ts`) | the routing table, updates noted for governance | upgrade together or one by one, reset, note, execute |
| **Governance tools** (`tasks/dev/timeLock.ts`) | the queue in the database | queue, execute, cancel, renew |

### How they interact

A user calls the Pool. The Pool calls the xTokens of the reserves involved
(`mint`, `burn`, `transferOnLiquidation`, `transferUnderlyingTo`) and writes the
user's bits from the counts they return. An xToken whose token is transferred by
its holder calls back `finalizeTransfer`, which validates the health factor and
updates the bits. The Pool reads prices from the oracle whenever it values an
account. An xToken that releases an underlying hands it to the time lock, when
the reserve has a time lock strategy, and creates an agreement there. Everything
is one transaction: a failing `require` anywhere undoes all of it. Reentrancy
guards keep two transactions of the Pool from nesting, which is why a
transaction is one action in `Pool`.

The scripts run in one process, one transaction after the other, but that
process may die, a transaction may fail, and others may act between two
transactions. They hand addresses from step to step through a database, which
is written apart from the chain. After the handover the scripts can only note
what they would send; whoever owns the address book executes it, later.

### What is hard

- **Redundant state.** The borrowing bit repeats `debt > 0`, the collateral bit
  of a collection repeats "some token is marked", and each operation maintains
  them from cached counts. A lost bit hides debt or collateral from the health
  factor.
- **Auctions as two timestamps.** A token is auctioned when its record is later
  than a date kept for its owner in another contract. Records outlive resets,
  owners change, blocks have one timestamp.
- **Interleaving with the market.** Prices move between any two transactions.
- **Rounding** of thresholds, bonuses and averages.
- **Loops over batches** on cached lengths, with swap-and-pop enumerations.
- **Administrators** who pause, freeze, and switch strategies at any moment.
- **Rights that outlive ownership**: approvals and delegations.
- **Money in transit**: what the time lock holds belongs to nobody's balance.
- **Two stores that can disagree**: a contract is deployed, recorded and
  connected by separate calls, and a later run takes one for the other.
- **Half-done sequences of transactions**: temporary rights, rights that move
  one by one, functions that are removed first and added later.
- **Tables edited by hand**: a reserve is described in several of them by symbol.
- **Plans computed now and executed later**, in another order, or again.

## Modules

| Module | Models | Kind |
|---|---|---|
| `NToken` | the ledger of receipt NFTs as the Pool sees it | abstract specification |
| `Pool` (EXTENDS `NToken`) | Pool, PTokens, debt tokens, prices, configuration flags | composition |
| `PoolProofs` (EXTENDS `Pool`, `NTokenRights`) | types, bits, marks and auctions; conserved liquidity, flags and fair liquidations; approvals, recorded delegations, who can orphan one | proofs |
| `Sums` | what adding up a function over a finite set does | lemmas |
| `NTokenLedger` | the storage of an NToken, one step per loop iteration; implements `NToken` | detailed specification |
| `NTokenLedgerProofs` | enumerations, counters and the refinement | proofs |
| `NTokenRights` (EXTENDS `NToken`) | approvals, delegations, the delegation registry | component |
| `TimeLockStrategy` | waits and period limit | component |
| `TimeLock` (EXTENDS `TimeLockStrategy`) | agreements, claims, freezes | component |
| `TimeLockProofs` | what is held and owed, agreements, payments, the limit of a window | proofs |
| `MarketConfig` | the tables of `market-config` for every network | data |
| `ReservePlan` (EXTENDS `MarketConfig`) | what the scripts make of a configuration: price sources, groups, implementations, parameters | functions |
| `ReserveSetup` (EXTENDS `ReservePlan`) | steps 10 and 11, transaction by transaction | component |
| `ReserveSetupProofs` | complete runs, causes of errors, what is listed | proofs |
| `Contracts` | what each deployed contract is built with and each getter attaches | data |
| `DeployPlan` (EXTENDS `ReservePlan`, `Contracts`) | every step as a sequence of operations | functions |
| `Deployment` (EXTENDS `DeployPlan`) | the task that runs the steps, interrupted and continued | composition |
| `DeploymentProofs` | what a finished task may have left out | proofs |
| `Handover` | step 23: owners, admins and roles | component |
| `HandoverProofs` | all properties of `Handover` | proofs |
| `ParaProxy` | the routing table and its three cuts | functions |
| `Upgrade` (EXTENDS `ParaProxy`) | the upgrade scripts and what governance executes | composition |
| `UpgradeProofs` | the routing table and what it serves after any updates | proofs |
| `MC...` | values of constants | TLC |

A definition marked `\* (mutant: ...)` is not part of a specification. It is the mutated
form of the definition below it, used to show that a property notices that bug.

### Pool

State: `pBalance`, `debt`, `cash` (underlying held by a PToken),
`usingAsCollateral` and `borrowing` (the bits of `UserConfigurationMap`),
`atCurrentIndex` (debts that moved in this block, which cannot be repaid in it:
`validateRepay` compares indexes), `price`, `paused`, `frozen`, `auctionEnabled`, and
from `NToken` the owners, marks, auction records, `auctionValidityTime` and `now`.

There is one action per entry point, named after its `execute...` function, and
one per administrative switch. `SetPrice` is the market, `PassBlock` is time:
several transactions may share a timestamp, and
no debt stays at the current index over a block. `ValidateHFAndLtv` is evaluated
on the primed state, as the code does after it has burnt or moved the collateral.

Abstracted: indexes stand at one ray; an NFT is worth the floor price of its
collection (no trait multipliers, no Uniswap positions); no price oracle sentinel is
set (it could only refuse borrows and liquidations); wallets are not
modelled (anybody may bring assets); the auction price curve is a constant
function of elapsed time. `supplyERC721FromNToken`, Uniswap V3, flash claims and
the marketplace are left out.

### NToken and NTokenLedger

`NToken` has a batch in one step, owners as a function and no counters.
`NTokenLedger` has the contract's storage in one record `data`: owners, arrays,
index maps, counters, marks, auction records. A batch is a transaction in
progress (`tx`): the step that begins it caches the counters, `MintOne`, `BurnOne` and
`SetOne` are iterations, `FinishMint` and so on write the counters at the end,
and `Revert` restores the storage the transaction started from when the head of
the batch fails a `require`. The refinement maps a transaction in progress to
the storage it started from, so that a batch takes effect at its commit.

### NTokenRights

`tokenApprovals`, `operatorApprovals`, `tokenDelegations` are the contract's
maps; `registry` is the set of outgoing delegations of the NToken in the external
registry, written as `_updateTokenDelegation` calls it. `Move` is
`executeTransfer`, where a transfer to oneself clears the approval and leaves
the delegation.

### TimeLock

An agreement is a record with a beneficiary, an asset, an amount or a set of
tokens, a release time and its freeze. Creating it, the strategy's count and the
arrival of the underlying are one action (`ReleaseCoins`, `ReleaseNFTs`): they
happen in one call of an xToken. The four claims share `PayOut`: a batch pays all
its agreements or none. A claim calls receivers back, but the claims are not
reentrant and a callback can only make the Pool create an agreement, which has a
fresh id and is not due, so that the order does not matter. `undelayed` is a
history variable: what beneficiaries who are not listed took out at each time and, by the
release time of the agreement they got, receive without the extra delay
(`NoteUndelayed`). A listed beneficiary's release time is replaced (`TimeLock.sol:91`),
the extra delay with it, so that `WindowLimit` says nothing of what the listed take;
their amounts count towards the period all the same.
WETH that `claimETH` unwraps is counted as the coin. Any id may be
frozen, also before its agreement exists (creation then overwrites the freeze).

### MarketConfig, ReservePlan and ReserveSetup

`MarketConfig` is data: for every network its reserves with their parameters,
the strategies they name, the tokens that have an address or a price feed, and
the collections of the floor oracle. `ReservePlan` computes from it what the
scripts compute: `deployAllAggregators` (the price source of a token),
`Groups` (the supported reserves, 20 by 20), `InitReserveInput`,
`ConfigureReserveInput`; the results are functions of the network, so that TLC computes
each once. `ReserveSetup` sends the transactions. `pc`, `group` and `pos` are the
place of the script, `todo` what it is about to configure, `listed` and `configured` are the chain. The two
`try` blocks log a failure and go on; everything else throws and ends the
process. A configuration takes its whole group with it if the configurator
refuses one reserve, which is why somebody who supplies a listed reserve that is
not to be collateral (`Supply`) matters. `ReservesSetupHelper` is a pool admin
between `AddPoolAdmin` and `RemovePoolAdmin`. `Crash` is the death of the process
at any place, and the accidental failure of a transaction outside the `try`
blocks; `InitReserves` and `ConfigureReserves` may fail by accident too.

### Contracts, DeployPlan and Deployment

`DeployPlan` has one operator for each of the 25 steps; its comment
lists the kinds of operations. An operation names the fact it establishes (`id`),
the contract that has the fact as its state (`on`) and the facts it relies on
(`uses`: constructor arguments, linked libraries, getters called before it).
`Plan` is what a network's deployment consists of, and an action of `Deployment`
concerns one operation of it.
`Contracts` gives the constructor arguments and libraries of every contract,
and what every getter attaches. `Deployment` runs the operations. `done` is what
is established about the contracts in the database; when a contract is deployed
again it takes the record of its predecessor, whose state is lost, and whatever
was built with the predecessor has a `stale` link. `incremental` is
`DEPLOY_INCREMENTAL`, `Resume` is `DEPLOY_START`, after a crash or an error, `StartOver` begins with the step
that deletes the database. `here` are the contracts kept in a variable of the
process. The database is a file: with the default `DB_PATH` of ":memory:" there
would be nothing to resume.

### Handover

`rights` maps every right to the accounts that have it: an owner, a proxy admin,
the admin of the address book's roles, a role. `Calls` is the script, one element per
transaction, empty where a contract was not deployed or a role is held already.
`Accepts` is what the contracts check: the sender's right, the proxy that does
not let its admin through, the conduit that refuses to propose the same owner
twice. `Crash` and refused transactions end a run; `Start` begins
the next one, by any account that owns something, for any administrators.
`AcceptOwnership` is the account that was proposed. The floor oracle is part of every
deployment, because step 10 deploys it on every network (`FloorOracleAssumption`).

### ParaProxy and Upgrade

`ParaProxy` is `ParaProxyLib`: `route` and `pos` are the mapping of selectors,
`list` the selectors of a facet, `impls` and `at` the facets. A `require` that
fails makes a table that is not `ok`, and the update that made it changes
nothing. In `Upgrade` a facet is a component with the number of the run that deployed
it. The operator may name any facet that was ever deployed as the old one.
`Submit` sends an update while the signer owns the address book and notes it
afterwards; `Execute` applies a noted one, whichever, at any time, again. The delays
and the grace period of `ExecutorWithTimelock` and the queue in the database only
remove behaviours. For the properties a noted update remembers the routes it was
computed from (`basis`) and whether it named the right facets; `orderly` is
whether all updates applied so far matched.

## Runs

| Run | Instance | Shows |
|---|---|---|
| `pool_nft` | 2 users, WETH, 2 NFTs, price of the NFTs falls and recovers, 2 timestamps | types, both kinds of bits, auctions never lose their collateral nor revive, a healthy user cannot be auctioned, only the market endangers a position |
| `pool_erc20` | 2 users, 2 ERC20 assets, 1 of them to borrow | liquidations with either close factor, self-liquidation, repayment with PTokens: liquidity is conserved, fairness to the liquidated |
| `pool_admin` | 1 ERC20 asset, 1 NFT, any flag at any moment | a paused reserve stands still, a frozen one winds down |
| `ntoken_ledger` | 2 users, 3 tokens, batches of up to 3 with repetitions, 2 timestamps | enumerations and counters exact after every iteration; `NTokenLedger` implements `NToken` |
| `ntoken_rights` | 2 users, 2 tokens, 2 delegates | approvals end with ownership, records are active, only holders lose track of a delegation |
| `ntoken_delegation_end` | the same | **violated**: see Findings |
| `time_lock` | 2 users, 1 coin, 3 agreements, 4 timestamps, periods of 2 | backing, exact payment, agreements kept, window limit of beneficiaries who are not listed |
| `time_lock_nfts` | 2 users, an NFT of each of 2 collections, 3 agreements, fairness | an NFT is owed once, exactly while held; an agreement not kept frozen is paid |
| `reserve_setup` | every network, with all its reserves; 2 faults | a complete run has set up everything, errors have a cause, prices and strategies fit; reruns get there |
| `deployment` | every network, 1 fault | no step misses a record but for a cause; a finished run is coherent and complete but for what is listed; starting over gets there |
| `handover` | 6 accounts, 2 sets of administrators, 2 deployments, 1 fault | somebody always governs; a complete run moved everything; an interrupted one is never repaired; refusals have a cause |
| `upgrade` | 2 facets upgraded, 1 that stays, 2 releases, 2 upgrade runs | the table stays exact; it serves a release while plans fit; a repeated update reverts |

### Why the bounds are enough

Two users are a borrower and a liquidator, the two ends of a transfer, or one
account in both roles. Two NFTs of a collection distinguish "the last token" from
"a token"; three tokens give swap-and-pop a token that is neither the removed
one nor the last. Two timestamps give "same block" and "later block", and the
price moves of `pool_nft` take a position through healthy, liquidatable, partly
recovered and fully recovered. The amounts and prices are small enough for the
half-up roundings to matter, and the ERC20 prices fall first to the band where
half of the debt may be liquidated, then below it. In `time_lock` the three
agreements may exceed twice the period limit; amounts fall below, between and
above the thresholds where the clock allows.

The networks of `reserve_setup` and `deployment` are not samples:
they are all that `market-config` has, with every reserve. Two faults leave a
half-done run and interrupt the one that repairs it. One fault in `deployment`
is followed by any number of resumed and incremental runs; with two, a plain
rerun from step 4 followed by an incremental one mixes contracts of two
deployments, and `CoherentSystem` does not hold; nor does `AbortHasCause`, for an
incremental run after the handover calls contracts that are no longer the deployer's.
`NothingElseSkipped` holds for any number of faults (see Proofs). The two sets of administrators
of `handover` are the two that the scripts use: four signers of a test
network, and one account for everything, which can follow each other in
either order. The two releases of `upgrade` differ in a function that
moves from the core to the parameters, the only kind of difference between two
components; two upgrade runs after the deployment give a superseded facet, a
current one and a plan that is late, and lists of two selectors and three facets
give swap and pop something to move.

Bounds, by name: `PriceMoves`, `Amounts`, `Switchable`, `AuctionSwitchable`,
`MaxTime`, the caps `SupplyCap` and `BorrowCap` (which the code checks as well, and where 0 is no cap;
the runs set one for every reserve they have),
`MaxBatch`, `MaxAgreements`, `MaxFaults` (the operator meets finitely many
accidents), `MaxRuns` (upgrades that deploy); a time lock agreement is only made when its release
time is within `MaxTime`. Symmetry permutes users, tokens and delegates where
nothing distinguishes them; the liveness run uses none.

### Fairness

`ReserveSetup` and `Deployment` assume that the process runs on
(`WF(ScriptStep)`, `WF(Run)`) and that the operator starts again after an
error: in `ReserveSetup` he runs the script again (`WF(Rerun)`); in `Deployment` he may
continue where the run stopped as often as he likes, but if that keeps stopping he starts over
some day (`SF(StartOver)`: a continued run that trips over a call that cannot be repeated
trips every time). Faults are bounded. `EventuallySetUp`
excludes three situations in which no rerun helps: a token without a price, an
ApeCoin vault, whose proxy can be initialised once only, and a supply of a reserve
that is not to be collateral. `Handover` and `Upgrade` have no fairness:
nobody has to accept or execute anything.

Pool and NToken specifications have no fairness: no user, liquidator or
administrator is ever obliged to act, and the code promises nothing that must
happen. The time lock makes one such promise: what is locked can be claimed.
`FairTimeLockSpec` assumes that time passes and that the beneficiary of an
agreement keeps claiming it, alone. Freezing, unfreezing and listing are not fair
and may go on for ever. `EventuallyPaid` then says that no agreement stays
unpaid, unfrozen, for ever.

## Proofs

Theorems hold for any number of users, tokens, reserves, agreements, any prices,
thresholds, caps and strategies that satisfy the assumptions
(`NTokenAssumption`, `PoolAssumption`, `RiskAssumption`, `RightsAssumption`, `StrategyAssumption`,
`TimeLockAssumption`, `LedgerAssumption`, `HandoverAssumption`, `FloorOracleAssumption`,
`UpgradeAssumption`, `FaultsAssumption`, `NetworksAssumption`, `PlanAssumption`, `PlansAssumption`:
disjointness of roles, ranges of parameters, what the constructors and the configurator
require, contracts with at least one function and none twice; the last two say what the
scripts rely on in the tables, and TLC finds them true of every network there is). Where the prover has to add things up, sets of users and times are finite.

Sums are over sets of any size, and the library defines them by recursion. `Sums`
proves what is needed of them by induction over cardinalities, in first order: the
sizes for which a fact holds are a set of numbers, and a set of numbers that
misses one has a least one that it misses (`LeastNumber`, `AllNumbers`). It follows
that a sum can be split, and changes by what one place changes (`SumTake`, `SumSplit`).

- **Pool** (`PoolProofs`). The inductive invariant is
  `Inv == TokenInv /\ DebtInv /\ MoneyOK /\ MarketOK`. `CollectionFlagMatchesTokens`
  and `AuctionedTokensAreCollateral` are not inductive alone. A token that is
  withdrawn must take its mark and its record with it, or its next owner inherits
  them (`UnsuppliedTokensAreClean`); and a record dated in the future would
  survive a reset, which writes the present (`StampsInThePast`). There is one lemma per
  action, and lemmas for the shared effects (minting, losing tokens, burning
  debt, what leaves tokens or debts untouched). `InvHolds` gives
  `PoolTypeCorrect`, `BorrowingFlagCorrect`, `CollectionFlagCorrect` and
  `AuctionedTokensCorrect`.
- **Pool steps** (`PoolProofs`). `AuctionNeverRevivesHolds`: every step but
  `ExecuteStartAuction` is "quiet", under the invariant.
  `PausedReserveStandsStillHolds`: every entry point checks the pause of each
  reserve it moves. `LiquidityConservedHolds` is double entry: for each action and each
  asset, the change of the supply is the change of the liquidity and of the
  debt (`Balanced`). The balances are a matrix of accounts and assets; an action adds to
  a few of its places, possibly twice to the same one (the liquidator may be the borrower,
  the collateral the debt asset), and `Column` of the result is the column plus what was
  added in it. `FrozenReserveWindsDownHolds` uses the same columns.
  `LiquidationIsFairHolds` bounds each rounded division by its neighbours: what
  is seized is worth what is repaid with the bonus, up to a unit of each asset and the rounding
  of a percentage. It needs a bonus of at least 100%, which the configurator requires of a
  reserve with a liquidation threshold.
- **Two health factors** (`PoolProofs`). `HealthyMeansNFTsNearlySafeHolds`: an auction looks at what
  the NFTs secure once all ERC20 collateral has been liquidated. If the health factor of
  a user is at least one, that figure is too, or would be if the NFTs secured `Slack` more: half
  a basis point of what the ERC20 collateral pays back, a basis point of what the NFTs are worth,
  half of the last digit of the health factor, and a unit for each reserve. That holds for any prices,
  balances, thresholds and bonuses the configurator accepts (`RiskAssumption`). Between the two
  are divisions that round in both directions (`PercentDivHalf`, `AverageBounds`, `WadDivBound`); the
  ERC20 collateral is bounded reserve by reserve (`PayableBound`) and then summed
  (`WeightedWorthBound`).
- **Rights** (`PoolProofs`, at its end). `ApprovalEndsWithOwnershipHolds` needs that a
  token which is not supplied has no approval (`UnsuppliedTokensAreUnapproved`),
  for a mint clears none. `RecordedDelegationIsActiveHolds` is inductive with types.
  `OnlyHoldersOrphanHolds`: a step that revokes in the registry what it forgets orphans
  nothing, and all do but a call of the holder.
- **Ledger** (`NTokenLedgerProofs`). `LedgerInv` says, for the storage in the middle of
  any loop, that slots and indexes are inverse of each other, in the list of each owner and
  in the list of all, and that each counter with what its loop has still to write is the number of
  tokens; and that the storage a transaction started from has the same. There is a
  lemma for each half of swap and pop. `LedgerImplementsNToken` shows
  that every iteration is a stutter of `NToken` and every commit the
  abstract action on the set of tokens of the whole batch: that set is where the storage at the
  commit differs from the storage at the start, and `Running` says what a loop may have
  changed in between, and that only tokens of its user are concerned.
- **Time lock** (`TimeLockProofs`). `LockInv` adds `FreshIdsAreFree` to
  `NFTsBacked`: ids beyond the counter hold no agreement, so that a creation
  overwrites none. It gives `NFTsBackedHolds` and, step by step,
  `AgreementsAreKeptHolds`. `CoinInv` adds that what is owed is the sum over all ids; a batch of
  claims clears its part of the sum (`CoinsBackedHolds`, `PaidInFullHolds`).
  `WindowLimitHolds`, of the beneficiaries who are not listed, rests on `NotedWithinLimit`: the extra
  delay is in the release time of their agreements whenever the strategy adds it, so that nothing is
  noted of an amount over the limit. It needs to know what passed in the running period, in any stretch shorter than a
  period before it, and that nothing was dated beyond it (`LimitInv`): a window
  meets at most two periods that let something pass.
- **Reserve setup** (`ReserveSetupProofs`). The reserves of a market have an order, which the
  groups of 20 and the transactions of 4 follow. `SetupInv` says what is listed and configured
  as a function of the place in that order: a run without accidents has listed all before its
  place, whatever earlier runs had done (`ListedSoFar`), and configured the groups it is through with,
  except where somebody supplied a reserve that is not to be collateral (`ConfiguredSoFar`);
  a transaction lists four reserves or none (`WholeChunks`). `CompleteRunSetsUpAllHolds`
  follows, `ListedReservesAreOfTheMarket` too (nothing is listed before the oracle is in place),
  and `AbortHasCauseHolds`: the order of the reserves itself gives no error. It needs that the apes
  come in an earlier transaction than the tokens that stake them (`ApesComeFirst`), that the
  configurator accepts every parameter (`ValidRisk`), and that no reserve is there twice: that is
  `PlanAssumption`. Between its parts is arithmetic of chunks (`ChunkElements` and the
  lemmas after it).
- **Deployment** (`DeploymentProofs`). `NothingElseSkippedHolds`, for any number of
  faults, resumed, incremental and repeated runs. Skipping is where it could fail: an incremental run
  passes over what follows a contract it finds, a caught failure over what belongs to it, a record
  over what it guards. `Required` are the operations that no such skip may lose.
  `DeployInv` says that they are done as far as the task has come, though a contract deployed again takes facts with it
  (`DoneSoFar`); that a record which guards others stands for all of
  them (`GuardsHold`), or else a check would skip what is missing; and that without a
  fault the database holds exactly what the operations so far established
  (`FirstRunSoFar`), so that no caught call fails. `PlansAssumption` is what this needs of a plan: steps
  in order, the database deleted first and only then, nothing required lost with a contract
  that comes later or recorded after the record that guards it. The last exception is real:
  a run that stops between two records of a group leaves the second to later runs
  (`WrittenLate`); the external ApeCoinStaking is an example, and a staking contract
  of its own is then deployed in its place.
- **Handover** (`HandoverProofs`). The script sends what is wanted of twenty-seven
  transactions, whose list is `Script`. `IInv` says that when the run is at a place, each wanted
  transaction before it has achieved what it is for, and nothing after it undid that (`Progress`),
  and that the three roles that matter have a member and everything has one owner (`Governed`):
  the account that gets a role is given it right before the old one loses it. That is
  `AlwaysGovernedHolds`: for any accounts, administrators and deployments and any number of
  interruptions. The other three need to know about runs before this one.
  `CompleteHandoverHolds` needs where owners come from (`Provenance`), and a hypothesis,
  `NoSharedAdmins`: the main administrator of one set of administrators has no
  place in another. Without it an owner may be the gateway or risk administrator of the set it hands
  over to, and keeps what that set gives it, or loses it.
  `InterruptedIsNeverRepairedHolds`: the deployer has the role of the floor oracle until the last
  transaction of a run that starts from it, and once interrupted it no longer owns the address book, so
  that no run that starts from it gets beyond its first transaction (`Unrepaired`).
  `RefusalHasCauseHolds`: as long as nothing was interrupted and all was handed to one account
  each time, whoever owns the address book has what each transaction
  needs (`Unbroken`), and the one a run started from still has what its rest needs.
- **Upgrades** (`UpgradeProofs`). `TableExactHolds`: whatever cuts reach the proxy. The
  invariant is `Linked`: routes and positions agree with the lists of functions, the lists are
  nonempty exactly for the facets that are listed, and each facet is at its position. One lemma,
  `SwapAndPopLinks`, covers the removal of a function from a list and of a facet from
  the list of facets. In the middle of a cut a facet is listed before it has a function, so that
  the invariant names the facets that may be empty (`Linked(t, {f})`); a cut has at least
  one function and leaves none of them. The loops of the contract are recursive
  functions; that their runs exist, step by step, is proved without an induction
  theorem (`Recursion`, `RunIsBody`, `Iteration`). The deployment of a release
  that compiles succeeds, so that the table is exact from the start.
  The other two need what cuts do to the routes: a function, a cut (`ApplyEffect`), the cuts
  for a facet (`CutsForEffect`), a plan for several components (`PlanUpgrades`, halfway
  through by `Halfway`) and a reset (`Removal`). An update that is noted remembers how it was computed
  (`FromScript`). `ServedAsReleasedHolds`: a plan that meets its table and names
  the facets that serve then leaves each of its components with one facet, which serves its
  whole release, and touches no other component (`Tidy`). A function that moves from
  a later component to an earlier one makes the plan revert, and is not an exception.
  `RepeatedUpdateRevertsHolds` has a hypothesis, `OwnFunctions`: each component
  has a function that no other component ever has, as the contracts of the pool do. The facet
  of the first component of a plan serves it after the first time, and may not replace itself
  the second time. Without it a plan whose functions all move on to a
  later component of the same plan might succeed twice.

Only model-checked, and why:

- `HealthyMeansNFTsSafe` and `OnlyMarketEndangers` depend on roundings that the
  configured parameters keep on the right side: a threshold times a bonus may exceed 100% by the
  rounding the configurator allows, an average is truncated to a basis point and may lose that much
  when collateral is added. For every value of the constants they do not hold; the first one
  holds up to `Slack`, which is a theorem.
- `ListedReservesHavePrices`, `StrategiesFit` and `GettersFindTheirContracts` compare the tables of
  `MarketConfig` and `Contracts` with each other: what they say of a state is proved
  (`ListedReservesAreOfTheMarket`), and the rest is data, which TLC compares for every network.
- `Deployment.AbortHasCause` and `CoherentSystem` do not hold for every `MaxFaults`; with one fault
  TLC has all behaviours of all networks.
- Liveness under fairness and ENABLED, which the prover does not handle.

## Findings

`delegateForToken(delegate, tokenIds, false)`
(`protocol/tokenization/base/MintableIncentivizedERC721.sol:425`) deletes the recorded
delegate but revokes, in the registry, the delegate of the call. If the two
differ, the recorded delegate stays registered and the NToken has forgotten it:
the transfer or withdrawal that follows revokes nobody. The repository's tests
state that no delegation is left after a transfer
(`test/_xtoken_ntoken_delegation.ts:102`); `ntoken_delegation_end` shows a
behaviour where one is. `OnlyHoldersOrphan` shows that this is the only way.

What the runs of the scripts show is stated in their properties, as what holds.
Those who run the scripts will want to know:

- A handover that was interrupted after its first transaction cannot be completed by the
  script, neither by the deployer nor by the new administrator
  (`InterruptedIsNeverRepaired`). The owners of cAPE, and with equal gateway
  and ParaSpace administrators those behind the proxies of P2PPairStaking and
  HelperContract, stay with the deployer; emergency admins are never changed;
  the conduit and the zone controller have to be accepted
  (`CompleteHandover`). The branch that only notes transactions addresses the
  transfer of the zone controller to the conduit controller
  (`23_renounceOwnership.ts:249`).
- An interrupted setup leaves `ReservesSetupHelper` a pool admin, and no rerun takes it
  back if nothing is left to configure (`CompleteRunSetsUpAll`). A supply of a
  reserve that is not to be collateral keeps its whole group of 20 unconfigured.
  `bendETH` is configured with an AToken implementation and gets the plain one;
  OTHR and BLOCKS get tokens of their own (`StrategiesFit`).
- Linea, neon and parallel are main networks priced by mocks (`ListedReservesHavePrices`).
- An incremental or resumed run skips the calls that follow a deployment it does not
  repeat (`Skippable` lists them). Once a vault proxy is initialised, running
  the step again always fails (`AbortHasCause`).
- Four getters attach another class than what is deployed (`Mismatched`).
- `upgrade:pool` reverts if a release moves a function to a component that comes
  earlier in its list, and a stale plan brings back old facets, which
  is why `ServedAsReleased` is conditional. `reset:pool` drops the movers and the
  borrow-and-stake facet.

Two observations without a run. `liquidateERC721` supplies the borrower with WETH
through `executeSupply`, so a frozen or full WETH reserve makes it fail
(`LiquidationLogic.sol:583`). And the period limit of a time lock strategy is
kept per period, not per window: up to twice the limit passes in a window as
long as a period, one share just before the reset and one just after
(`WindowLimit` states the bound that holds for beneficiaries who are not listed; the
listed ones take any amount without the extra delay).

## Plan

In order; each module comes with its run and, where marked (P), proofs.

1. `ReserveAccrual`: liquidity and borrow index, treasury accrual, scaled
   balances and their rounding. Sum of rounded balances against cash plus debt;
   indexes never decrease; the borrow index never falls behind the liquidity index.
2. `P2PPairStaking` (P): listing status `Pending`/`Matched`/`Cancelled`, matches
   by hash, match count of an ape, cached caps, break-up. An order is in one match
   at most, an ape leaves exactly when its last match ends, ApeCoin is conserved.
3. `ApeVault`: `CApe` shares against pooled ApeCoin, harvest and compound, then
   `AutoYieldApe` and the yield index of `PYieldToken`. No deposit dilutes the
   others by more than the rounding.
4. `FloorOracle` (P): feeders, expiry, deviation, median; asset and feeder lists
   with their 8-bit positions and holes.
5. `Executor` (P): queue, cancel, execute, grace period, changes of delay and
   admin by an action of its own; every executed action was queued for the delay.
6. `ReserveList`: init and drop of reserves, ids and user bits.
7. `ApeStaking` over `Pool`: staked ApeCoin as collateral, unstake and repay when
   the NToken moves.
8. `FlashClaim` and `Marketplace`: the calls in the middle of a transaction.
9. The queue of `tasks/dev/timeLock.ts` between `Upgrade` and `Executor`: what renewing
   and a crash between deleting and writing the queue do to noted updates; the
   upgrades of tokens and vaults.

## Not modelled

Components marked `not_modelled` in `PROJECT.json` carry the reason. For good:
Uniswap V3 valuation (arithmetic of an external pool), data providers and
gateways (no state), vendored code, position movers (external protocols), the table of trait
multipliers (`scripts/dev/11.set-traits-multipliers.ts`: 11,000 lines of data
without control), verification of sources, gas, and printing.
