-------------------------------- MODULE Pool --------------------------------
(***************************************************************************)
(* The ParaSpace Pool: users supply ERC20 assets and NFTs, mark them as    *)
(* collateral, borrow ERC20 assets against them, and are liquidated when   *)
(* prices move.  One action per transaction of the Pool (a transaction is  *)
(* atomic: a failed require undoes it, so the requires are guards).        *)
(*                                                                         *)
(* The state is what the Pool, its PTokens, NTokens and debt tokens keep.  *)
(* The wallets of the users are not modelled (anybody may bring assets),   *)
(* the liquidity and borrow indexes stand still at one ray (ReserveLogic   *)
(* is a component of its own), one asset unit is one token, and every NFT  *)
(* of a collection is worth its floor price (no trait multipliers, no      *)
(* Uniswap positions).  No price oracle sentinel is set: it could only     *)
(* refuse borrows and liquidations.                                        *)
(***************************************************************************)
EXTENDS NToken, FiniteSetsExt, Functions

CONSTANTS
    ERC20s, WETH,       \* ERC20 reserves; the asset that pays for an NFT
    Collections,        \* ERC721 reserves
    CollectionOf,       \* [Tokens -> Collections]
    Treasury,           \* RESERVE_TREASURY_ADDRESS
    LTV, LT,            \* basis points, by reserve
    Bonus,              \* liquidation bonus in basis points (10500 = 5%); not
                        \* below 100% where there is a threshold
    ProtocolFee,        \* share of the bonus that goes to the treasury
    SupplyCap,          \* by reserve; a cap of 0 is none
    BorrowCap,          \* by ERC20 reserve, likewise
    BorrowingEnabled,   \* ERC20 reserves that may be borrowed
    InitialPrice,       \* by reserve
    PriceMoves,         \* bound: pairs <<from, to>> of a price move, by reserve
    AuctionMultiplier,  \* auction price by elapsed time, in basis points
    Wad,                \* one, as a health factor
    MaxHealthFactor,    \* type(uint256).max
    CloseThreshold,     \* CLOSE_FACTOR_HF_THRESHOLD, 0.95 Wad
    RecoveryThreshold,  \* _auctionRecoveryHealthFactor
    Amounts,            \* bound: amounts asked for (besides "all of it")
    Switchable,         \* bound: reserves an admin may pause and freeze
    AuctionSwitchable   \* bound: collections whose auction strategy may go

Accounts == Users \cup {Treasury}
Reserves == ERC20s \cup Collections

ASSUME PoolAssumption ==
    /\ IsFiniteSet(Users)
    /\ Treasury \notin Users
    /\ WETH \in ERC20s
    /\ ERC20s \cap Collections = {}
    /\ CollectionOf \in [Tokens -> Collections]
    /\ {LTV, LT, Bonus, ProtocolFee, SupplyCap} \subseteq [Reserves -> Nat]
    /\ \A r \in Reserves : LT[r] # 0 => Bonus[r] >= 10000
    /\ BorrowCap \in [ERC20s -> Nat] /\ BorrowingEnabled \subseteq ERC20s
    /\ InitialPrice \in [Reserves -> Nat \ {0}]
    /\ PriceMoves \in [Reserves -> SUBSET ((Nat \ {0}) \X (Nat \ {0}))]
    /\ AuctionMultiplier \in [0 .. MaxTime -> Nat]
    /\ Amounts \subseteq Nat \ {0}
    /\ Switchable \subseteq Reserves
    /\ AuctionSwitchable \subseteq Collections

\* What the configurator requires of a threshold and its bonus, the one of the risk figures
\* that the health factors rest on; there are at most 128 reserves.
ASSUME RiskAssumption ==
    /\ IsFiniteSet(Reserves)
    /\ \A r \in Reserves : (LT[r] * Bonus[r] + 5000) \div 10000 <= 10000
    /\ Wad \in Nat \ {0} /\ MaxHealthFactor \in Nat /\ MaxHealthFactor >= Wad

VARIABLES
    pBalance,           \* PToken balances, by account and ERC20
    debt,               \* variable debt, by user and ERC20
    cash,               \* underlying held by the PToken
    usingAsCollateral,  \* collateral bits of UserConfigurationMap
    borrowing,          \* borrowing bits of UserConfigurationMap
    atCurrentIndex,     \* <<user, asset>> whose debt moved in this block
    price,              \* getAssetPrice
    paused, frozen,     \* configuration flags of the reserves
    auctionEnabled      \* collections with an auction strategy

debtVars == <<debt, borrowing, atCurrentIndex>>
marketVars == <<price, paused, frozen, auctionEnabled>>
poolVars == <<pBalance, cash, usingAsCollateral, debtVars, marketVars>>
vars == <<poolVars, ntokenVars>>

-----------------------------------------------------------------------------
(* PercentageMath and WadRayMath: both round half up.                      *)

Factor == 10000
PercentMul(x, p) == (x * p + Factor \div 2) \div Factor
PercentDiv(x, p) == (x * Factor + p \div 2) \div p
WadDiv(x, y)     == (x * Wad + y \div 2) \div y

Smaller(x, y) == IF x <= y THEN x ELSE y
When(cond, r) == IF cond THEN {r} ELSE {}

TokensOf(c) == {t \in Tokens : CollectionOf[t] = c}

-----------------------------------------------------------------------------
(* GenericLogic.calculateUserAccountData                                   *)

CollateralTokens(u, c) == Collateralized(u) \cap TokensOf(c)

Holding(u, r) ==
    IF r \in ERC20s THEN pBalance[u][r] ELSE Cardinality(CollateralTokens(u, r))

Worth(u, r) == price[r] * Holding(u, r)

\* The reserves of S that count as collateral of u.
Counted(u, S) == {r \in usingAsCollateral[u] \cap S : LT[r] # 0}

TotalWorth(u, S) == MapThenSumSet(LAMBDA r : Worth(u, r), Counted(u, S))

\* The average over S of F weighted by worth, truncated to a basis point.
Average(u, S, F) ==
    IF TotalWorth(u, S) = 0 THEN 0
    ELSE MapThenSumSet(LAMBDA r : Worth(u, r) * F[r], Counted(u, S))
            \div TotalWorth(u, S)

TotalDebt(u) == MapThenSumSet(LAMBDA a : price[a] * debt[u][a], borrowing[u])

HasZeroLtvCollateral(u) == \E r \in Counted(u, Reserves) : LTV[r] = 0

HealthFactor(u) ==
    IF TotalDebt(u) = 0 THEN MaxHealthFactor
    ELSE WadDiv(PercentMul(TotalWorth(u, Reserves), Average(u, Reserves, LT)),
                TotalDebt(u))

PayableDebtIgnored(u) == 0   \* mutant

\* What the liquidation of all ERC20 collateral would pay back.
PayableDebt(u) ==
    MapThenSumSet(LAMBDA a : PercentDiv(Worth(u, a), Bonus[a]), Counted(u, ERC20s))

ERC721HealthFactor(u) ==
    IF PayableDebt(u) >= TotalDebt(u) THEN MaxHealthFactor
    ELSE WadDiv(PercentMul(TotalWorth(u, Collections), Average(u, Collections, LT)),
                TotalDebt(u) - PayableDebt(u))

Solvent(u) == HealthFactor(u) >= Wad

ValidateLtvOnly(u, r) ==     \* mutant
    borrowing[u] # {} => LTV[r] = 0 \/ ~HasZeroLtvCollateral(u)

\* validateHFAndLtvERC20/ERC721, run by every operation that takes collateral
\* of reserve r away from a user who borrows, on the state it leaves behind.
ValidateHFAndLtv(u, r) ==
    borrowing[u] # {} => /\ Solvent(u)
                         /\ LTV[r] = 0 \/ ~HasZeroLtvCollateral(u)

-----------------------------------------------------------------------------
(* Effects shared by the operations.                                       *)

LiveUnlessFrozen(r) == r \notin frozen   \* mutant
Live(r) == r \notin paused
OpenIfLive(r) == Live(r)                 \* mutant
Open(r) == Live(r) /\ r \notin frozen

MintPToken(u, a, x) ==
    /\ pBalance' = [pBalance EXCEPT ![u][a] = @ + x]
    /\ cash' = [cash EXCEPT ![a] = @ + x]

PayOutUnchecked(a, x) == cash' = [cash EXCEPT ![a] = @ - x]   \* mutant

\* The PToken sends x of its underlying away.
PayOut(a, x) ==
    /\ x \in 1 .. cash[a]
    /\ cash' = [cash EXCEPT ![a] = @ - x]

\* setUsingAsCollateral(.., true) on the reserves "on", then false on "off".
SetUsing(u, on, off) ==
    usingAsCollateral' = [usingAsCollateral EXCEPT ![u] = (@ \cup on) \ off]

LosesLastOwned(u, c, T) ==   \* mutant
    Owned(u) \cap TokensOf(c) # {} /\ Owned(u) \cap TokensOf(c) \subseteq T

\* Without the tokens T nothing of collection c is collateral of u any more.
LosesLast(u, c, T) ==
    CollateralTokens(u, c) # {} /\ CollateralTokens(u, c) \subseteq T

BurnDebtKeepsBit(u, a, x) == \* mutant
    /\ x \in 1 .. debt[u][a]
    /\ debt' = [debt EXCEPT ![u][a] = @ - x]
    /\ UNCHANGED borrowing
    /\ atCurrentIndex' = atCurrentIndex \cup {<<u, a>>}

\* The debt token burns x, the borrowing bit goes with the last of the debt,
\* and the debt index of the user catches up with the reserve's.
BurnDebt(u, a, x) ==
    /\ x \in 1 .. debt[u][a]
    /\ debt' = [debt EXCEPT ![u][a] = @ - x]
    /\ borrowing' = [borrowing EXCEPT ![u] = @ \ When(x = debt[u][a], a)]
    /\ atCurrentIndex' = atCurrentIndex \cup {<<u, a>>}

TotalSupply(a) == SumFunctionOnSet([u \in Accounts |-> pBalance[u][a]], Accounts)
TotalVariableDebt(a) == SumFunctionOnSet([u \in Users |-> debt[u][a]], Users)

WithinCap(total, cap) == cap = 0 \/ total <= cap

ValidateSupply(r, x, supplied) ==
    /\ x # 0
    /\ Open(r)
    /\ WithinCap(supplied + x, SupplyCap[r])

-----------------------------------------------------------------------------
(* ERC20 assets: SupplyLogic, SupplyExtendedLogic, BorrowLogic             *)

ExecuteSupply(onBehalfOf, a, x) ==
    /\ ValidateSupply(a, x, TotalSupply(a))
    /\ MintPToken(onBehalfOf, a, x)
    /\ SetUsing(onBehalfOf, When(pBalance[onBehalfOf][a] = 0, a), {})
    /\ UNCHANGED <<debtVars, marketVars, ntokenVars>>

ExecuteWithdraw(u, a, x) ==
    /\ Live(a)
    /\ x \in 1 .. pBalance[u][a]
    /\ pBalance' = [pBalance EXCEPT ![u][a] = @ - x]
    /\ PayOut(a, x)
    /\ SetUsing(u, {}, When(x = pBalance[u][a], a))
    /\ UNCHANGED <<debtVars, marketVars, ntokenVars>>
    /\ a \in usingAsCollateral[u] => ValidateHFAndLtv(u, a)'

\* PToken._transfer and executeFinalizeTransferERC20: the receiver's bit is
\* looked at only when the sender's is set.
TransferERC20(from, to, a, x) ==
    LET flagged == a \in usingAsCollateral[from]
    IN  /\ Live(a)
        /\ from # to
        /\ x \in 1 .. pBalance[from][a]
        /\ pBalance' = [pBalance EXCEPT ![from][a] = @ - x, ![to][a] = @ + x]
        /\ usingAsCollateral' =
              [usingAsCollateral EXCEPT
                  ![from] = @ \ When(x = pBalance[from][a], a),
                  ![to] = @ \cup When(flagged /\ pBalance[to][a] = 0, a)]
        /\ UNCHANGED <<cash, debtVars, marketVars, ntokenVars>>
        /\ flagged => ValidateHFAndLtv(from, a)'

ExecuteUseERC20AsCollateral(u, a, use) ==
    /\ pBalance[u][a] # 0
    /\ Live(a)
    /\ use # (a \in usingAsCollateral[u])
    /\ IF use THEN SetUsing(u, {a}, {}) ELSE SetUsing(u, {}, {a})
    /\ UNCHANGED <<pBalance, cash, debtVars, marketVars, ntokenVars>>
    /\ ~use => ValidateHFAndLtv(u, a)'

ValidateBorrow(u, a, x) ==
    LET ltv == Average(u, Reserves, LTV)
    IN  /\ Open(a)
        /\ a \in BorrowingEnabled
        /\ WithinCap(TotalVariableDebt(a) + x, BorrowCap[a])
        /\ ltv # 0
        /\ HealthFactor(u) > Wad
        /\ PercentDiv(TotalDebt(u) + price[a] * x, ltv) <= TotalWorth(u, Reserves)

ExecuteBorrow(u, a, x) ==
    /\ ValidateBorrow(u, a, x)
    /\ debt' = [debt EXCEPT ![u][a] = @ + x]
    /\ borrowing' = [borrowing EXCEPT ![u] = @ \cup When(debt[u][a] = 0, a)]
    /\ atCurrentIndex' = atCurrentIndex \cup {<<u, a>>}
    /\ PayOut(a, x)
    /\ UNCHANGED <<pBalance, usingAsCollateral, marketVars, ntokenVars>>

\* SAME_BLOCK_BORROW_REPAY: the user's index must be behind the reserve's.
ValidateRepay(u, a) == Live(a) /\ <<u, a>> \notin atCurrentIndex

ExecuteRepay(onBehalfOf, a, x) ==
    LET paid == Smaller(x, debt[onBehalfOf][a])
    IN  /\ ValidateRepay(onBehalfOf, a)
        /\ BurnDebt(onBehalfOf, a, paid)
        /\ cash' = [cash EXCEPT ![a] = @ + paid]
        /\ UNCHANGED <<pBalance, usingAsCollateral, marketVars, ntokenVars>>

RepayWithPTokensAsCash(u, a, x) ==   \* mutant
    LET paid == Smaller(x, debt[u][a])
    IN  /\ ValidateRepay(u, a)
        /\ BurnDebt(u, a, paid)
        /\ paid <= pBalance[u][a]
        /\ pBalance' = [pBalance EXCEPT ![u][a] = @ - paid]
        /\ cash' = [cash EXCEPT ![a] = @ + paid]
        /\ UNCHANGED <<usingAsCollateral, marketVars, ntokenVars>>

\* repayWithPTokens: the payer burns PTokens of its own for its own debt.  The
\* underlying stays where it is, and the collateral bit is not looked at.
RepayWithPTokens(u, a, x) ==
    LET paid == Smaller(x, debt[u][a])
    IN  /\ ValidateRepay(u, a)
        /\ BurnDebt(u, a, paid)
        /\ paid <= pBalance[u][a]
        /\ pBalance' = [pBalance EXCEPT ![u][a] = @ - paid]
        /\ UNCHANGED <<cash, usingAsCollateral, marketVars, ntokenVars>>

-----------------------------------------------------------------------------
(* ERC721 assets.  T is a batch of tokens of the collection c.             *)

ExecuteSupplyERC721(onBehalfOf, c, T, C) ==
    /\ ValidateSupply(c, Cardinality(T),
                      Cardinality({t \in TokensOf(c) : Exists(t)}))
    /\ Mint(onBehalfOf, T, C)
    /\ SetUsing(onBehalfOf,
                When(CollateralTokens(onBehalfOf, c) = {} /\ C # {}, c), {})
    /\ UNCHANGED <<pBalance, cash, debtVars, marketVars, auctionValidityTime, now>>

ExecuteWithdrawERC721(u, c, T) ==
    /\ Live(c)
    /\ Burn(u, T, {})
    /\ SetUsing(u, {}, When(LosesLast(u, c, T), c))
    /\ UNCHANGED <<pBalance, cash, debtVars, marketVars, auctionValidityTime, now>>
    /\ T \cap isUsedAsCollateral # {} => ValidateHFAndLtv(u, c)'

\* NToken._transfer and executeFinalizeTransferERC721.  The token arrives
\* without its collateral mark, so the receiver's bit is left alone.
TransferERC721(from, to, t) ==
    LET c == CollectionOf[t]
        marked == t \in isUsedAsCollateral
    IN  /\ Live(c)
        /\ from # to
        /\ Transfer(from, to, t, {})
        /\ SetUsing(from, {}, When(LosesLast(from, c, {t}), c))
        /\ UNCHANGED <<pBalance, cash, debtVars, marketVars, auctionValidityTime, now>>
        /\ marked => ValidateHFAndLtv(from, c)'

ExecuteCollateralizeERC721(u, c, T) ==
    /\ Live(c)
    /\ SetIsUsedAsCollateral(u, T, TRUE)
    /\ SetUsing(u, When(/\ CollateralTokens(u, c) = {}
                        /\ T \ isUsedAsCollateral # {}, c), {})
    /\ UNCHANGED <<pBalance, cash, debtVars, marketVars, auctionValidityTime, now>>

\* Nothing is validated when every token of the batch was skipped.
ExecuteUncollateralizeERC721(u, c, T) ==
    /\ Live(c)
    /\ T \cap isUsedAsCollateral # {}
    /\ SetIsUsedAsCollateral(u, T, FALSE)
    /\ SetUsing(u, {}, When(LosesLast(u, c, T), c))
    /\ UNCHANGED <<pBalance, cash, debtVars, marketVars, auctionValidityTime, now>>
    /\ ValidateHFAndLtv(u, c)'

-----------------------------------------------------------------------------
(* Auctions: AuctionLogic, PoolParameters.setAuctionValidityTime           *)

\* What validateStartAuction and validateLiquidateERC721 ask of a token.
CollateralEnabled(u, t) ==
    /\ LT[CollectionOf[t]] # 0
    /\ CollectionOf[t] \in usingAsCollateral[u]
    /\ t \in isUsedAsCollateral

ExecuteStartAuction(u, t) ==
    /\ owners[t] = u
    /\ Live(CollectionOf[t])
    /\ CollectionOf[t] \in auctionEnabled
    /\ ERC721HealthFactor(u) < Wad
    /\ CollateralEnabled(u, t)
    /\ StartAuction(t)
    /\ UNCHANGED <<poolVars, auctionValidityTime, now>>

ExecuteEndAuction(u, t) ==
    /\ owners[t] = u
    /\ Live(CollectionOf[t])
    /\ ERC721HealthFactor(u) >= RecoveryThreshold
    /\ EndAuction(t)
    /\ UNCHANGED <<poolVars, auctionValidityTime, now>>

\* One write that ends every auction of a user who has recovered.
SetAuctionValidityTime(u) ==
    /\ ERC721HealthFactor(u) >= RecoveryThreshold
    /\ SetValidity(u)
    /\ UNCHANGED <<poolVars, tokenVars, now>>

-----------------------------------------------------------------------------
(* LiquidationLogic                                                        *)

\* The close factor: half of the debt at most while the position is close to
\* health, all of it below the threshold.
LiquidatableDebt(u, a, x) ==
    Smaller(x, PercentMul(debt[u][a], IF HealthFactor(u) > CloseThreshold
                                      THEN Factor \div 2 ELSE Factor))

ERC20LiquidationBonusTwice(u, c, a, x) ==   \* mutant
    LET wanted == PercentMul(PercentMul((price[a] * x) \div price[c], Bonus[c]), Bonus[c])
        seized == Smaller(wanted, pBalance[u][c])
    IN  [seized |-> seized, repaid |-> x, fee |-> 0]

\* _calculateERC20LiquidationParameters: x of asset a buys collateral c, the
\* bonus included, up to what the borrower has of it.
ERC20Liquidation(u, c, a, x) ==
    LET wanted == PercentMul((price[a] * x) \div price[c], Bonus[c])
        short == wanted > pBalance[u][c]
        seized == IF short THEN pBalance[u][c] ELSE wanted
    IN  [seized |-> seized,
         repaid |-> IF short
                    THEN PercentDiv((price[c] * seized) \div price[a], Bonus[c])
                    ELSE x,
         fee |-> PercentMul(seized - PercentDiv(seized, Bonus[c]), ProtocolFee[c])]

\* The liquidator pays "repaid" of asset a for the borrower u and takes
\* collateral c, as PTokens (none of them, where little is paid) or
\* (receivePToken = FALSE) as the underlying.  A user may liquidate itself.
ExecuteLiquidateERC20(liquidator, u, c, a, x, receivePToken) ==
    LET p == ERC20Liquidation(u, c, a, LiquidatableDebt(u, a, x))
        taken == p.seized - p.fee
        feePaid == [pBalance EXCEPT ![u][c] = @ - p.fee, ![Treasury][c] = @ + p.fee]
        cashPaid == [cash EXCEPT ![a] = @ + p.repaid]
        burnt == [feePaid EXCEPT ![u][c] = @ - taken]
        cleared == [usingAsCollateral EXCEPT
                       ![u] = @ \ When(p.seized = pBalance[u][c], c)]
    IN  /\ Live(c) /\ Live(a)
        /\ ~Solvent(u)
        /\ LT[c] # 0 /\ c \in usingAsCollateral[u]
        /\ BurnDebt(u, a, p.repaid)
        /\ p.seized \in 0 .. pBalance[u][c] /\ p.fee \in 0 .. p.seized
        /\ IF receivePToken
           THEN /\ pBalance' = [burnt EXCEPT ![liquidator][c] = @ + taken]
                /\ cash' = cashPaid
                /\ usingAsCollateral' =
                      [cleared EXCEPT ![liquidator] =
                          @ \cup When(feePaid[liquidator][c] = 0, c)]
           ELSE /\ taken \in 1 .. cashPaid[c]
                /\ pBalance' = burnt
                /\ cash' = [cashPaid EXCEPT ![c] = @ - taken]
                /\ usingAsCollateral' = cleared
        /\ UNCHANGED <<marketVars, ntokenVars>>

\* _calculateERC721LiquidationParameters: the amount of WETH an NFT costs, its
\* liquidation bonus already deducted (a running auction replaces the bonus).
ERC721LiquidationAmount(t) ==
    LET c == CollectionOf[t]
        auction == c \in auctionEnabled
        worth == IF auction
                 THEN (price[c] * AuctionMultiplier[now - startTime[t]]) \div Factor
                 ELSE price[c]
    IN  PercentDiv(worth \div price[WETH], IF auction THEN Factor ELSE Bonus[c])

\* The NFT leaves the borrower u, who gets its price as WETH collateral; the
\* debt of u does not change.  The fee goes to the treasury's wallet.
ExecuteLiquidateERC721(liquidator, u, t, receiveNToken) ==
    LET c == CollectionOf[t]
        auction == c \in auctionEnabled
        paid == ERC721LiquidationAmount(t)
        ended == IF auction THEN {t} ELSE {}
    IN  /\ liquidator # u
        /\ Live(c) /\ Live(WETH)
        /\ IF auction
           THEN ERC721HealthFactor(u) < RecoveryThreshold /\ IsAuctioned(t)
           ELSE ERC721HealthFactor(u) < Wad
        /\ CollateralEnabled(u, t)
        /\ TotalDebt(u) \div price[WETH] # 0
        /\ ValidateSupply(WETH, paid, TotalSupply(WETH))
        /\ MintPToken(u, WETH, paid)
        /\ SetUsing(u, {WETH}, When(LosesLast(u, c, {t}), c))
        /\ IF receiveNToken THEN Transfer(u, liquidator, t, ended)
                            ELSE Burn(u, {t}, ended)
        /\ UNCHANGED <<debtVars, marketVars, auctionValidityTime, now>>

-----------------------------------------------------------------------------
(* The world around the Pool.                                              *)

SetPrice(r, move) ==
    /\ price[r] = move[1]
    /\ price' = [price EXCEPT ![r] = move[2]]
    /\ UNCHANGED <<pBalance, cash, usingAsCollateral, debtVars, paused, frozen,
                   auctionEnabled, ntokenVars>>

\* A block passes: interest moves every borrow index on.
PassBlock ==
    /\ Tick
    /\ atCurrentIndex' = {}
    /\ UNCHANGED <<pBalance, cash, usingAsCollateral, debt, borrowing, marketVars,
                   tokenVars, auctionValidityTime>>

\* PoolConfigurator.
PauseReserve(r) ==
    /\ paused' = paused \cup {r}
    /\ UNCHANGED <<pBalance, cash, usingAsCollateral, debtVars, price, frozen,
                   auctionEnabled, ntokenVars>>

UnpauseReserve(r) ==
    /\ paused' = paused \ {r}
    /\ UNCHANGED <<pBalance, cash, usingAsCollateral, debtVars, price, frozen,
                   auctionEnabled, ntokenVars>>

SetReserveFreeze(r, freeze) ==
    /\ frozen' = IF freeze THEN frozen \cup {r} ELSE frozen \ {r}
    /\ UNCHANGED <<pBalance, cash, usingAsCollateral, debtVars, price, paused,
                   auctionEnabled, ntokenVars>>

SetReserveAuctionStrategy(c, on) ==
    /\ auctionEnabled' = IF on THEN auctionEnabled \cup {c} ELSE auctionEnabled \ {c}
    /\ UNCHANGED <<pBalance, cash, usingAsCollateral, debtVars, price, paused,
                   frozen, ntokenVars>>

-----------------------------------------------------------------------------

PoolInit ==
    /\ NTokenInit
    /\ pBalance = [u \in Accounts |-> [a \in ERC20s |-> 0]]
    /\ debt = [u \in Users |-> [a \in ERC20s |-> 0]]
    /\ cash = [a \in ERC20s |-> 0]
    /\ usingAsCollateral = [u \in Users |-> {}]
    /\ borrowing = [u \in Users |-> {}]
    /\ atCurrentIndex = {}
    /\ price = InitialPrice
    /\ paused = {} /\ frozen = {}
    /\ auctionEnabled = Collections

ERC20Next ==
    \E u \in Users, a \in ERC20s :
        \/ \E x \in Amounts : ExecuteSupply(u, a, x) \/ ExecuteBorrow(u, a, x)
        \/ \E x \in Amounts \cup {pBalance[u][a]} :
              \/ ExecuteWithdraw(u, a, x)
              \/ RepayWithPTokens(u, a, x)
              \/ \E to \in Users : TransferERC20(u, to, a, x)
        \/ \E use \in BOOLEAN : ExecuteUseERC20AsCollateral(u, a, use)
        \/ \E x \in Amounts \cup {debt[u][a]} :
              \/ ExecuteRepay(u, a, x)
              \/ \E l \in Users, c \in ERC20s, receive \in BOOLEAN :
                    ExecuteLiquidateERC20(l, u, c, a, x, receive)

ERC721Next ==
    \E u \in Users :
        \/ \E c \in Collections : \E T \in SUBSET TokensOf(c) \ {{}} :
              \/ \E C \in SUBSET T : ExecuteSupplyERC721(u, c, T, C)
              \/ ExecuteWithdrawERC721(u, c, T)
              \/ ExecuteCollateralizeERC721(u, c, T)
              \/ ExecuteUncollateralizeERC721(u, c, T)
        \/ \E t \in Tokens :
              \/ \E to \in Users : TransferERC721(u, to, t)
              \/ ExecuteStartAuction(u, t)
              \/ ExecuteEndAuction(u, t)
              \/ \E l \in Users, receive \in BOOLEAN :
                    ExecuteLiquidateERC721(l, u, t, receive)
        \/ SetAuctionValidityTime(u)

Environment ==
    \/ \E r \in Reserves : \E move \in PriceMoves[r] : SetPrice(r, move)
    \/ PassBlock
    \/ \E r \in Switchable :
          \/ PauseReserve(r) \/ UnpauseReserve(r)
          \/ \E freeze \in BOOLEAN : SetReserveFreeze(r, freeze)
    \/ \E c \in AuctionSwitchable, on \in BOOLEAN : SetReserveAuctionStrategy(c, on)

PoolNext == ERC20Next \/ ERC721Next \/ Environment

PoolSpec == PoolInit /\ [][PoolNext]_vars

-----------------------------------------------------------------------------
(* Properties.                                                             *)

\* Every variable keeps its type; balances, debts and liquidity never go
\* below zero.
PoolTypeOK ==
    /\ NTokenTypeOK
    /\ pBalance \in [Accounts -> [ERC20s -> Nat]]
    /\ debt \in [Users -> [ERC20s -> Nat]]
    /\ cash \in [ERC20s -> Nat]
    /\ usingAsCollateral \in [Users -> SUBSET Reserves]
    /\ borrowing \in [Users -> SUBSET ERC20s]
    /\ atCurrentIndex \subseteq Users \X ERC20s
    /\ price \in [Reserves -> Nat \ {0}]
    /\ paused \subseteq Reserves /\ frozen \subseteq Reserves
    /\ auctionEnabled \subseteq Collections

\* The borrowing bit of a user and its debt tokens agree: a bit that is lost
\* hides debt from every health factor (calculateUserAccountData skips the
\* reserve), a bit that stays behind makes every withdrawal validated.
BorrowingFlagMatchesDebt ==
    \A u \in Users, a \in ERC20s : a \in borrowing[u] <=> debt[u][a] > 0

\* The collateral bit of a collection is set exactly while the user has a
\* token of it marked as collateral: minting, burning, transferring, marking
\* and liquidating each update the bit by their own count of tokens.
CollectionFlagMatchesTokens ==
    \A u \in Users, c \in Collections :
        c \in usingAsCollateral[u] <=> CollateralTokens(u, c) # {}

\* A token under auction is collateral of the position it belongs to, in the
\* mark of the token and in the bit of its owner, so that the auction can be
\* settled: neither goes away while the auction runs.
AuctionedTokensAreCollateral ==
    \A t \in Tokens : IsAuctioned(t) =>
        /\ t \in isUsedAsCollateral
        /\ owners[t] \in Users
        /\ CollectionOf[t] \in usingAsCollateral[owners[t]]

\* No PToken without an underlying: what a reserve owes its suppliers and the
\* treasury is what it holds and what it has lent, through every repayment,
\* fee, seizure and burn.
LiquidityConserved ==
    \A a \in ERC20s : cash[a] + TotalVariableDebt(a) = TotalSupply(a)

\* A user whose health factor is at least one cannot have an auction started
\* on: the ERC721 health factor, which assumes that all ERC20 collateral is
\* liquidated first, is then at least one as well.
HealthyMeansNFTsSafe ==
    \A u \in Users : Solvent(u) => ERC721HealthFactor(u) >= Wad

\* Only the market makes a healthy position liquidatable.  No transaction, of
\* the user or of somebody else, does so, except the sale of an NFT whose
\* auction is still running after a partial recovery.
OnlyMarketEndangers ==
    [][\A u \in Users :
          price' = price /\ ~Solvent(u)' =>
              \/ ~Solvent(u)
              \/ \E t \in Tokens : IsAuctioned(t) /\ owners[t] = u /\ owners'[t] # u]_vars

\* An auction that is not running starts only by a decision taken now on the
\* owner's health: an old record never comes back to life, whether the token
\* changes hands or is withdrawn and supplied again.
AuctionNeverRevives ==
    [][\A t \in Tokens :
          IsAuctioned(t)' /\ ~IsAuctioned(t) =>
              /\ startTime'[t] = now
              /\ owners'[t] = owners[t]
              /\ ERC721HealthFactor(owners[t]) < Wad]_vars

\* Nothing moves in a paused reserve: no balance, no debt, no liquidity and
\* no token of it, by any entry point.
PausedReserveStandsStill ==
    [][/\ \A a \in ERC20s \cap paused :
            /\ cash'[a] = cash[a]
            /\ \A u \in Users : pBalance'[u][a] = pBalance[u][a] /\ debt'[u][a] = debt[u][a]
       /\ \A t \in Tokens : CollectionOf[t] \in paused =>
            /\ owners'[t] = owners[t]
            /\ (t \in isUsedAsCollateral') = (t \in isUsedAsCollateral)]_vars

\* A frozen reserve only winds down: its PToken and debt supplies never grow,
\* not even by the WETH an NFT liquidation supplies for the borrower.
FrozenReserveWindsDown ==
    [][\A a \in ERC20s \cap frozen :
          TotalSupply(a)' <= TotalSupply(a) /\ TotalVariableDebt(a)' <= TotalVariableDebt(a)]_vars

\* What a liquidated user loses: collateral c for debt a at the price of the
\* oracle plus the bonus, the roundings of the code included (one base unit of
\* the collateral, and one of the debt without and one with the bonus).
LiquidationIsFair ==
    [][\A u \in Users, a, c \in ERC20s :
          LET lost == price[c] * (pBalance[u][c] - pBalance'[u][c])
              relieved == price[a] * (debt[u][a] - debt'[u][a])
          IN  LT[c] # 0 /\ lost > 0 /\ relieved > 0 =>
                  lost <= PercentMul(relieved, Bonus[c])
                             + price[c] + price[a] + PercentMul(price[a], Bonus[c])]_vars

=============================================================================
