----------------------------- MODULE PoolProofs -----------------------------
(***************************************************************************)
(* What is proved of the Pool, for every value of its constants: first its *)
(* states (types, borrowing and collateral bits, auctions), then its steps *)
(* (how an auction starts, what a pause stops, the double entry of every   *)
(* transaction, which keeps the liquidity conserved, and what a            *)
(* liquidation costs the borrower), then the two health factors of a user, *)
(* which only roundings set apart.                                         *)
(* At the end NTokenRights, the other module that builds on NToken, for    *)
(* any users, tokens and delegates: approvals end with the ownership they  *)
(* were given under, what the NToken records of a delegation is active,    *)
(* and only a holder makes it lose track of one.                           *)
(***************************************************************************)
EXTENDS Pool, NTokenRights, Sums

-----------------------------------------------------------------------------
(* Arithmetic.                                                             *)

\* The quotient of natural numbers is a natural number.
LEMMA DivNat ==
    ASSUME NEW x \in Nat, NEW y \in Nat \ {0}
    PROVE  x \div y \in Nat
  OBVIOUS

\* percentMul and percentDiv return natural numbers.
LEMMA PercentNat ==
    ASSUME NEW x \in Nat, NEW p \in Nat
    PROVE  /\ PercentMul(x, p) \in Nat
           /\ p # 0 => PercentDiv(x, p) \in Nat
  <1>1. Factor \in Nat \ {0} /\ Factor \div 2 \in Nat
    BY DEF Factor
  <1>2. x * p + Factor \div 2 \in Nat
    BY <1>1
  <1>3. p \div 2 \in Nat
    OBVIOUS
  <1>4. x * Factor + p \div 2 \in Nat
    BY <1>1, <1>3
  <1> QED BY <1>1, <1>2, <1>4, DivNat DEF PercentMul, PercentDiv

-----------------------------------------------------------------------------
(* The inductive invariant.                                                *)

\* No auction and no reset of the auctions is dated in the future.
StampsInThePast ==
    /\ \A t \in Tokens : startTime[t] <= now
    /\ \A u \in Users : auctionValidityTime[u] <= now

\* A token that is not supplied keeps neither a mark nor an auction record,
\* so that its next owner starts afresh.
UnsuppliedTokensAreClean ==
    \A t \in Tokens : owners[t] = NoOwner => t \notin isUsedAsCollateral /\ startTime[t] = 0

\* The part of the invariant about the tokens and their owners' bits.
TokenInv ==
    /\ NTokenTypeOK
    /\ usingAsCollateral \in [Users -> SUBSET Reserves]
    /\ StampsInThePast
    /\ UnsuppliedTokensAreClean
    /\ CollectionFlagMatchesTokens
    /\ AuctionedTokensAreCollateral

\* The part about debts and the borrowing bits.
DebtInv ==
    /\ debt \in [Users -> [ERC20s -> Nat]]
    /\ borrowing \in [Users -> SUBSET ERC20s]
    /\ atCurrentIndex \subseteq Users \X ERC20s
    /\ BorrowingFlagMatchesDebt

\* The part about balances, liquidity and the market.
MoneyOK ==
    /\ pBalance \in [Accounts -> [ERC20s -> Nat]]
    /\ cash \in [ERC20s -> Nat]

MarketOK ==
    /\ price \in [Reserves -> Nat \ {0}]
    /\ paused \subseteq Reserves /\ frozen \subseteq Reserves
    /\ auctionEnabled \subseteq Collections

Inv == TokenInv /\ DebtInv /\ MoneyOK /\ MarketOK

\* The invariant gives each of the properties the runs check.
LEMMA InvImplies ==
    ASSUME Inv
    PROVE  /\ PoolTypeOK
           /\ BorrowingFlagMatchesDebt
           /\ CollectionFlagMatchesTokens
           /\ AuctionedTokensAreCollateral
  BY DEF Inv, TokenInv, DebtInv, MoneyOK, MarketOK, PoolTypeOK

-----------------------------------------------------------------------------
(* The parts that a step leaves alone.                                     *)

\* The tokens stay as they are, the collateral bits of collections too.
LEMMA TokensUntouched ==
    ASSUME TokenInv,
           UNCHANGED ntokenVars,
           usingAsCollateral' \in [Users -> SUBSET Reserves],
           \A u \in Users, c \in Collections :
               c \in usingAsCollateral'[u] <=> c \in usingAsCollateral[u]
    PROVE  TokenInv'
  <1>1. \A u \in Users, c \in Collections : CollateralTokens(u, c)' = CollateralTokens(u, c)
    BY DEF ntokenVars, CollateralTokens, Collateralized
  <1>2. CollectionFlagMatchesTokens'
    BY <1>1 DEF TokenInv, CollectionFlagMatchesTokens
  <1>3. AuctionedTokensAreCollateral'
    BY PoolAssumption DEF TokenInv, AuctionedTokensAreCollateral, IsAuctioned, ValidityTime, ntokenVars
  <1> QED BY <1>2, <1>3 DEF TokenInv, NTokenTypeOK, StampsInThePast,
             UnsuppliedTokensAreClean, ntokenVars

\* Only the bit of an ERC20 asset changes, for one user.
LEMMA AssetBitOnly ==
    ASSUME TokenInv,
           UNCHANGED ntokenVars,
           NEW u \in Users, NEW on \in SUBSET ERC20s, NEW off \in SUBSET ERC20s,
           SetUsing(u, on, off)
    PROVE  TokenInv'
  <1>1. usingAsCollateral' \in [Users -> SUBSET Reserves]
    BY DEF TokenInv, SetUsing, Reserves
  <1>2. \A v \in Users, c \in Collections :
            c \in usingAsCollateral'[v] <=> c \in usingAsCollateral[v]
    BY PoolAssumption DEF TokenInv, SetUsing
  <1> QED BY <1>1, <1>2, TokensUntouched

\* A step that leaves the debt tokens and the borrowing bits alone keeps DebtInv.
LEMMA DebtUntouched ==
    ASSUME DebtInv, UNCHANGED debtVars
    PROVE  DebtInv'
  BY DEF DebtInv, debtVars, BorrowingFlagMatchesDebt

\* A step that leaves prices and flags alone keeps MarketOK.
LEMMA MarketUntouched ==
    ASSUME MarketOK, UNCHANGED marketVars
    PROVE  MarketOK'
  BY DEF MarketOK, marketVars

\* A debt token that burns keeps the borrowing bits right.
LEMMA BurnDebtInv ==
    ASSUME DebtInv, NEW u \in Users, NEW a \in ERC20s, NEW x, BurnDebt(u, a, x)
    PROVE  DebtInv' /\ x \in Nat /\ x # 0
  <1>1. x \in Nat /\ x # 0 /\ x <= debt[u][a]
    BY DEF DebtInv, BurnDebt
  <1>2. debt' \in [Users -> [ERC20s -> Nat]]
    BY <1>1 DEF DebtInv, BurnDebt
  <1>3. borrowing' \in [Users -> SUBSET ERC20s]
    BY DEF DebtInv, BurnDebt
  <1>4. ASSUME NEW v \in Users, NEW b \in ERC20s
        PROVE  b \in borrowing'[v] <=> debt'[v][b] > 0
    <2>1. CASE v = u /\ b = a
      BY <1>1, <2>1 DEF DebtInv, BurnDebt, When, BorrowingFlagMatchesDebt
    <2>2. CASE v # u \/ b # a
      <3>1. debt'[v][b] = debt[v][b]
        BY <2>2 DEF DebtInv, BurnDebt
      <3>2. b \in borrowing'[v] <=> b \in borrowing[v]
        BY <2>2 DEF DebtInv, BurnDebt, When
      <3> QED BY <3>1, <3>2 DEF DebtInv, BorrowingFlagMatchesDebt
    <2> QED BY <2>1, <2>2
  <1> QED BY <1>1, <1>2, <1>3, <1>4 DEF DebtInv, BurnDebt, BorrowingFlagMatchesDebt

-----------------------------------------------------------------------------
(* The ERC20 operations.                                                   *)

\* A supply keeps the invariant.
LEMMA SupplyInv ==
    ASSUME Inv, NEW u \in Users, NEW a \in ERC20s, NEW x \in Nat,
           ExecuteSupply(u, a, x)
    PROVE  Inv'
  <1>1. TokenInv'
    BY AssetBitOnly DEF Inv, ExecuteSupply, When
  <1>2. MoneyOK'
    BY DEF Inv, MoneyOK, ExecuteSupply, MintPToken, Accounts
  <1> QED BY <1>1, <1>2, DebtUntouched, MarketUntouched DEF Inv, ExecuteSupply

\* A withdrawal keeps the invariant.
LEMMA WithdrawInv ==
    ASSUME Inv, NEW u \in Users, NEW a \in ERC20s, NEW x, ExecuteWithdraw(u, a, x)
    PROVE  Inv'
  <1>1. TokenInv'
    BY AssetBitOnly DEF Inv, ExecuteWithdraw, When
  <1>2. pBalance[u][a] \in Nat /\ cash[a] \in Nat
    BY DEF Inv, MoneyOK, Accounts
  <1>3. x \in Nat /\ x <= pBalance[u][a] /\ x <= cash[a]
    BY <1>2 DEF ExecuteWithdraw, PayOut
  <1>4. MoneyOK'
    BY <1>2, <1>3 DEF Inv, MoneyOK, ExecuteWithdraw, PayOut, Accounts
  <1> QED BY <1>1, <1>4, DebtUntouched, MarketUntouched DEF Inv, ExecuteWithdraw

\* A transfer of PTokens keeps the invariant.
LEMMA TransferERC20Inv ==
    ASSUME Inv, NEW from \in Users, NEW to \in Users, NEW a \in ERC20s, NEW x,
           TransferERC20(from, to, a, x)
    PROVE  Inv'
  <1>1. usingAsCollateral' \in [Users -> SUBSET Reserves]
    BY DEF Inv, TokenInv, TransferERC20, When, Reserves
  <1>2. \A v \in Users, c \in Collections :
            c \in usingAsCollateral'[v] <=> c \in usingAsCollateral[v]
    BY PoolAssumption DEF Inv, TokenInv, TransferERC20, When
  <1>3. TokenInv'
    BY <1>1, <1>2, TokensUntouched DEF Inv, TransferERC20
  <1>4. x \in Nat /\ x <= pBalance[from][a]
    BY DEF Inv, MoneyOK, TransferERC20, Accounts
  <1>5. MoneyOK'
    BY <1>4 DEF Inv, MoneyOK, TransferERC20, Accounts
  <1> QED BY <1>3, <1>5, DebtUntouched, MarketUntouched DEF Inv, TransferERC20

\* Marking an ERC20 asset as collateral, or not, keeps the invariant.
LEMMA UseERC20AsCollateralInv ==
    ASSUME Inv, NEW u \in Users, NEW a \in ERC20s, NEW use \in BOOLEAN,
           ExecuteUseERC20AsCollateral(u, a, use)
    PROVE  Inv'
  <1>1. TokenInv'
    <2>1. CASE use
      BY <2>1, AssetBitOnly DEF Inv, ExecuteUseERC20AsCollateral
    <2>2. CASE ~use
      BY <2>2, AssetBitOnly DEF Inv, ExecuteUseERC20AsCollateral
    <2> QED BY <2>1, <2>2
  <1>2. MoneyOK'
    BY DEF Inv, MoneyOK, ExecuteUseERC20AsCollateral
  <1> QED BY <1>1, <1>2, DebtUntouched, MarketUntouched
          DEF Inv, ExecuteUseERC20AsCollateral

\* A borrow keeps the invariant: it sets the bit with the first of the debt.
LEMMA BorrowInv ==
    ASSUME Inv, NEW u \in Users, NEW a \in ERC20s, NEW x \in Nat,
           ExecuteBorrow(u, a, x)
    PROVE  Inv'
  <1>1. cash[a] \in Nat /\ x <= cash[a] /\ x # 0
    BY DEF Inv, MoneyOK, ExecuteBorrow, PayOut
  <1>2. MoneyOK'
    BY <1>1 DEF Inv, MoneyOK, ExecuteBorrow, PayOut
  <1>3. debt' \in [Users -> [ERC20s -> Nat]]
    BY DEF Inv, DebtInv, ExecuteBorrow
  <1>4. borrowing' \in [Users -> SUBSET ERC20s]
    BY DEF Inv, DebtInv, ExecuteBorrow, When
  <1>5. ASSUME NEW v \in Users, NEW b \in ERC20s
        PROVE  b \in borrowing'[v] <=> debt'[v][b] > 0
    <2>1. b \in borrowing[v] <=> debt[v][b] > 0
      BY DEF Inv, DebtInv, BorrowingFlagMatchesDebt
    <2>2. CASE v = u /\ b = a
      <3>1. debt'[v][b] = debt[u][a] + x /\ debt[u][a] \in Nat
        BY <2>2 DEF Inv, DebtInv, ExecuteBorrow
      <3>2. b \in borrowing'[v]
        BY <2>1, <2>2, <3>1 DEF Inv, DebtInv, ExecuteBorrow, When
      <3> QED BY <1>1, <3>1, <3>2
    <2>3. CASE v # u \/ b # a
      <3>1. debt'[v][b] = debt[v][b]
        BY <2>3 DEF Inv, DebtInv, ExecuteBorrow
      <3>2. b \in borrowing'[v] <=> b \in borrowing[v]
        BY <2>3 DEF Inv, DebtInv, ExecuteBorrow, When
      <3> QED BY <2>1, <3>1, <3>2
    <2> QED BY <2>2, <2>3
  <1>6. DebtInv'
    BY <1>3, <1>4, <1>5 DEF Inv, DebtInv, ExecuteBorrow, BorrowingFlagMatchesDebt
  <1>7. TokenInv'
    BY TokensUntouched DEF Inv, TokenInv, ExecuteBorrow
  <1> QED BY <1>2, <1>6, <1>7, MarketUntouched DEF Inv, ExecuteBorrow

\* A repayment keeps the invariant.
LEMMA RepayInv ==
    ASSUME Inv, NEW u \in Users, NEW a \in ERC20s, NEW x, ExecuteRepay(u, a, x)
    PROVE  Inv'
  <1> DEFINE paid == Smaller(x, debt[u][a])
  <1>1. BurnDebt(u, a, paid) /\ cash' = [cash EXCEPT ![a] = @ + paid]
    BY DEF ExecuteRepay
  <1> HIDE DEF paid
  <1>2. DebtInv' /\ paid \in Nat
    BY <1>1, BurnDebtInv DEF Inv
  <1>3. MoneyOK'
    BY <1>1, <1>2 DEF Inv, MoneyOK, ExecuteRepay
  <1>4. TokenInv'
    BY TokensUntouched DEF Inv, TokenInv, ExecuteRepay
  <1> QED BY <1>2, <1>3, <1>4, MarketUntouched DEF Inv, ExecuteRepay

\* A repayment with PTokens keeps the invariant.
LEMMA RepayWithPTokensInv ==
    ASSUME Inv, NEW u \in Users, NEW a \in ERC20s, NEW x, RepayWithPTokens(u, a, x)
    PROVE  Inv'
  <1> DEFINE paid == Smaller(x, debt[u][a])
  <1>1. /\ BurnDebt(u, a, paid)
        /\ paid <= pBalance[u][a]
        /\ pBalance' = [pBalance EXCEPT ![u][a] = @ - paid]
    BY DEF RepayWithPTokens
  <1> HIDE DEF paid
  <1>2. DebtInv' /\ paid \in Nat
    BY <1>1, BurnDebtInv DEF Inv
  <1>3. MoneyOK'
    BY <1>1, <1>2 DEF Inv, MoneyOK, RepayWithPTokens, Accounts
  <1>4. TokenInv'
    BY TokensUntouched DEF Inv, TokenInv, RepayWithPTokens
  <1> QED BY <1>2, <1>3, <1>4, MarketUntouched DEF Inv, RepayWithPTokens

-----------------------------------------------------------------------------
(* The ERC20 liquidation.                                                  *)

\* The liquidation of an ERC20 collateral keeps the invariant: what is seized
\* and its fee stay within the borrower's balance.
LEMMA LiquidateERC20Inv ==
    ASSUME Inv, NEW l \in Users, NEW u \in Users, NEW c \in ERC20s, NEW a \in ERC20s,
           NEW x, NEW receive \in BOOLEAN,
           ExecuteLiquidateERC20(l, u, c, a, x, receive)
    PROVE  Inv'
  <1> DEFINE p == ERC20Liquidation(u, c, a, LiquidatableDebt(u, a, x))
             seized == p.seized
             repaid == p.repaid
             fee == p.fee
             taken == seized - fee
             feePaid == [pBalance EXCEPT ![u][c] = @ - fee, ![Treasury][c] = @ + fee]
             cashPaid == [cash EXCEPT ![a] = @ + repaid]
             burnt == [feePaid EXCEPT ![u][c] = @ - taken]
             cleared == [usingAsCollateral EXCEPT
                            ![u] = @ \ When(seized = pBalance[u][c], c)]
  <1>1. /\ BurnDebt(u, a, repaid)
        /\ seized \in 0 .. pBalance[u][c] /\ fee \in 0 .. seized
        /\ UNCHANGED <<marketVars, ntokenVars>>
    BY DEF ExecuteLiquidateERC20
  <1>2. receive => /\ pBalance' = [burnt EXCEPT ![l][c] = @ + taken]
                   /\ cash' = cashPaid
                   /\ usingAsCollateral' =
                        [cleared EXCEPT ![l] = @ \cup When(feePaid[l][c] = 0, c)]
    BY DEF ExecuteLiquidateERC20
  <1>3. ~receive => /\ taken \in 1 .. cashPaid[c]
                    /\ pBalance' = burnt
                    /\ cash' = [cashPaid EXCEPT ![c] = @ - taken]
                    /\ usingAsCollateral' = cleared
    BY DEF ExecuteLiquidateERC20
  <1> HIDE DEF p, seized, repaid, fee
  <1>4. DebtInv' /\ repaid \in Nat
    BY <1>1, BurnDebtInv DEF Inv
  <1>5. u \in Accounts /\ l \in Accounts /\ Treasury \in Accounts /\ u # Treasury
    BY PoolAssumption DEF Accounts
  <1>6. /\ pBalance[u][c] \in Nat
        /\ seized \in Nat /\ seized <= pBalance[u][c]
        /\ fee \in Nat /\ fee <= seized
        /\ taken \in Nat
    BY <1>1, <1>5 DEF Inv, MoneyOK
  <1>7. feePaid \in [Accounts -> [ERC20s -> Nat]] /\ feePaid[u][c] = pBalance[u][c] - fee
    <2> DEFINE less == [pBalance EXCEPT ![u][c] = @ - fee]
    <2>1. pBalance[u][c] - fee \in Nat
      BY <1>6
    <2>2. less \in [Accounts -> [ERC20s -> Nat]] /\ less[u][c] = pBalance[u][c] - fee
      BY <1>5, <2>1 DEF Inv, MoneyOK
    <2>3. feePaid = [less EXCEPT ![Treasury][c] = @ + fee]
      <3>1. less[Treasury][c] = pBalance[Treasury][c]
        BY <1>5 DEF Inv, MoneyOK
      <3> QED BY <1>5, <3>1 DEF Inv, MoneyOK
    <2> HIDE DEF less, feePaid
    <2>4. feePaid \in [Accounts -> [ERC20s -> Nat]]
      BY <1>5, <1>6, <2>2, <2>3
    <2>5. feePaid[u][c] = less[u][c]
      BY <1>5, <2>2, <2>3
    <2> QED BY <2>2, <2>4, <2>5
  <1>8. burnt \in [Accounts -> [ERC20s -> Nat]] /\ cashPaid \in [ERC20s -> Nat]
    <2>1. feePaid[u][c] - taken \in Nat
      BY <1>6, <1>7
    <2>2. burnt \in [Accounts -> [ERC20s -> Nat]]
      <3> HIDE DEF feePaid, taken
      <3> QED BY <1>5, <1>7, <2>1
    <2> QED BY <1>4, <2>2, SMTT(30) DEF Inv, MoneyOK
  <1> HIDE DEF taken, feePaid, burnt, cashPaid
  <1>9. MoneyOK'
    <2>1. CASE receive
      BY <1>2, <1>5, <1>6, <1>8, <2>1 DEF MoneyOK
    <2>2. CASE ~receive
      BY <1>3, <1>6, <1>8, <2>2 DEF MoneyOK
    <2> QED BY <2>1, <2>2
  <1>10. usingAsCollateral' \in [Users -> SUBSET Reserves]
    BY <1>2, <1>3 DEF Inv, TokenInv, When, Reserves
  <1>11. \A v \in Users, d \in Collections :
            d \in usingAsCollateral'[v] <=> d \in usingAsCollateral[v]
    <2>1. ASSUME NEW v \in Users, NEW d \in Collections
          PROVE  d # c /\ (d \in cleared[v] <=> d \in usingAsCollateral[v])
      BY PoolAssumption DEF Inv, TokenInv, When
    <2>2. cleared \in [Users -> SUBSET Reserves]
      BY DEF Inv, TokenInv
    <2> HIDE DEF cleared
    <2>3. CASE receive
      BY <1>2, <2>1, <2>2, <2>3 DEF When
    <2>4. CASE ~receive
      BY <1>3, <2>1, <2>4
    <2> QED BY <2>3, <2>4
  <1>12. TokenInv'
    BY <1>1, <1>10, <1>11, TokensUntouched DEF Inv
  <1> QED BY <1>1, <1>4, <1>9, <1>12, MarketUntouched DEF Inv

-----------------------------------------------------------------------------
(* The token operations.                                                   *)

\* Minting for u: the marks of C appear, and nobody else's position changes.
LEMMA MintInv ==
    ASSUME TokenInv, NEW u \in Users, NEW c \in Collections,
           NEW T \in SUBSET TokensOf(c), NEW C \in SUBSET T,
           Mint(u, T, C),
           SetUsing(u, When(CollateralTokens(u, c) = {} /\ C # {}, c), {}),
           UNCHANGED <<auctionValidityTime, now>>
    PROVE  TokenInv'
  <1>1. \A t \in T : t \in Tokens /\ CollectionOf[t] = c /\ owners[t] = NoOwner
                     /\ t \notin isUsedAsCollateral /\ startTime[t] = 0
    BY DEF TokenInv, UnsuppliedTokensAreClean, Mint, Exists, TokensOf
  <1>2. u # NoOwner
    BY NTokenAssumption
  <1>3. NTokenTypeOK'
    BY <1>1 DEF TokenInv, NTokenTypeOK, Mint
  <1>4. UnsuppliedTokensAreClean'
    BY <1>1, <1>2 DEF TokenInv, NTokenTypeOK, UnsuppliedTokensAreClean, Mint
  <1>5. usingAsCollateral' \in [Users -> SUBSET Reserves]
    BY DEF TokenInv, SetUsing, When, Reserves
  <1>6. ASSUME NEW v \in Users, NEW d \in Collections
        PROVE  CollateralTokens(v, d)' =
                 IF v = u /\ d = c THEN CollateralTokens(v, d) \cup C
                                   ELSE CollateralTokens(v, d)
    BY <1>1, <1>2, NTokenAssumption
       DEF TokenInv, NTokenTypeOK, Mint, CollateralTokens, Collateralized, TokensOf
  <1>7. ASSUME NEW v \in Users, NEW d \in Collections
        PROVE  d \in usingAsCollateral'[v] <=> CollateralTokens(v, d)' # {}
    <2>1. d \in usingAsCollateral[v] <=> CollateralTokens(v, d) # {}
      BY DEF TokenInv, CollectionFlagMatchesTokens
    <2>2. CASE v = u /\ d = c
      BY <1>6, <2>1, <2>2 DEF TokenInv, SetUsing, When
    <2>3. CASE v # u \/ d # c
      BY <1>6, <2>1, <2>3 DEF TokenInv, SetUsing, When
    <2> QED BY <2>2, <2>3
  <1>8. AuctionedTokensAreCollateral'
    <2> SUFFICES ASSUME NEW t \in Tokens, IsAuctioned(t)'
                 PROVE  /\ t \in isUsedAsCollateral'
                        /\ owners'[t] \in Users
                        /\ CollectionOf[t] \in usingAsCollateral'[owners'[t]]
      BY DEF AuctionedTokensAreCollateral
    <2>1. t \notin T
      BY <1>1, <1>2 DEF TokenInv, NTokenTypeOK, Mint, IsAuctioned, ValidityTime
    <2>2. owners'[t] = owners[t] /\ IsAuctioned(t)
      BY <2>1 DEF TokenInv, NTokenTypeOK, Mint, IsAuctioned, ValidityTime
    <2>3. /\ t \in isUsedAsCollateral /\ owners[t] \in Users
          /\ CollectionOf[t] \in usingAsCollateral[owners[t]]
      BY <2>2 DEF TokenInv, AuctionedTokensAreCollateral
    <2> QED BY <2>2, <2>3 DEF TokenInv, Mint, SetUsing
  <1>9. StampsInThePast'
    BY DEF TokenInv, StampsInThePast, Mint
  <1> QED BY <1>3, <1>4, <1>5, <1>7, <1>8, <1>9 DEF TokenInv, CollectionFlagMatchesTokens

\* The tokens T of collection c stop being collateral of u, who may get bits of
\* ERC20 assets meanwhile; no auction starts and none of T stays in auction.
LEMMA LoseTokensInv ==
    ASSUME TokenInv, NEW u \in Users, NEW c \in Collections,
           NEW T \in SUBSET TokensOf(c), NEW on \in SUBSET ERC20s,
           SetUsing(u, on, When(LosesLast(u, c, T), c)),
           UNCHANGED <<auctionValidityTime, now>>,
           NTokenTypeOK', UnsuppliedTokensAreClean',
           \A t \in Tokens : startTime'[t] <= startTime[t],
           \A v \in Users, d \in Collections :
               CollateralTokens(v, d)' = IF v = u THEN CollateralTokens(v, d) \ T
                                                  ELSE CollateralTokens(v, d),
           \A t \in Tokens : IsAuctioned(t)' =>
               t \notin T /\ IsAuctioned(t) /\ owners'[t] = owners[t]
    PROVE  TokenInv'
  <1>1. usingAsCollateral' \in [Users -> SUBSET Reserves]
    BY DEF TokenInv, SetUsing, When, Reserves
  <1>2. ASSUME NEW v \in Users, NEW d \in Collections
        PROVE  d \in usingAsCollateral'[v] <=> CollateralTokens(v, d)' # {}
    <2>1. d \in usingAsCollateral[v] <=> CollateralTokens(v, d) # {}
      BY DEF TokenInv, CollectionFlagMatchesTokens
    <2>2. d \notin on
      BY PoolAssumption
    <2>3. CASE v = u /\ d = c
      <3>1. CollateralTokens(v, d)' = CollateralTokens(u, c) \ T
        BY <2>3
      <3>2. d \in usingAsCollateral'[v] <=>
              d \in usingAsCollateral[v] /\ ~LosesLast(u, c, T)
        BY <2>2, <2>3 DEF TokenInv, SetUsing, When
      <3> QED BY <2>1, <2>3, <3>1, <3>2 DEF LosesLast
    <2>4. CASE v = u /\ d # c
      <3>1. CollateralTokens(v, d) \cap T = {}
        BY <2>4 DEF CollateralTokens, TokensOf
      <3>2. CollateralTokens(v, d)' = CollateralTokens(v, d)
        BY <2>4, <3>1
      <3> QED BY <2>1, <2>2, <2>4, <3>2 DEF TokenInv, SetUsing, When
    <2>5. CASE v # u
      BY <2>1, <2>5 DEF TokenInv, SetUsing
    <2> QED BY <2>3, <2>4, <2>5
  <1>3. AuctionedTokensAreCollateral'
    <2> SUFFICES ASSUME NEW t \in Tokens, IsAuctioned(t)'
                 PROVE  /\ t \in isUsedAsCollateral'
                        /\ owners'[t] \in Users
                        /\ CollectionOf[t] \in usingAsCollateral'[owners'[t]]
      BY DEF AuctionedTokensAreCollateral
    <2>1. t \notin T /\ owners'[t] = owners[t]
      OBVIOUS
    <2>2. t \in isUsedAsCollateral /\ owners[t] \in Users
      BY DEF TokenInv, AuctionedTokensAreCollateral
    <2>3. CollectionOf[t] \in Collections
      BY PoolAssumption
    <2>4. t \in CollateralTokens(owners[t], CollectionOf[t])
      BY <2>2, <2>3 DEF CollateralTokens, Collateralized, TokensOf
    <2>5. t \in CollateralTokens(owners[t], CollectionOf[t])'
      BY <2>1, <2>2, <2>3, <2>4
    <2>6. t \in isUsedAsCollateral'
      BY <2>5 DEF CollateralTokens, Collateralized
    <2>7. CollectionOf[t] \in usingAsCollateral'[owners[t]]
      BY <1>2, <2>2, <2>3, <2>5
    <2> QED BY <2>1, <2>2, <2>6, <2>7
  <1>4. StampsInThePast'
    BY DEF TokenInv, NTokenTypeOK, StampsInThePast
  <1> QED BY <1>1, <1>2, <1>3, <1>4 DEF TokenInv, CollectionFlagMatchesTokens

\* What burning tokens of u does to the tokens.
LEMMA BurnTokens ==
    ASSUME TokenInv, NEW u \in Users, NEW T \in SUBSET Tokens, NEW ended,
           Burn(u, T, ended), UNCHANGED <<auctionValidityTime, now>>
    PROVE  /\ NTokenTypeOK' /\ UnsuppliedTokensAreClean'
           /\ \A t \in Tokens : startTime'[t] <= startTime[t]
           /\ \A v \in Users, d \in Collections :
                CollateralTokens(v, d)' = IF v = u THEN CollateralTokens(v, d) \ T
                                                   ELSE CollateralTokens(v, d)
           /\ \A t \in Tokens : IsAuctioned(t)' =>
                t \notin T /\ IsAuctioned(t) /\ owners'[t] = owners[t]
  <1>1. NTokenTypeOK'
    BY NTokenAssumption DEF TokenInv, NTokenTypeOK, Burn
  <1>2. UnsuppliedTokensAreClean'
    BY DEF TokenInv, NTokenTypeOK, UnsuppliedTokensAreClean, Burn
  <1>3. \A t \in Tokens : startTime'[t] <= startTime[t]
    BY DEF TokenInv, NTokenTypeOK, Burn
  <1>4. ASSUME NEW v \in Users, NEW d \in Collections
        PROVE  CollateralTokens(v, d)' = IF v = u THEN CollateralTokens(v, d) \ T
                                                  ELSE CollateralTokens(v, d)
    <2>1. \A t \in Tokens : owners'[t] = IF t \in T THEN NoOwner ELSE owners[t]
      BY DEF Burn
    <2>2. v # NoOwner /\ \A t \in T : owners[t] = u
      BY NTokenAssumption DEF Burn
    <2>3. isUsedAsCollateral' = isUsedAsCollateral \ T
      BY DEF Burn
    <2> QED BY <2>1, <2>2, <2>3
            DEF TokenInv, NTokenTypeOK, CollateralTokens, Collateralized, TokensOf
  <1>5. ASSUME NEW t \in Tokens, IsAuctioned(t)'
        PROVE  t \notin T /\ IsAuctioned(t) /\ owners'[t] = owners[t]
    BY <1>5, NTokenAssumption DEF TokenInv, NTokenTypeOK, Burn, IsAuctioned, ValidityTime
  <1> QED BY <1>1, <1>2, <1>3, <1>4, <1>5

\* What a transfer from u to somebody else does to the tokens.
LEMMA TransferTokens ==
    ASSUME TokenInv, NEW u \in Users, NEW to \in Users, u # to, NEW t \in Tokens,
           NEW ended, Transfer(u, to, t, ended), UNCHANGED <<auctionValidityTime, now>>
    PROVE  /\ NTokenTypeOK' /\ UnsuppliedTokensAreClean'
           /\ \A s \in Tokens : startTime'[s] <= startTime[s]
           /\ \A v \in Users, d \in Collections :
                CollateralTokens(v, d)' = IF v = u THEN CollateralTokens(v, d) \ {t}
                                                   ELSE CollateralTokens(v, d)
           /\ \A s \in Tokens : IsAuctioned(s)' =>
                s \notin {t} /\ IsAuctioned(s) /\ owners'[s] = owners[s]
  <1>1. NTokenTypeOK'
    BY NTokenAssumption DEF TokenInv, NTokenTypeOK, Transfer
  <1>2. UnsuppliedTokensAreClean'
    BY NTokenAssumption DEF TokenInv, NTokenTypeOK, UnsuppliedTokensAreClean, Transfer
  <1>3. \A s \in Tokens : startTime'[s] <= startTime[s]
    BY DEF TokenInv, NTokenTypeOK, Transfer
  <1>4. ASSUME NEW v \in Users, NEW d \in Collections
        PROVE  CollateralTokens(v, d)' = IF v = u THEN CollateralTokens(v, d) \ {t}
                                                  ELSE CollateralTokens(v, d)
    <2>1. \A s \in Tokens : owners'[s] = IF s = t THEN to ELSE owners[s]
      BY DEF TokenInv, NTokenTypeOK, Transfer
    <2>2. owners[t] = u /\ isUsedAsCollateral' = isUsedAsCollateral \ {t}
      BY DEF Transfer
    <2> QED BY <2>1, <2>2
            DEF TokenInv, NTokenTypeOK, CollateralTokens, Collateralized, TokensOf
  <1>5. ASSUME NEW s \in Tokens, IsAuctioned(s)'
        PROVE  s \notin {t} /\ IsAuctioned(s) /\ owners'[s] = owners[s]
    BY <1>5, NTokenAssumption
       DEF TokenInv, NTokenTypeOK, Transfer, IsAuctioned, ValidityTime
  <1> QED BY <1>1, <1>2, <1>3, <1>4, <1>5

\* Burning and transferring tokens of u, with the bits updated as the Pool does.
LEMMA BurnInv ==
    ASSUME TokenInv, NEW u \in Users, NEW c \in Collections,
           NEW T \in SUBSET TokensOf(c), NEW on \in SUBSET ERC20s, NEW ended,
           Burn(u, T, ended), UNCHANGED <<auctionValidityTime, now>>,
           SetUsing(u, on, When(LosesLast(u, c, T), c))
    PROVE  TokenInv'
  <1>1. T \in SUBSET Tokens
    BY DEF TokensOf
  <1>2. /\ NTokenTypeOK' /\ UnsuppliedTokensAreClean'
        /\ \A t \in Tokens : startTime'[t] <= startTime[t]
        /\ \A v \in Users, d \in Collections :
              CollateralTokens(v, d)' = IF v = u THEN CollateralTokens(v, d) \ T
                                                 ELSE CollateralTokens(v, d)
        /\ \A t \in Tokens : IsAuctioned(t)' =>
              t \notin T /\ IsAuctioned(t) /\ owners'[t] = owners[t]
    BY <1>1, BurnTokens
  <1> QED BY <1>2, LoseTokensInv

\* What Transfer leaves behind, when the sender's bit follows its last
\* collateral token, keeps the token part of the invariant.
LEMMA TransferInv ==
    ASSUME TokenInv, NEW u \in Users, NEW to \in Users, u # to, NEW t \in Tokens,
           NEW on \in SUBSET ERC20s, NEW ended, Transfer(u, to, t, ended),
           UNCHANGED <<auctionValidityTime, now>>,
           SetUsing(u, on, When(LosesLast(u, CollectionOf[t], {t}), CollectionOf[t]))
    PROVE  TokenInv'
  <1>1. CollectionOf[t] \in Collections /\ {t} \in SUBSET TokensOf(CollectionOf[t])
    BY PoolAssumption DEF TokensOf
  <1>2. /\ NTokenTypeOK' /\ UnsuppliedTokensAreClean'
        /\ \A s \in Tokens : startTime'[s] <= startTime[s]
        /\ \A v \in Users, d \in Collections :
              CollateralTokens(v, d)' = IF v = u THEN CollateralTokens(v, d) \ {t}
                                                 ELSE CollateralTokens(v, d)
        /\ \A s \in Tokens : IsAuctioned(s)' =>
              s \notin {t} /\ IsAuctioned(s) /\ owners'[s] = owners[s]
    BY TransferTokens
  <1> QED BY <1>1, <1>2, LoseTokensInv

-----------------------------------------------------------------------------
(* The ERC721 operations.                                                  *)

\* A supply of NFTs keeps the invariant.
LEMMA SupplyERC721Inv ==
    ASSUME Inv, NEW u \in Users, NEW c \in Collections, NEW T \in SUBSET TokensOf(c),
           NEW C \in SUBSET T, ExecuteSupplyERC721(u, c, T, C)
    PROVE  Inv'
  <1>1. TokenInv'
    BY MintInv DEF Inv, ExecuteSupplyERC721
  <1>2. MoneyOK'
    BY DEF Inv, MoneyOK, ExecuteSupplyERC721
  <1> QED BY <1>1, <1>2, DebtUntouched, MarketUntouched DEF Inv, ExecuteSupplyERC721

\* A withdrawal of NFTs keeps the invariant.
LEMMA WithdrawERC721Inv ==
    ASSUME Inv, NEW u \in Users, NEW c \in Collections, NEW T \in SUBSET TokensOf(c),
           ExecuteWithdrawERC721(u, c, T)
    PROVE  Inv'
  <1>1. /\ TokenInv /\ Burn(u, T, {}) /\ UNCHANGED <<auctionValidityTime, now>>
        /\ SetUsing(u, {}, When(LosesLast(u, c, T), c))
    BY DEF Inv, ExecuteWithdrawERC721
  <1>2. TokenInv'
    BY <1>1, BurnInv
  <1>3. MoneyOK'
    BY DEF Inv, MoneyOK, ExecuteWithdrawERC721
  <1> QED BY <1>2, <1>3, DebtUntouched, MarketUntouched DEF Inv, ExecuteWithdrawERC721

\* A transfer of an NToken keeps the invariant.
LEMMA TransferERC721Inv ==
    ASSUME Inv, NEW u \in Users, NEW to \in Users, NEW t \in Tokens,
           TransferERC721(u, to, t)
    PROVE  Inv'
  <1>1. /\ TokenInv /\ u # to /\ Transfer(u, to, t, {})
        /\ UNCHANGED <<auctionValidityTime, now>>
        /\ SetUsing(u, {}, When(LosesLast(u, CollectionOf[t], {t}), CollectionOf[t]))
    BY DEF Inv, TransferERC721
  <1>2. TokenInv'
    BY <1>1, TransferInv
  <1>3. MoneyOK'
    BY DEF Inv, MoneyOK, TransferERC721
  <1> QED BY <1>2, <1>3, DebtUntouched, MarketUntouched DEF Inv, TransferERC721

\* Marking a batch of tokens as collateral keeps the invariant.
LEMMA CollateralizeERC721Inv ==
    ASSUME Inv, NEW u \in Users, NEW c \in Collections, NEW T \in SUBSET TokensOf(c),
           ExecuteCollateralizeERC721(u, c, T)
    PROVE  Inv'
  <1> DEFINE new == T \ isUsedAsCollateral
  <1>1. /\ isUsedAsCollateral' = isUsedAsCollateral \cup T
        /\ UNCHANGED <<owners, startTime, auctionValidityTime, now>>
        /\ SetUsing(u, When(CollateralTokens(u, c) = {} /\ new # {}, c), {})
    BY DEF ExecuteCollateralizeERC721, SetIsUsedAsCollateral
  <1>2. \A t \in new : owners[t] = u
    BY DEF ExecuteCollateralizeERC721, SetIsUsedAsCollateral
  <1>3. \A t \in T : t \in Tokens /\ CollectionOf[t] = c
    BY DEF TokensOf
  <1>4. NTokenTypeOK' /\ StampsInThePast'
    BY <1>1, <1>3 DEF Inv, TokenInv, NTokenTypeOK, StampsInThePast
  <1>5. UnsuppliedTokensAreClean'
    BY <1>1, <1>2, NTokenAssumption DEF Inv, TokenInv, UnsuppliedTokensAreClean
  <1>6. usingAsCollateral' \in [Users -> SUBSET Reserves]
    BY <1>1 DEF Inv, TokenInv, SetUsing, When, Reserves
  <1>7. ASSUME NEW v \in Users, NEW d \in Collections
        PROVE  CollateralTokens(v, d)' =
                 IF v = u /\ d = c THEN CollateralTokens(v, d) \cup new
                                   ELSE CollateralTokens(v, d)
    BY <1>1, <1>2, <1>3 DEF CollateralTokens, Collateralized, TokensOf
  <1>8. ASSUME NEW v \in Users, NEW d \in Collections
        PROVE  d \in usingAsCollateral'[v] <=> CollateralTokens(v, d)' # {}
    <2>1. d \in usingAsCollateral[v] <=> CollateralTokens(v, d) # {}
      BY DEF Inv, TokenInv, CollectionFlagMatchesTokens
    <2> HIDE DEF new
    <2>2. CASE v = u /\ d = c
      BY <1>1, <1>7, <2>1, <2>2 DEF Inv, TokenInv, SetUsing, When
    <2>3. CASE v # u \/ d # c
      BY <1>1, <1>7, <2>1, <2>3 DEF Inv, TokenInv, SetUsing, When
    <2> QED BY <2>2, <2>3
  <1>9. AuctionedTokensAreCollateral'
    BY <1>1 DEF Inv, TokenInv, AuctionedTokensAreCollateral, IsAuctioned, ValidityTime,
                SetUsing
  <1>10. TokenInv'
    BY <1>4, <1>5, <1>6, <1>8, <1>9 DEF TokenInv, CollectionFlagMatchesTokens
  <1>11. MoneyOK'
    BY DEF Inv, MoneyOK, ExecuteCollateralizeERC721
  <1> QED BY <1>10, <1>11, DebtUntouched, MarketUntouched
          DEF Inv, ExecuteCollateralizeERC721

\* Unmarking a batch keeps the invariant: an auctioned token of the batch
\* makes the transaction fail.
LEMMA UncollateralizeERC721Inv ==
    ASSUME Inv, NEW u \in Users, NEW c \in Collections, NEW T \in SUBSET TokensOf(c),
           ExecuteUncollateralizeERC721(u, c, T)
    PROVE  Inv'
  <1>1. /\ isUsedAsCollateral' = isUsedAsCollateral \ T
        /\ UNCHANGED <<owners, startTime, auctionValidityTime, now>>
        /\ SetUsing(u, {}, When(LosesLast(u, c, T), c))
    BY DEF ExecuteUncollateralizeERC721, SetIsUsedAsCollateral
  <1>2. \A t \in T \cap isUsedAsCollateral : owners[t] = u /\ ~IsAuctioned(t)
    BY DEF ExecuteUncollateralizeERC721, SetIsUsedAsCollateral
  <1>3. NTokenTypeOK' /\ UnsuppliedTokensAreClean'
    BY <1>1 DEF Inv, TokenInv, NTokenTypeOK, UnsuppliedTokensAreClean
  <1>4. ASSUME NEW v \in Users, NEW d \in Collections
        PROVE  CollateralTokens(v, d)' = IF v = u THEN CollateralTokens(v, d) \ T
                                                  ELSE CollateralTokens(v, d)
    BY <1>1, <1>2 DEF CollateralTokens, Collateralized
  <1>5. ASSUME NEW t \in Tokens, IsAuctioned(t)'
        PROVE  t \notin T /\ IsAuctioned(t) /\ owners'[t] = owners[t]
    <2>1. IsAuctioned(t)
      BY <1>1, <1>5 DEF IsAuctioned, ValidityTime
    <2>2. t \in isUsedAsCollateral
      BY <2>1 DEF Inv, TokenInv, AuctionedTokensAreCollateral
    <2> QED BY <1>1, <1>2, <2>1, <2>2
  <1>6. \A t \in Tokens : startTime'[t] <= startTime[t]
    BY <1>1 DEF Inv, TokenInv, NTokenTypeOK
  <1>7. TokenInv'
    BY <1>1, <1>3, <1>4, <1>5, <1>6, LoseTokensInv DEF Inv
  <1>8. MoneyOK'
    BY DEF Inv, MoneyOK, ExecuteUncollateralizeERC721
  <1> QED BY <1>7, <1>8, DebtUntouched, MarketUntouched
          DEF Inv, ExecuteUncollateralizeERC721

-----------------------------------------------------------------------------
(* Auctions and the liquidation of a token.                                *)

\* An auction starts only on a token that counts as collateral of its owner.
LEMMA StartAuctionInv ==
    ASSUME Inv, NEW u \in Users, NEW t \in Tokens, ExecuteStartAuction(u, t)
    PROVE  Inv'
  <1>1. /\ owners[t] = u /\ t \in isUsedAsCollateral
        /\ CollectionOf[t] \in usingAsCollateral[u]
        /\ startTime' = [startTime EXCEPT ![t] = now]
        /\ UNCHANGED <<owners, isUsedAsCollateral, poolVars, auctionValidityTime, now>>
    BY DEF ExecuteStartAuction, StartAuction, CollateralEnabled
  <1>2. NTokenTypeOK'
    BY <1>1 DEF Inv, TokenInv, NTokenTypeOK
  <1>3. StampsInThePast'
    BY <1>1 DEF Inv, TokenInv, NTokenTypeOK, StampsInThePast
  <1>4. UnsuppliedTokensAreClean'
    BY <1>1, NTokenAssumption DEF Inv, TokenInv, NTokenTypeOK, UnsuppliedTokensAreClean
  <1>5. CollectionFlagMatchesTokens'
    BY <1>1 DEF Inv, TokenInv, CollectionFlagMatchesTokens, CollateralTokens,
                Collateralized, poolVars
  <1>6. AuctionedTokensAreCollateral'
    BY <1>1 DEF Inv, TokenInv, NTokenTypeOK, AuctionedTokensAreCollateral, IsAuctioned,
                ValidityTime, poolVars
  <1>7. TokenInv'
    BY <1>1, <1>2, <1>3, <1>4, <1>5, <1>6 DEF Inv, TokenInv, poolVars
  <1> QED BY <1>1, <1>7, DebtUntouched, MarketUntouched DEF Inv, MoneyOK, poolVars

\* Ending an auction takes its record away.
LEMMA EndAuctionInv ==
    ASSUME Inv, NEW u \in Users, NEW t \in Tokens, ExecuteEndAuction(u, t)
    PROVE  Inv'
  <1>1. /\ startTime' = [startTime EXCEPT ![t] = 0]
        /\ UNCHANGED <<owners, isUsedAsCollateral, poolVars, auctionValidityTime, now>>
    BY DEF ExecuteEndAuction, EndAuction
  <1>2. NTokenTypeOK'
    BY <1>1, NTokenAssumption DEF Inv, TokenInv, NTokenTypeOK
  <1>3. StampsInThePast'
    BY <1>1 DEF Inv, TokenInv, NTokenTypeOK, StampsInThePast
  <1>4. UnsuppliedTokensAreClean'
    BY <1>1 DEF Inv, TokenInv, NTokenTypeOK, UnsuppliedTokensAreClean
  <1>5. CollectionFlagMatchesTokens'
    BY <1>1 DEF Inv, TokenInv, CollectionFlagMatchesTokens, CollateralTokens,
                Collateralized, poolVars
  <1>6. AuctionedTokensAreCollateral'
    BY <1>1 DEF Inv, TokenInv, NTokenTypeOK, AuctionedTokensAreCollateral, IsAuctioned,
                ValidityTime, poolVars
  <1>7. TokenInv'
    BY <1>1, <1>2, <1>3, <1>4, <1>5, <1>6 DEF Inv, TokenInv, poolVars
  <1> QED BY <1>1, <1>7, DebtUntouched, MarketUntouched DEF Inv, MoneyOK, poolVars

\* A reset of the auctions of u is dated now, so it ends auctions and starts none.
LEMMA SetAuctionValidityTimeInv ==
    ASSUME Inv, NEW u \in Users, SetAuctionValidityTime(u)
    PROVE  Inv'
  <1>1. /\ auctionValidityTime' = [auctionValidityTime EXCEPT ![u] = now]
        /\ UNCHANGED <<poolVars, owners, isUsedAsCollateral, startTime, now>>
    BY DEF SetAuctionValidityTime, SetValidity, tokenVars
  <1>2. NTokenTypeOK'
    BY <1>1 DEF Inv, TokenInv, NTokenTypeOK
  <1>3. StampsInThePast'
    BY <1>1 DEF Inv, TokenInv, NTokenTypeOK, StampsInThePast
  <1>4. UnsuppliedTokensAreClean'
    BY <1>1 DEF Inv, TokenInv, UnsuppliedTokensAreClean
  <1>5. CollectionFlagMatchesTokens'
    BY <1>1 DEF Inv, TokenInv, CollectionFlagMatchesTokens, CollateralTokens,
                Collateralized, poolVars
  <1>6. \A t \in Tokens : IsAuctioned(t)' => IsAuctioned(t)
    BY <1>1 DEF Inv, TokenInv, NTokenTypeOK, StampsInThePast, IsAuctioned, ValidityTime
  <1>7. AuctionedTokensAreCollateral'
    BY <1>1, <1>6 DEF Inv, TokenInv, AuctionedTokensAreCollateral, poolVars
  <1>8. TokenInv'
    BY <1>1, <1>2, <1>3, <1>4, <1>5, <1>7 DEF Inv, TokenInv, poolVars
  <1> QED BY <1>1, <1>8, DebtUntouched, MarketUntouched DEF Inv, MoneyOK, poolVars

\* The price of an NFT is a natural number: the auction has been running for a
\* time that the strategy knows.
LEMMA LiquidationAmountNat ==
    ASSUME Inv, NEW t \in Tokens, LT[CollectionOf[t]] # 0
    PROVE  ERC721LiquidationAmount(t) \in Nat
  <1> DEFINE c == CollectionOf[t]
             auction == c \in auctionEnabled
             elapsed == now - startTime[t]
             worth == IF auction THEN (price[c] * AuctionMultiplier[elapsed]) \div Factor
                                 ELSE price[c]
             divisor == IF auction THEN Factor ELSE Bonus[c]
  <1>1. c \in Reserves /\ WETH \in Reserves
    BY PoolAssumption DEF Reserves
  <1>2. price[c] \in Nat \ {0} /\ price[WETH] \in Nat \ {0}
    BY <1>1 DEF Inv, MarketOK
  <1>3. Bonus[c] \in Nat \ {0} /\ Factor \in Nat \ {0}
    <2>1. Bonus \in [Reserves -> Nat] /\ LT[c] # 0 /\ (LT[c] # 0 => Bonus[c] >= 10000)
      BY <1>1, PoolAssumption
    <2> QED BY <1>1, <2>1 DEF Factor
  <1>4. elapsed \in 0 .. MaxTime
    <2>1. startTime[t] \in Nat /\ startTime[t] <= now /\ now \in Nat /\ now <= MaxTime
      BY NTokenAssumption DEF Inv, TokenInv, NTokenTypeOK, StampsInThePast
    <2> QED BY <2>1, NTokenAssumption
  <1>5. AuctionMultiplier[elapsed] \in Nat
    BY <1>4, PoolAssumption
  <1> HIDE DEF c, auction, elapsed
  <1>6. price[c] * AuctionMultiplier[elapsed] \in Nat
    BY <1>2, <1>5
  <1>7. worth \in Nat
    BY <1>2, <1>3, <1>6, DivNat
  <1> HIDE DEF worth
  <1>8. worth \div price[WETH] \in Nat
    BY <1>2, <1>7, DivNat
  <1>9. divisor \in Nat \ {0}
    BY <1>3
  <1> HIDE DEF divisor
  <1>10. PercentDiv(worth \div price[WETH], divisor) \in Nat
    BY <1>8, <1>9, PercentNat
  <1> QED BY <1>10 DEF ERC721LiquidationAmount, c, auction, elapsed, worth, divisor

\* The sale of a token: the token leaves u, and WETH becomes collateral of u.
LEMMA LiquidateERC721Inv ==
    ASSUME Inv, NEW l \in Users, NEW u \in Users, NEW t \in Tokens,
           NEW receive \in BOOLEAN, ExecuteLiquidateERC721(l, u, t, receive)
    PROVE  Inv'
  <1> DEFINE c == CollectionOf[t]
             paid == ERC721LiquidationAmount(t)
             ended == IF c \in auctionEnabled THEN {t} ELSE {}
  <1>1. /\ l # u
        /\ MintPToken(u, WETH, paid)
        /\ SetUsing(u, {WETH}, When(LosesLast(u, c, {t}), c))
        /\ UNCHANGED <<debtVars, marketVars>>
        /\ UNCHANGED <<auctionValidityTime, now>>
    BY DEF ExecuteLiquidateERC721
  <1>2. receive => Transfer(u, l, t, ended)
    BY DEF ExecuteLiquidateERC721
  <1>3. ~receive => Burn(u, {t}, ended)
    BY DEF ExecuteLiquidateERC721
  <1> HIDE DEF ended
  <1>4. TokenInv /\ {WETH} \in SUBSET ERC20s
    BY PoolAssumption DEF Inv
  <1>5. TokenInv'
    <2>1. CASE receive
      BY <1>1, <1>2, <1>4, <2>1, TransferInv
    <2>2. CASE ~receive
      <3>1. c \in Collections /\ {t} \in SUBSET TokensOf(c)
        BY PoolAssumption DEF TokensOf
      <3> HIDE DEF c
      <3> QED BY <1>1, <1>3, <1>4, <2>2, <3>1, BurnInv
    <2> QED BY <2>1, <2>2
  <1>6. paid \in Nat
    BY LiquidationAmountNat DEF ExecuteLiquidateERC721, CollateralEnabled
  <1> HIDE DEF paid
  <1>7. MoneyOK'
    BY <1>1, <1>6, PoolAssumption DEF Inv, MoneyOK, MintPToken, Accounts
  <1> QED BY <1>1, <1>5, <1>7, DebtUntouched, MarketUntouched DEF Inv

-----------------------------------------------------------------------------
(* The world around the Pool.                                              *)

\* Price moves, pauses, freezes and auction strategies touch the market only.
LEMMA MarketMovesInv ==
    ASSUME Inv, MarketOK',
           UNCHANGED <<pBalance, cash, usingAsCollateral, debtVars, ntokenVars>>
    PROVE  Inv'
  <1>1. TokenInv'
    BY TokensUntouched DEF Inv, TokenInv
  <1>2. MoneyOK'
    BY DEF Inv, MoneyOK
  <1> QED BY <1>1, <1>2, DebtUntouched DEF Inv

\* Time moves on: no stamp gets ahead of it, and every debt falls behind the
\* borrow index.
LEMMA PassBlockInv ==
    ASSUME Inv, PassBlock
    PROVE  Inv'
  <1>1. /\ now \in Nat /\ now < MaxTime /\ now' = now + 1
        /\ UNCHANGED <<owners, isUsedAsCollateral, startTime, auctionValidityTime>>
        /\ UNCHANGED <<pBalance, cash, usingAsCollateral, debt, borrowing, marketVars>>
        /\ atCurrentIndex' = {}
    BY NTokenAssumption DEF Inv, TokenInv, NTokenTypeOK, PassBlock, Tick, tokenVars
  <1>2. NTokenTypeOK'
    BY <1>1, NTokenAssumption DEF Inv, TokenInv, NTokenTypeOK
  <1>3. StampsInThePast'
    BY <1>1, NTokenAssumption DEF Inv, TokenInv, NTokenTypeOK, StampsInThePast
  <1>4. UnsuppliedTokensAreClean'
    BY <1>1 DEF Inv, TokenInv, UnsuppliedTokensAreClean
  <1>5. CollectionFlagMatchesTokens'
    BY <1>1 DEF Inv, TokenInv, CollectionFlagMatchesTokens, CollateralTokens,
                Collateralized
  <1>6. AuctionedTokensAreCollateral'
    BY <1>1 DEF Inv, TokenInv, AuctionedTokensAreCollateral, IsAuctioned, ValidityTime
  <1>7. TokenInv'
    BY <1>1, <1>2, <1>3, <1>4, <1>5, <1>6 DEF Inv, TokenInv
  <1>8. DebtInv'
    BY <1>1 DEF Inv, DebtInv, BorrowingFlagMatchesDebt
  <1> QED BY <1>1, <1>7, <1>8, MarketUntouched DEF Inv, MoneyOK

-----------------------------------------------------------------------------
(* The invariant of the specification.                                     *)

\* The Pool starts with nothing supplied, lent or auctioned.
LEMMA InitInv ==
    ASSUME PoolInit
    PROVE  Inv
  <1>1. NTokenTypeOK /\ StampsInThePast /\ UnsuppliedTokensAreClean
    BY NTokenAssumption
       DEF PoolInit, NTokenInit, NTokenTypeOK, StampsInThePast, UnsuppliedTokensAreClean
  <1>2. CollectionFlagMatchesTokens
    BY DEF PoolInit, NTokenInit, CollectionFlagMatchesTokens, CollateralTokens,
           Collateralized
  <1>3. AuctionedTokensAreCollateral
    BY NTokenAssumption
       DEF PoolInit, NTokenInit, AuctionedTokensAreCollateral, IsAuctioned, ValidityTime
  <1>4. TokenInv
    BY <1>1, <1>2, <1>3 DEF TokenInv, PoolInit
  <1>5. DebtInv
    BY DEF DebtInv, PoolInit, BorrowingFlagMatchesDebt
  <1>6. MoneyOK /\ MarketOK
    BY PoolAssumption DEF MoneyOK, MarketOK, PoolInit
  <1> QED BY <1>4, <1>5, <1>6 DEF Inv

\* Nobody moves a negative amount.
LEMMA AmountsAreNat == \A x \in Amounts : x \in Nat
  <1>1. Amounts \subseteq Nat \ {0}
    BY PoolAssumption
  <1> QED BY <1>1

\* The transactions on ERC20 assets.
LEMMA ERC20NextInv ==
    ASSUME Inv, ERC20Next
    PROVE  Inv'
  <1>1. PICK u \in Users, a \in ERC20s :
          \/ \E x \in Amounts : ExecuteSupply(u, a, x) \/ ExecuteBorrow(u, a, x)
          \/ \E x \in Amounts \cup {pBalance[u][a]} :
                \/ ExecuteWithdraw(u, a, x)
                \/ RepayWithPTokens(u, a, x)
                \/ \E to \in Users : TransferERC20(u, to, a, x)
          \/ \E use \in BOOLEAN : ExecuteUseERC20AsCollateral(u, a, use)
          \/ \E x \in Amounts \cup {debt[u][a]} :
                \/ ExecuteRepay(u, a, x)
                \/ \E l \in Users, c \in ERC20s, receive \in BOOLEAN :
                      ExecuteLiquidateERC20(l, u, c, a, x, receive)
    BY DEF ERC20Next
  <1>2. \A x \in Amounts : x \in Nat
    BY AmountsAreNat
  <1>3. ASSUME NEW x \in Amounts, ExecuteSupply(u, a, x) \/ ExecuteBorrow(u, a, x)
        PROVE  Inv'
    BY <1>2, <1>3, SupplyInv, BorrowInv
  <1>4. ASSUME NEW x, \/ ExecuteWithdraw(u, a, x)
                      \/ RepayWithPTokens(u, a, x)
                      \/ ExecuteRepay(u, a, x)
        PROVE  Inv'
    BY <1>4, WithdrawInv, RepayWithPTokensInv, RepayInv
  <1>5. ASSUME NEW x, NEW to \in Users, TransferERC20(u, to, a, x)
        PROVE  Inv'
    BY <1>5, TransferERC20Inv
  <1>6. ASSUME NEW use \in BOOLEAN, ExecuteUseERC20AsCollateral(u, a, use)
        PROVE  Inv'
    BY <1>6, UseERC20AsCollateralInv
  <1>7. ASSUME NEW x, NEW l \in Users, NEW c \in ERC20s, NEW receive \in BOOLEAN,
               ExecuteLiquidateERC20(l, u, c, a, x, receive)
        PROVE  Inv'
    BY <1>7, LiquidateERC20Inv
  <1> QED BY <1>1, <1>3, <1>4, <1>5, <1>6, <1>7

\* The transactions on ERC721 assets.
LEMMA ERC721NextInv ==
    ASSUME Inv, ERC721Next
    PROVE  Inv'
  <1>1. PICK u \in Users :
          \/ \E c \in Collections : \E T \in SUBSET TokensOf(c) \ {{}} :
                \/ \E C \in SUBSET T : ExecuteSupplyERC721(u, c, T, C)
                \/ ExecuteWithdrawERC721(u, c, T)
                \/ ExecuteCollateralizeERC721(u, c, T)
                \/ ExecuteUncollateralizeERC721(u, c, T)
          \/ \E t \in Tokens :
                \/ \E to \in Users : TransferERC721(u, to, t)
                \/ ExecuteStartAuction(u, t)
                \/ ExecuteEndAuction(u, t)
                \/ \E l \in Users, receive \in BOOLEAN :
                      ExecuteLiquidateERC721(l, u, t, receive)
          \/ SetAuctionValidityTime(u)
    BY DEF ERC721Next
  <1>2. ASSUME NEW c \in Collections, NEW T \in SUBSET TokensOf(c) \ {{}},
               \/ \E C \in SUBSET T : ExecuteSupplyERC721(u, c, T, C)
               \/ ExecuteWithdrawERC721(u, c, T)
               \/ ExecuteCollateralizeERC721(u, c, T)
               \/ ExecuteUncollateralizeERC721(u, c, T)
        PROVE  Inv'
    BY <1>2, SupplyERC721Inv, WithdrawERC721Inv, CollateralizeERC721Inv,
       UncollateralizeERC721Inv
  <1>3. ASSUME NEW t \in Tokens,
               \/ \E to \in Users : TransferERC721(u, to, t)
               \/ ExecuteStartAuction(u, t)
               \/ ExecuteEndAuction(u, t)
               \/ \E l \in Users, receive \in BOOLEAN :
                     ExecuteLiquidateERC721(l, u, t, receive)
        PROVE  Inv'
    BY <1>3, TransferERC721Inv, StartAuctionInv, EndAuctionInv, LiquidateERC721Inv
  <1> QED BY <1>1, <1>2, <1>3, SetAuctionValidityTimeInv

\* The market, the blocks and the administrators.
LEMMA EnvironmentInv ==
    ASSUME Inv, Environment
    PROVE  Inv'
  <1>1. CASE \E r \in Reserves : \E move \in PriceMoves[r] : SetPrice(r, move)
    <2>1. PICK r \in Reserves : \E move \in PriceMoves[r] : SetPrice(r, move)
      BY <1>1
    <2>2. PICK move \in PriceMoves[r] : SetPrice(r, move)
      BY <2>1
    <2>3. move[2] \in Nat \ {0}
      BY PoolAssumption
    <2>4. MarketOK'
      BY <2>2, <2>3 DEF Inv, MarketOK, SetPrice
    <2> QED BY <2>2, <2>4, MarketMovesInv DEF SetPrice
  <1>2. CASE PassBlock
    BY <1>2, PassBlockInv
  <1>3. CASE \E r \in Switchable :
               \/ PauseReserve(r) \/ UnpauseReserve(r)
               \/ \E freeze \in BOOLEAN : SetReserveFreeze(r, freeze)
    <2>1. MarketOK'
      BY <1>3, PoolAssumption
         DEF Inv, MarketOK, PauseReserve, UnpauseReserve, SetReserveFreeze
    <2>2. UNCHANGED <<pBalance, cash, usingAsCollateral, debtVars, ntokenVars>>
      BY <1>3 DEF PauseReserve, UnpauseReserve, SetReserveFreeze
    <2> QED BY <2>1, <2>2, MarketMovesInv
  <1>4. CASE \E c \in AuctionSwitchable, on \in BOOLEAN : SetReserveAuctionStrategy(c, on)
    <2>1. MarketOK'
      BY <1>4, PoolAssumption DEF Inv, MarketOK, SetReserveAuctionStrategy
    <2>2. UNCHANGED <<pBalance, cash, usingAsCollateral, debtVars, ntokenVars>>
      BY <1>4 DEF SetReserveAuctionStrategy
    <2> QED BY <2>1, <2>2, MarketMovesInv
  <1> QED BY <1>1, <1>2, <1>3, <1>4 DEF Environment

\* A step that changes nothing.
LEMMA StutterInv ==
    ASSUME Inv, UNCHANGED vars
    PROVE  Inv'
  <1>1. MarketOK'
    BY MarketUntouched DEF Inv, vars, poolVars
  <1>2. UNCHANGED <<pBalance, cash, usingAsCollateral, debtVars, ntokenVars>>
    BY DEF vars, poolVars
  <1> QED BY <1>1, <1>2, MarketMovesInv

\* The invariant holds in every reachable state of the Pool.
THEOREM InvHolds == PoolSpec => []Inv
  <1>1. PoolInit => Inv
    BY InitInv
  <1>2. Inv /\ [PoolNext]_vars => Inv'
    BY ERC20NextInv, ERC721NextInv, EnvironmentInv, StutterInv DEF PoolNext
  <1> QED BY <1>1, <1>2, PTL DEF PoolSpec

\* Every variable of the Pool keeps its type, whatever the transactions and the
\* prices: in particular no balance, debt or liquidity goes below zero.
THEOREM PoolTypeCorrect == PoolSpec => []PoolTypeOK
  BY InvHolds, InvImplies, PTL

\* The borrowing bits of UserConfigurationMap and the debt tokens always agree.
THEOREM BorrowingFlagCorrect == PoolSpec => []BorrowingFlagMatchesDebt
  BY InvHolds, InvImplies, PTL

\* The collateral bit of a collection and the marks of the tokens always agree.
THEOREM CollectionFlagCorrect == PoolSpec => []CollectionFlagMatchesTokens
  BY InvHolds, InvImplies, PTL

\* A token in auction is always collateral of the position it belongs to.
THEOREM AuctionedTokensCorrect == PoolSpec => []AuctionedTokensAreCollateral
  BY InvHolds, InvImplies, PTL

-----------------------------------------------------------------------------
(* No step but the start of an auction starts an auction.                  *)

NoAuctionStarts == \A t \in Tokens : IsAuctioned(t)' => IsAuctioned(t)

\* A step that leaves owners, marks and auction times alone revives no auction.
LEMMA QuietTokens ==
    ASSUME UNCHANGED ntokenVars
    PROVE  NoAuctionStarts
  BY DEF NoAuctionStarts, IsAuctioned, ValidityTime, ntokenVars

\* The transactions on ERC20 assets do not touch the tokens.
LEMMA ERC20NextTokens ==
    ASSUME ERC20Next
    PROVE  UNCHANGED ntokenVars
  <1>1. ASSUME NEW u, NEW a, NEW x,
               \/ ExecuteSupply(u, a, x) \/ ExecuteBorrow(u, a, x)
               \/ ExecuteWithdraw(u, a, x) \/ RepayWithPTokens(u, a, x)
               \/ ExecuteRepay(u, a, x)
               \/ \E to : TransferERC20(u, to, a, x)
               \/ \E use : ExecuteUseERC20AsCollateral(u, a, use)
        PROVE  UNCHANGED ntokenVars
    BY <1>1 DEF ExecuteSupply, ExecuteBorrow, ExecuteWithdraw, RepayWithPTokens,
                ExecuteRepay, TransferERC20, ExecuteUseERC20AsCollateral
  <1>2. ASSUME NEW u, NEW a, NEW x, NEW l, NEW c, NEW receive,
               ExecuteLiquidateERC20(l, u, c, a, x, receive)
        PROVE  UNCHANGED ntokenVars
    BY <1>2 DEF ExecuteLiquidateERC20
  <1> QED BY <1>1, <1>2 DEF ERC20Next

\* Supplying starts no auction: a token that comes in has no record.
LEMMA MintQuiet ==
    ASSUME TokenInv, NEW u \in Users, NEW T \in SUBSET Tokens, NEW C, Mint(u, T, C),
           UNCHANGED <<auctionValidityTime, now>>
    PROVE  NoAuctionStarts
  <1> SUFFICES ASSUME NEW t \in Tokens, IsAuctioned(t)'
               PROVE  IsAuctioned(t)
    BY DEF NoAuctionStarts
  <1>1. CASE t \in T
    <2>1. startTime'[t] = 0
      BY <1>1 DEF TokenInv, UnsuppliedTokensAreClean, Mint, Exists
    <2>2. owners'[t] = u /\ ValidityTime(u)' \in Nat
      BY <1>1 DEF Mint, ValidityTime, TokenInv, NTokenTypeOK
    <2> QED BY <2>1, <2>2 DEF IsAuctioned, ValidityTime
  <1>2. CASE t \notin T
    BY <1>2 DEF Mint, IsAuctioned, ValidityTime
  <1> QED BY <1>1, <1>2

\* The sale of a token ends its auction and starts none.
LEMMA LiquidateERC721Quiet ==
    ASSUME TokenInv, NEW l \in Users, NEW u \in Users, NEW t \in Tokens, NEW receive,
           ExecuteLiquidateERC721(l, u, t, receive)
    PROVE  NoAuctionStarts
  <1> DEFINE ended == IF CollectionOf[t] \in auctionEnabled THEN {t} ELSE {}
  <1>1. /\ l # u /\ UNCHANGED <<auctionValidityTime, now>>
        /\ Transfer(u, l, t, ended) \/ Burn(u, {t}, ended)
    BY DEF ExecuteLiquidateERC721
  <1> HIDE DEF ended
  <1>2. CASE Transfer(u, l, t, ended)
    BY <1>1, <1>2, TransferTokens DEF NoAuctionStarts
  <1>3. CASE Burn(u, {t}, ended)
    BY <1>1, <1>3, BurnTokens DEF NoAuctionStarts
  <1> QED BY <1>1, <1>2, <1>3

\* The transactions on ERC721 assets, the start of an auction apart.
LEMMA ERC721StepQuiet ==
    ASSUME Inv, NEW u \in Users,
           \/ \E c \in Collections : \E T \in SUBSET TokensOf(c) \ {{}} :
                 \/ \E C \in SUBSET T : ExecuteSupplyERC721(u, c, T, C)
                 \/ ExecuteWithdrawERC721(u, c, T)
                 \/ ExecuteCollateralizeERC721(u, c, T)
                 \/ ExecuteUncollateralizeERC721(u, c, T)
           \/ \E t \in Tokens :
                 \/ \E to \in Users : TransferERC721(u, to, t)
                 \/ ExecuteEndAuction(u, t)
                 \/ \E l \in Users, receive \in BOOLEAN :
                       ExecuteLiquidateERC721(l, u, t, receive)
           \/ SetAuctionValidityTime(u)
    PROVE  NoAuctionStarts
  <1>1. TokenInv
    BY DEF Inv
  <1>2. \A c \in Collections : \A T \in SUBSET TokensOf(c) : T \in SUBSET Tokens
    BY DEF TokensOf
  <1>3. ASSUME NEW c \in Collections, NEW T \in SUBSET TokensOf(c), NEW C,
               ExecuteSupplyERC721(u, c, T, C)
        PROVE  NoAuctionStarts
    BY <1>1, <1>2, <1>3, MintQuiet DEF ExecuteSupplyERC721
  <1>4. ASSUME NEW c \in Collections, NEW T \in SUBSET TokensOf(c),
               ExecuteWithdrawERC721(u, c, T)
        PROVE  NoAuctionStarts
    <2>1. Burn(u, T, {}) /\ UNCHANGED <<auctionValidityTime, now>>
      BY <1>4 DEF ExecuteWithdrawERC721
    <2> QED BY <1>1, <1>2, <2>1, BurnTokens DEF NoAuctionStarts
  <1>5. ASSUME NEW c, NEW T, \/ ExecuteCollateralizeERC721(u, c, T)
                             \/ ExecuteUncollateralizeERC721(u, c, T)
        PROVE  NoAuctionStarts
    <2>1. UNCHANGED <<owners, startTime, auctionValidityTime, now>>
      BY <1>5 DEF ExecuteCollateralizeERC721, ExecuteUncollateralizeERC721,
                  SetIsUsedAsCollateral
    <2> QED BY <2>1 DEF NoAuctionStarts, IsAuctioned, ValidityTime
  <1>6. ASSUME NEW t \in Tokens, NEW to \in Users, TransferERC721(u, to, t)
        PROVE  NoAuctionStarts
    <2>1. /\ u # to /\ Transfer(u, to, t, {})
          /\ UNCHANGED <<auctionValidityTime, now>>
      BY <1>6 DEF TransferERC721
    <2> QED BY <1>1, <2>1, TransferTokens DEF NoAuctionStarts
  <1>7. ASSUME NEW t \in Tokens, ExecuteEndAuction(u, t)
        PROVE  NoAuctionStarts
    <2>1. /\ startTime' = [startTime EXCEPT ![t] = 0]
          /\ UNCHANGED <<owners, auctionValidityTime, now>>
      BY <1>7 DEF ExecuteEndAuction, EndAuction
    <2> QED BY <1>1, <2>1
            DEF NoAuctionStarts, IsAuctioned, ValidityTime, TokenInv, NTokenTypeOK
  <1>8. ASSUME SetAuctionValidityTime(u)
        PROVE  NoAuctionStarts
    <2>1. /\ auctionValidityTime' = [auctionValidityTime EXCEPT ![u] = now]
          /\ UNCHANGED <<owners, startTime, now>>
      BY <1>8 DEF SetAuctionValidityTime, SetValidity, tokenVars
    <2> QED BY <1>1, <2>1 DEF NoAuctionStarts, IsAuctioned, ValidityTime, TokenInv,
                              NTokenTypeOK, StampsInThePast
  <1> QED BY <1>1, <1>3, <1>4, <1>5, <1>6, <1>7, <1>8, LiquidateERC721Quiet

\* The market, the blocks and the administrators.
LEMMA EnvironmentQuiet ==
    ASSUME Environment
    PROVE  NoAuctionStarts
  <1>1. CASE PassBlock
    BY <1>1 DEF PassBlock, tokenVars, NoAuctionStarts, IsAuctioned, ValidityTime
  <1>2. CASE ~PassBlock
    <2>1. UNCHANGED ntokenVars
      BY <1>2 DEF Environment, SetPrice, PauseReserve, UnpauseReserve,
                  SetReserveFreeze, SetReserveAuctionStrategy
    <2> QED BY <2>1, QuietTokens
  <1> QED BY <1>1, <1>2

\* Every step that puts a token into auction is ExecuteStartAuction on it.
LEMMA OnlyStartAuctionStarts ==
    ASSUME Inv, [PoolNext]_vars, NEW t \in Tokens, IsAuctioned(t)', ~IsAuctioned(t)
    PROVE  ExecuteStartAuction(owners[t], t)
  <1>1. ~NoAuctionStarts
    BY DEF NoAuctionStarts
  <1>2. ~UNCHANGED vars
    BY <1>1, QuietTokens DEF vars
  <1>3. ~ERC20Next /\ ~Environment
    BY <1>1, ERC20NextTokens, QuietTokens, EnvironmentQuiet
  <1>4. ERC721Next
    BY <1>2, <1>3 DEF PoolNext
  <1>5. PICK u \in Users, s \in Tokens : ExecuteStartAuction(u, s)
    BY <1>1, <1>4, ERC721StepQuiet DEF ERC721Next
  <1>6. s = t
    BY <1>5 DEF ExecuteStartAuction, StartAuction, IsAuctioned, ValidityTime,
                Inv, TokenInv, NTokenTypeOK
  <1> QED BY <1>5, <1>6 DEF ExecuteStartAuction

\* An auction starts only now, for the owner the token has, and while the ERC721
\* health factor of that owner is below one: no record of an earlier auction
\* comes back to life, through whatever transfers, withdrawals and resets.
THEOREM AuctionNeverRevivesHolds == PoolSpec => AuctionNeverRevives
  <1> DEFINE Step ==
          \A t \in Tokens :
              IsAuctioned(t)' /\ ~IsAuctioned(t) =>
                  /\ startTime'[t] = now
                  /\ owners'[t] = owners[t]
                  /\ ERC721HealthFactor(owners[t]) < Wad
  <1>1. Inv /\ [PoolNext]_vars => Step
    <2> SUFFICES ASSUME Inv, [PoolNext]_vars, NEW t \in Tokens,
                        IsAuctioned(t)', ~IsAuctioned(t)
                 PROVE  /\ startTime'[t] = now
                        /\ owners'[t] = owners[t]
                        /\ ERC721HealthFactor(owners[t]) < Wad
      OBVIOUS
    <2>1. ExecuteStartAuction(owners[t], t)
      BY OnlyStartAuctionStarts
    <2> QED BY <2>1 DEF ExecuteStartAuction, StartAuction, Inv, TokenInv, NTokenTypeOK
  <1>2. Inv /\ [PoolNext]_vars => [Step]_vars
    BY <1>1
  <1> QED BY <1>2, InvHolds, PTL DEF PoolSpec, AuctionNeverRevives

-----------------------------------------------------------------------------
(* A pause stops everything.                                               *)

\* What does not move of a paused ERC20 reserve a, and of a token t of a paused
\* collection.
AssetStands(a) ==
    /\ cash'[a] = cash[a]
    /\ \A u \in Users : pBalance'[u][a] = pBalance[u][a] /\ debt'[u][a] = debt[u][a]

TokenStands(t) ==
    /\ owners'[t] = owners[t]
    /\ (t \in isUsedAsCollateral') = (t \in isUsedAsCollateral)

\* An ERC20 liquidation asks both reserves, the seized and the repaid one.
LEMMA LiquidateERC20Stands ==
    ASSUME Inv, NEW l \in Users, NEW u \in Users, NEW c \in ERC20s, NEW a \in ERC20s,
           NEW x, NEW receive \in BOOLEAN,
           ExecuteLiquidateERC20(l, u, c, a, x, receive),
           NEW b \in ERC20s, b \in paused
    PROVE  AssetStands(b)
  <1> DEFINE p == ERC20Liquidation(u, c, a, LiquidatableDebt(u, a, x))
             seized == p.seized
             repaid == p.repaid
             fee == p.fee
             taken == seized - fee
             feePaid == [pBalance EXCEPT ![u][c] = @ - fee, ![Treasury][c] = @ + fee]
             cashPaid == [cash EXCEPT ![a] = @ + repaid]
             burnt == [feePaid EXCEPT ![u][c] = @ - taken]
  <1>1. /\ BurnDebt(u, a, repaid)
        /\ Live(c) /\ Live(a)
        /\ \/ /\ pBalance' = [burnt EXCEPT ![l][c] = @ + taken]
              /\ cash' = cashPaid
           \/ /\ pBalance' = burnt
              /\ cash' = [cashPaid EXCEPT ![c] = @ - taken]
    BY DEF ExecuteLiquidateERC20
  <1> HIDE DEF p, seized, repaid, fee
  <1>2. b # c /\ b # a
    BY <1>1 DEF Live
  <1>3. ASSUME NEW v \in Users
        PROVE  pBalance'[v][b] = pBalance[v][b]
    <2>1. \A w \in Accounts : feePaid[w][b] = pBalance[w][b]
      BY <1>2 DEF Inv, MoneyOK
    <2>2. \A w \in Accounts : burnt[w][b] = feePaid[w][b]
      BY <1>2 DEF Inv, MoneyOK
    <2>3. /\ DOMAIN burnt = Accounts /\ v \in Accounts
          /\ \A w \in Accounts : DOMAIN burnt[w] = ERC20s
      BY DEF Inv, MoneyOK, Accounts
    <2> HIDE DEF burnt, taken
    <2>4. pBalance'[v][b] = burnt[v][b]
      BY <1>1, <1>2, <2>3
    <2> QED BY <2>1, <2>2, <2>3, <2>4
  <1>4. \A v \in Users : debt'[v][b] = debt[v][b]
    BY <1>1, <1>2 DEF BurnDebt, Inv, DebtInv
  <1>5. cash'[b] = cash[b]
    BY <1>1, <1>2 DEF Inv, MoneyOK
  <1> QED BY <1>3, <1>4, <1>5 DEF AssetStands

\* The transactions on ERC20 assets.
LEMMA ERC20NextStands ==
    ASSUME Inv, ERC20Next, NEW b \in ERC20s, b \in paused
    PROVE  AssetStands(b)
  <1>1. ASSUME NEW u \in Users, NEW a \in ERC20s, NEW x,
               \/ ExecuteSupply(u, a, x) \/ ExecuteBorrow(u, a, x)
        PROVE  AssetStands(b)
    BY <1>1 DEF ExecuteSupply, ValidateSupply, MintPToken, ExecuteBorrow, ValidateBorrow,
                PayOut, Open, Live, AssetStands, Inv, MoneyOK, DebtInv, debtVars, Accounts
  <1>2. ASSUME NEW u \in Users, NEW a \in ERC20s, NEW x, ExecuteWithdraw(u, a, x)
        PROVE  AssetStands(b)
    BY <1>2 DEF ExecuteWithdraw, PayOut, Live, AssetStands, Inv, MoneyOK, debtVars,
                Accounts
  <1>3. ASSUME NEW u \in Users, NEW a \in ERC20s, NEW x, RepayWithPTokens(u, a, x)
        PROVE  AssetStands(b)
    BY <1>3 DEF RepayWithPTokens, ValidateRepay, BurnDebt, Live, AssetStands, Inv,
                MoneyOK, DebtInv, Accounts
  <1>4. ASSUME NEW u \in Users, NEW a \in ERC20s, NEW x, ExecuteRepay(u, a, x)
        PROVE  AssetStands(b)
    BY <1>4 DEF ExecuteRepay, ValidateRepay, BurnDebt, Live, AssetStands, Inv,
                MoneyOK, DebtInv, Accounts
  <1>5. ASSUME NEW u \in Users, NEW a \in ERC20s, NEW x, NEW to \in Users,
               TransferERC20(u, to, a, x)
        PROVE  AssetStands(b)
    BY <1>5 DEF TransferERC20, Live, AssetStands, Inv, MoneyOK, debtVars, Accounts
  <1>6. ASSUME NEW u \in Users, NEW a \in ERC20s, NEW use,
               ExecuteUseERC20AsCollateral(u, a, use)
        PROVE  AssetStands(b)
    BY <1>6 DEF ExecuteUseERC20AsCollateral, AssetStands, debtVars
  <1>7. PICK u \in Users, a \in ERC20s :
          \/ \E x \in Amounts : ExecuteSupply(u, a, x) \/ ExecuteBorrow(u, a, x)
          \/ \E x \in Amounts \cup {pBalance[u][a]} :
                \/ ExecuteWithdraw(u, a, x)
                \/ RepayWithPTokens(u, a, x)
                \/ \E to \in Users : TransferERC20(u, to, a, x)
          \/ \E use \in BOOLEAN : ExecuteUseERC20AsCollateral(u, a, use)
          \/ \E x \in Amounts \cup {debt[u][a]} :
                \/ ExecuteRepay(u, a, x)
                \/ \E l \in Users, c \in ERC20s, receive \in BOOLEAN :
                      ExecuteLiquidateERC20(l, u, c, a, x, receive)
    BY DEF ERC20Next
  <1> QED BY <1>1, <1>2, <1>3, <1>4, <1>5, <1>6, <1>7, LiquidateERC20Stands

\* The sale of an NFT supplies WETH and asks its reserve too.
LEMMA LiquidateERC721Stands ==
    ASSUME Inv, NEW l \in Users, NEW u \in Users, NEW t \in Tokens, NEW receive,
           ExecuteLiquidateERC721(l, u, t, receive)
    PROVE  /\ \A b \in ERC20s \cap paused : AssetStands(b)
           /\ \A s \in Tokens : CollectionOf[s] \in paused => TokenStands(s)
  <1> DEFINE ended == IF CollectionOf[t] \in auctionEnabled THEN {t} ELSE {}
             paid == ERC721LiquidationAmount(t)
  <1>1. /\ l # u /\ Live(CollectionOf[t]) /\ Live(WETH)
        /\ MintPToken(u, WETH, paid)
        /\ UNCHANGED debtVars
        /\ Transfer(u, l, t, ended) \/ Burn(u, {t}, ended)
    BY DEF ExecuteLiquidateERC721
  <1> HIDE DEF ended, paid
  <1>2. ASSUME NEW b \in ERC20s, b \in paused
        PROVE  AssetStands(b)
    BY <1>1, <1>2, PoolAssumption
       DEF Live, MintPToken, AssetStands, Inv, MoneyOK, debtVars, Accounts
  <1>3. ASSUME NEW s \in Tokens, CollectionOf[s] \in paused
        PROVE  TokenStands(s)
    <2>1. s # t
      BY <1>1, <1>3 DEF Live
    <2>2. CASE Transfer(u, l, t, ended)
      BY <1>1, <2>1, <2>2 DEF Transfer, TokenStands, Inv, TokenInv, NTokenTypeOK
    <2>3. CASE Burn(u, {t}, ended)
      BY <2>1, <2>3 DEF Burn, TokenStands
    <2> QED BY <1>1, <2>2, <2>3
  <1> QED BY <1>2, <1>3

\* The transactions on ERC721 assets.
LEMMA ERC721NextStands ==
    ASSUME Inv, ERC721Next
    PROVE  /\ \A b \in ERC20s \cap paused : AssetStands(b)
           /\ \A s \in Tokens : CollectionOf[s] \in paused => TokenStands(s)
  <1> DEFINE Stand == /\ \A b \in ERC20s \cap paused : AssetStands(b)
                      /\ \A s \in Tokens : CollectionOf[s] \in paused => TokenStands(s)
  <1>1. ASSUME UNCHANGED <<pBalance, cash, debt>>
        PROVE  \A b \in ERC20s : AssetStands(b)
    BY <1>1 DEF AssetStands
  <1>2. ASSUME NEW u \in Users, NEW c \in Collections, NEW T \in SUBSET TokensOf(c),
               NEW C \in SUBSET T, ExecuteSupplyERC721(u, c, T, C)
        PROVE  Stand
    <2>1. Live(c) /\ Mint(u, T, C) /\ UNCHANGED <<pBalance, cash, debt>>
      BY <1>2 DEF ExecuteSupplyERC721, ValidateSupply, Open, debtVars
    <2> QED BY <1>1, <2>1 DEF Live, Mint, TokensOf, TokenStands
  <1>3. ASSUME NEW u \in Users, NEW c \in Collections, NEW T \in SUBSET TokensOf(c),
               ExecuteWithdrawERC721(u, c, T)
        PROVE  Stand
    <2>1. Live(c) /\ Burn(u, T, {}) /\ UNCHANGED <<pBalance, cash, debt>>
      BY <1>3 DEF ExecuteWithdrawERC721, debtVars
    <2> QED BY <1>1, <2>1 DEF Live, Burn, TokensOf, TokenStands
  <1>4. ASSUME NEW u \in Users, NEW c \in Collections, NEW T \in SUBSET TokensOf(c),
               \/ ExecuteCollateralizeERC721(u, c, T)
               \/ ExecuteUncollateralizeERC721(u, c, T)
        PROVE  Stand
    <2>1. /\ Live(c) /\ UNCHANGED <<pBalance, cash, debt, owners>>
          /\ \/ isUsedAsCollateral' = isUsedAsCollateral \cup T
             \/ isUsedAsCollateral' = isUsedAsCollateral \ T
      BY <1>4 DEF ExecuteCollateralizeERC721, ExecuteUncollateralizeERC721,
                  SetIsUsedAsCollateral, debtVars
    <2> QED BY <1>1, <2>1 DEF Live, TokensOf, TokenStands
  <1>5. ASSUME NEW u \in Users, NEW to \in Users, NEW t \in Tokens,
               TransferERC721(u, to, t)
        PROVE  Stand
    <2>1. /\ Live(CollectionOf[t]) /\ Transfer(u, to, t, {})
          /\ UNCHANGED <<pBalance, cash, debt>>
      BY <1>5 DEF TransferERC721, debtVars
    <2> QED BY <1>1, <2>1 DEF Live, Transfer, TokenStands, tokenVars, Inv, TokenInv,
                              NTokenTypeOK
  <1>6. ASSUME NEW u \in Users, NEW t \in Tokens,
               \/ ExecuteStartAuction(u, t) \/ ExecuteEndAuction(u, t)
        PROVE  Stand
    <2>1. UNCHANGED <<pBalance, cash, debt, owners, isUsedAsCollateral>>
      BY <1>6 DEF ExecuteStartAuction, ExecuteEndAuction, StartAuction, EndAuction,
                  poolVars, debtVars
    <2> QED BY <1>1, <2>1 DEF TokenStands
  <1>7. ASSUME NEW u \in Users, SetAuctionValidityTime(u)
        PROVE  Stand
    <2>1. UNCHANGED <<pBalance, cash, debt, owners, isUsedAsCollateral>>
      BY <1>7 DEF SetAuctionValidityTime, tokenVars, poolVars, debtVars
    <2> QED BY <1>1, <2>1 DEF TokenStands
  <1>8. ASSUME NEW l \in Users, NEW u \in Users, NEW t \in Tokens, NEW receive,
               ExecuteLiquidateERC721(l, u, t, receive)
        PROVE  Stand
    BY <1>8, LiquidateERC721Stands
  <1> HIDE DEF Stand
  <1>9. Stand
    BY <1>2, <1>3, <1>4, <1>5, <1>6, <1>7, <1>8 DEF ERC721Next
  <1> QED BY <1>9 DEF Stand

\* Nothing moves in a paused reserve, by any entry point: each of them asks every
\* reserve it touches, and the pause is seen by the transaction it precedes.
THEOREM PausedReserveStandsStillHolds == PoolSpec => PausedReserveStandsStill
  <1> DEFINE Step ==
         /\ \A a \in ERC20s \cap paused :
              /\ cash'[a] = cash[a]
              /\ \A u \in Users :
                    pBalance'[u][a] = pBalance[u][a] /\ debt'[u][a] = debt[u][a]
         /\ \A t \in Tokens : CollectionOf[t] \in paused =>
              /\ owners'[t] = owners[t]
              /\ (t \in isUsedAsCollateral') = (t \in isUsedAsCollateral)
  <1>1. /\ \A a \in ERC20s \cap paused : AssetStands(a)
        /\ \A t \in Tokens : CollectionOf[t] \in paused => TokenStands(t)
        => Step
    BY DEF AssetStands, TokenStands
  <1>2. ASSUME Inv, PoolNext
        PROVE  Step
    <2>1. CASE ERC20Next
      <3>1. UNCHANGED <<owners, isUsedAsCollateral>>
        BY <2>1, ERC20NextTokens DEF ntokenVars
      <3>2. \A t \in Tokens : TokenStands(t)
        BY <3>1 DEF TokenStands
      <3> HIDE DEF Step
      <3> QED BY <1>1, <1>2, <2>1, <3>2, ERC20NextStands
    <2>2. CASE ERC721Next
      <3> HIDE DEF Step
      <3> QED BY <1>1, <1>2, <2>2, ERC721NextStands
    <2>3. CASE Environment
      <3>1. UNCHANGED <<pBalance, cash, debt, owners, isUsedAsCollateral>>
        BY <2>3 DEF Environment, SetPrice, PassBlock, PauseReserve, UnpauseReserve,
                    SetReserveFreeze, SetReserveAuctionStrategy, debtVars, ntokenVars,
                    tokenVars
      <3> QED BY <3>1
    <2> QED BY <1>2, <2>1, <2>2, <2>3 DEF PoolNext
  <1>3. Inv /\ [PoolNext]_vars => [Step]_vars
    BY <1>2
  <1> QED BY <1>3, InvHolds, PTL DEF PoolSpec, PausedReserveStandsStill

-----------------------------------------------------------------------------
(* Double entry: what a step does to the supply, the debt and the liquidity *)
(* of an asset.  Balances are matrices, by account and by asset; in between *)
(* two entries of one transaction they may be negative.                     *)

Ledgers(S) == [S -> [ERC20s -> Int]]
Column(m, S, b) == SumFunctionOnSet([u \in S |-> m[u][b]], S)
Added(m, u, a, d) == [m EXCEPT ![u][a] = @ + d]
Taken(m, u, a, x) == [m EXCEPT ![u][a] = @ - x]
At(b, a, d) == IF b = a THEN d ELSE 0

\* The total of an asset is a number.
LEMMA ColumnType ==
    ASSUME NEW S, IsFiniteSet(S), NEW m \in Ledgers(S), NEW b \in ERC20s
    PROVE  Column(m, S, b) \in Int
  <1> DEFINE f == [u \in S |-> m[u][b]]
  <1>1. \A u \in S : f[u] \in Int
    BY DEF Ledgers
  <1> HIDE DEF f
  <1>2. SumFunctionOnSet(f, S) \in Int
    BY <1>1, SumType
  <1> QED BY <1>2 DEF Column, f

\* An entry gives a matrix again.
LEMMA AddedType ==
    ASSUME NEW S, NEW m \in Ledgers(S), NEW u \in S, NEW a \in ERC20s, NEW d \in Int
    PROVE  Added(m, u, a, d) \in Ledgers(S)
  BY DEF Added, Ledgers

\* An entry that takes x away is an entry of -x.
LEMMA TakenIsAdded ==
    ASSUME NEW S, NEW m \in Ledgers(S), NEW u \in S, NEW a \in ERC20s, NEW x \in Int
    PROVE  Taken(m, u, a, x) = Added(m, u, a, 0 - x)
  <1>1. m[u][a] \in Int
    BY DEF Ledgers
  <1>2. m[u][a] - x = m[u][a] + (0 - x)
    BY <1>1
  <1> QED BY <1>2, Zenon DEF Taken, Added

\* An entry of d for account u and asset a moves the total of a by d and leaves
\* the totals of the other assets alone.
LEMMA AddedColumn ==
    ASSUME NEW S, IsFiniteSet(S), NEW m \in Ledgers(S), NEW u \in S, NEW a \in ERC20s,
           NEW d \in Int, NEW b \in ERC20s
    PROVE  Column(Added(m, u, a, d), S, b) = Column(m, S, b) + At(b, a, d)
  <1> DEFINE n == Added(m, u, a, d)
             f == [v \in S |-> m[v][b]]
             e == [v \in S |-> n[v][b]]
  <1>1. /\ \A v \in S : f[v] = m[v][b] /\ e[v] = n[v][b]
        /\ Column(m, S, b) = SumFunctionOnSet(f, S)
        /\ Column(n, S, b) = SumFunctionOnSet(e, S)
    BY DEF Column
  <1>2. \A v \in S : m[v][b] \in Int /\ n[v][b] \in Int
    <2>1. n \in Ledgers(S)
      BY AddedType
    <2> HIDE DEF n
    <2> QED BY <2>1 DEF Ledgers
  <1>3. \A v \in S \ {u} : n[v][b] = m[v][b]
    BY DEF Ledgers, Added
  <1>4. n[u][b] = m[u][b] + At(b, a, d)
    BY DEF Ledgers, Added, At
  <1> HIDE DEF n, f, e
  <1>5. SumFunctionOnSet(e, S) = SumFunctionOnSet(f, S) - f[u] + e[u]
    <2>1. /\ \A v \in S : f[v] \in Int /\ e[v] \in Int
          /\ \A v \in S \ {u} : f[v] = e[v]
      BY <1>1, <1>2, <1>3
    <2> QED BY <2>1, SumChange
  <1>6. SumFunctionOnSet(f, S) \in Int
    BY <1>1, <1>2, SumType
  <1>7. f[u] \in Int /\ e[u] = f[u] + At(b, a, d) /\ At(b, a, d) \in Int
    BY <1>1, <1>2, <1>4 DEF At
  <1>8. SumFunctionOnSet(e, S) = SumFunctionOnSet(f, S) + At(b, a, d)
    BY <1>5, <1>6, <1>7
  <1> QED BY <1>1, <1>8 DEF n

\* The matrices of the Pool and their totals.
LEMMA PoolLedgers ==
    ASSUME Inv
    PROVE  /\ IsFiniteSet(Accounts) /\ IsFiniteSet(Users) /\ Users \subseteq Accounts
           /\ Treasury \in Accounts
           /\ pBalance \in Ledgers(Accounts) /\ debt \in Ledgers(Users)
           /\ \A b \in ERC20s : /\ TotalSupply(b) = Column(pBalance, Accounts, b)
                                /\ TotalVariableDebt(b) = Column(debt, Users, b)
                                /\ TotalSupply(b) \in Int /\ TotalVariableDebt(b) \in Int
                                /\ cash[b] \in Int
           /\ \A b \in ERC20s : /\ TotalSupply(b)' = Column(pBalance', Accounts, b)
                                /\ TotalVariableDebt(b)' = Column(debt', Users, b)
  <1>1. IsFiniteSet(Users) /\ IsFiniteSet(Accounts) /\ Users \subseteq Accounts
        /\ Treasury \in Accounts
    <2>1. IsFiniteSet(Users) /\ Treasury \notin Users
      BY PoolAssumption
    <2> QED BY <2>1, FS_AddElement DEF Accounts
  <1>2. pBalance \in Ledgers(Accounts)
    BY DEF Inv, MoneyOK, Ledgers
  <1>3. debt \in Ledgers(Users)
    BY DEF Inv, DebtInv, Ledgers
  <1>4. \A b \in ERC20s : /\ TotalSupply(b) = Column(pBalance, Accounts, b)
                          /\ TotalVariableDebt(b) = Column(debt, Users, b)
                          /\ TotalSupply(b)' = Column(pBalance', Accounts, b)
                          /\ TotalVariableDebt(b)' = Column(debt', Users, b)
    BY DEF TotalSupply, TotalVariableDebt, Column
  <1>5. \A b \in ERC20s : /\ Column(pBalance, Accounts, b) \in Int
                          /\ Column(debt, Users, b) \in Int
    BY <1>1, <1>2, <1>3, ColumnType
  <1>6. \A b \in ERC20s : cash[b] \in Int
    BY DEF Inv, MoneyOK
  <1> QED BY <1>1, <1>2, <1>3, <1>4, <1>5, <1>6

\* What one step does to an asset: the supply moves by s and the debt by d, the
\* liquidity by the difference, and neither grows in a frozen reserve.
Balanced(b) ==
    \E s, d \in Int :
        /\ TotalSupply(b)' = TotalSupply(b) + s
        /\ TotalVariableDebt(b)' = TotalVariableDebt(b) + d
        /\ cash'[b] = cash[b] + s - d
        /\ b \in frozen => s <= 0 /\ d <= 0

\* Three entries: s of asset c in the balances, d of asset a in the debts, and
\* what they leave in the liquidity.
LEMMA EntryBalanced ==
    ASSUME Inv, NEW c \in ERC20s, NEW a \in ERC20s, NEW s \in Int, NEW d \in Int,
           \A b \in ERC20s : Column(pBalance', Accounts, b)
                                 = Column(pBalance, Accounts, b) + At(b, c, s),
           \A b \in ERC20s : Column(debt', Users, b) = Column(debt, Users, b) + At(b, a, d),
           \A b \in ERC20s : cash'[b] = cash[b] + At(b, c, s) - At(b, a, d),
           c \in frozen => s <= 0, a \in frozen => d <= 0
    PROVE  \A b \in ERC20s : Balanced(b)
  <1> SUFFICES ASSUME NEW b \in ERC20s PROVE Balanced(b)
    OBVIOUS
  <1>1. At(b, c, s) \in Int /\ (b \in frozen => At(b, c, s) <= 0)
    BY DEF At
  <1>2. At(b, a, d) \in Int /\ (b \in frozen => At(b, a, d) <= 0)
    BY DEF At
  <1>3. /\ TotalSupply(b)' = TotalSupply(b) + At(b, c, s)
        /\ TotalVariableDebt(b)' = TotalVariableDebt(b) + At(b, a, d)
    BY PoolLedgers
  <1> QED BY <1>1, <1>2, <1>3 DEF Balanced

\* A supply of x by or for u: as much in the balances as in the liquidity.
LEMMA MintBalanced ==
    ASSUME Inv, NEW u \in Users, NEW a \in ERC20s, NEW x \in Int, MintPToken(u, a, x),
           a \notin frozen, UNCHANGED debt
    PROVE  \A b \in ERC20s : Balanced(b)
  <1>1. pBalance' = Added(pBalance, u, a, x)
    BY DEF MintPToken, Added
  <1>2. \A b \in ERC20s : Column(pBalance', Accounts, b)
                              = Column(pBalance, Accounts, b) + At(b, a, x)
    BY <1>1, PoolLedgers, AddedColumn
  <1>3. \A b \in ERC20s : Column(debt', Users, b) = Column(debt, Users, b) + At(b, a, 0)
    BY PoolLedgers DEF At
  <1>4. \A b \in ERC20s : cash'[b] = cash[b] + At(b, a, x) - At(b, a, 0)
    BY DEF MintPToken, Inv, MoneyOK, At
  <1> QED BY <1>2, <1>3, <1>4, EntryBalanced

\* A step that moves no balance, no debt and no liquidity is balanced.
LEMMA QuietBalanced ==
    ASSUME Inv, UNCHANGED <<pBalance, debt, cash>>
    PROVE  \A b \in ERC20s : Balanced(b)
  <1> SUFFICES ASSUME NEW b \in ERC20s PROVE Balanced(b)
    OBVIOUS
  <1>1. TotalSupply(b)' = TotalSupply(b) + 0 /\ TotalVariableDebt(b)' = TotalVariableDebt(b) + 0
    BY PoolLedgers
  <1>2. cash'[b] = cash[b] + 0 - 0
    BY PoolLedgers
  <1> QED BY <1>1, <1>2 DEF Balanced

\* Burning debt is an entry of -x in the debts.
LEMMA BurnDebtColumn ==
    ASSUME Inv, NEW u \in Users, NEW a \in ERC20s, NEW x, BurnDebt(u, a, x)
    PROVE  /\ x \in Nat
           /\ \A b \in ERC20s : Column(debt', Users, b) = Column(debt, Users, b) + At(b, a, 0 - x)
  <1>1. x \in Nat
    BY BurnDebtInv DEF Inv
  <1>2. debt' = Added(debt, u, a, 0 - x)
    <2>1. debt' = Taken(debt, u, a, x)
      BY DEF BurnDebt, Taken
    <2> QED BY <1>1, <2>1, PoolLedgers, TakenIsAdded
  <1> QED BY <1>1, <1>2, PoolLedgers, AddedColumn

\* Supply.
LEMMA SupplyBalanced ==
    ASSUME Inv, NEW u \in Users, NEW a \in ERC20s, NEW x \in Amounts, ExecuteSupply(u, a, x)
    PROVE  \A b \in ERC20s : Balanced(b)
  <1>1. x \in Int /\ a \notin frozen /\ MintPToken(u, a, x) /\ UNCHANGED debt
    BY PoolAssumption DEF ExecuteSupply, ValidateSupply, Open, debtVars
  <1> QED BY <1>1, MintBalanced

\* Withdrawal.
LEMMA WithdrawBalanced ==
    ASSUME Inv, NEW u \in Users, NEW a \in ERC20s, NEW x, ExecuteWithdraw(u, a, x)
    PROVE  \A b \in ERC20s : Balanced(b)
  <1>1. x \in Nat
    BY DEF ExecuteWithdraw, PayOut, Inv, MoneyOK
  <1>2. pBalance' = Added(pBalance, u, a, 0 - x)
    <2>1. pBalance' = Taken(pBalance, u, a, x)
      BY DEF ExecuteWithdraw, Taken
    <2> QED BY <1>1, <2>1, PoolLedgers, TakenIsAdded
  <1>3. \A b \in ERC20s : Column(pBalance', Accounts, b)
                              = Column(pBalance, Accounts, b) + At(b, a, 0 - x)
    BY <1>1, <1>2, PoolLedgers, AddedColumn
  <1>4. \A b \in ERC20s : Column(debt', Users, b) = Column(debt, Users, b) + At(b, a, 0)
    BY PoolLedgers DEF At, ExecuteWithdraw, debtVars
  <1>5. \A b \in ERC20s : cash'[b] = cash[b] + At(b, a, 0 - x) - At(b, a, 0)
    BY <1>1 DEF ExecuteWithdraw, PayOut, Inv, MoneyOK, At
  <1> QED BY <1>1, <1>3, <1>4, <1>5, EntryBalanced

\* A transfer of PTokens: two entries that cancel.
LEMMA TransferERC20Balanced ==
    ASSUME Inv, NEW from \in Users, NEW to \in Users, NEW a \in ERC20s, NEW x,
           TransferERC20(from, to, a, x)
    PROVE  \A b \in ERC20s : Balanced(b)
  <1> DEFINE sent == Added(pBalance, from, a, 0 - x)
  <1>1. x \in Nat
    BY PoolLedgers DEF TransferERC20, Inv, MoneyOK
  <1>2. pBalance' = Added(sent, to, a, x)
    <2>1. pBalance' = Added(Taken(pBalance, from, a, x), to, a, x)
      BY Zenon DEF TransferERC20, Taken, Added
    <2>2. Taken(pBalance, from, a, x) = sent
      BY <1>1, PoolLedgers, TakenIsAdded
    <2> QED BY <2>1, <2>2
  <1>3. sent \in Ledgers(Accounts)
    BY <1>1, PoolLedgers, AddedType
  <1>4. \A b \in ERC20s : Column(sent, Accounts, b)
                              = Column(pBalance, Accounts, b) + At(b, a, 0 - x)
    BY <1>1, PoolLedgers, AddedColumn
  <1> HIDE DEF sent
  <1>5. \A b \in ERC20s : Column(pBalance', Accounts, b)
                              = Column(sent, Accounts, b) + At(b, a, x)
    BY <1>1, <1>2, <1>3, PoolLedgers, AddedColumn
  <1>6. ASSUME NEW b \in ERC20s
        PROVE  Column(pBalance', Accounts, b) = Column(pBalance, Accounts, b) + At(b, a, 0)
    <2>1. Column(pBalance, Accounts, b) \in Int
      BY PoolLedgers
    <2>2. Column(pBalance', Accounts, b)
              = Column(pBalance, Accounts, b) + At(b, a, 0 - x) + At(b, a, x)
      BY <1>4, <1>5
    <2> QED BY <1>1, <2>1, <2>2 DEF At
  <1>7. \A b \in ERC20s : Column(debt', Users, b) = Column(debt, Users, b) + At(b, a, 0)
    BY PoolLedgers DEF At, TransferERC20, debtVars
  <1>8. \A b \in ERC20s : cash'[b] = cash[b] + At(b, a, 0) - At(b, a, 0)
    BY PoolLedgers DEF At, TransferERC20
  <1> QED BY <1>6, <1>7, <1>8, EntryBalanced

\* Borrowing: the debt grows by what the PToken pays out.
LEMMA BorrowBalanced ==
    ASSUME Inv, NEW u \in Users, NEW a \in ERC20s, NEW x, ExecuteBorrow(u, a, x)
    PROVE  \A b \in ERC20s : Balanced(b)
  <1>1. x \in Nat /\ a \notin frozen
    BY DEF ExecuteBorrow, ValidateBorrow, Open, PayOut, Inv, MoneyOK
  <1>2. debt' = Added(debt, u, a, x)
    BY DEF ExecuteBorrow, Added
  <1>3. \A b \in ERC20s : Column(debt', Users, b) = Column(debt, Users, b) + At(b, a, x)
    BY <1>1, <1>2, PoolLedgers, AddedColumn
  <1>4. \A b \in ERC20s : Column(pBalance', Accounts, b)
                              = Column(pBalance, Accounts, b) + At(b, a, 0)
    BY PoolLedgers DEF At, ExecuteBorrow
  <1>5. \A b \in ERC20s : cash'[b] = cash[b] + At(b, a, 0) - At(b, a, x)
    BY <1>1 DEF ExecuteBorrow, PayOut, Inv, MoneyOK, At
  <1> QED BY <1>1, <1>3, <1>4, <1>5, EntryBalanced

\* Repayment: the debt shrinks by what comes in.
LEMMA RepayBalanced ==
    ASSUME Inv, NEW u \in Users, NEW a \in ERC20s, NEW x, ExecuteRepay(u, a, x)
    PROVE  \A b \in ERC20s : Balanced(b)
  <1> DEFINE paid == Smaller(x, debt[u][a])
  <1>1. BurnDebt(u, a, paid) /\ cash' = [cash EXCEPT ![a] = @ + paid] /\ UNCHANGED pBalance
    BY DEF ExecuteRepay
  <1> HIDE DEF paid
  <1>2. /\ paid \in Nat
        /\ \A b \in ERC20s : Column(debt', Users, b) = Column(debt, Users, b) + At(b, a, 0 - paid)
    BY <1>1, BurnDebtColumn
  <1>3. \A b \in ERC20s : Column(pBalance', Accounts, b)
                              = Column(pBalance, Accounts, b) + At(b, a, 0)
    BY <1>1, PoolLedgers DEF At
  <1>4. \A b \in ERC20s : cash'[b] = cash[b] + At(b, a, 0) - At(b, a, 0 - paid)
    BY <1>1, <1>2 DEF Inv, MoneyOK, At
  <1> QED BY <1>2, <1>3, <1>4, EntryBalanced

\* Repayment with PTokens: balances and debts shrink alike, nothing comes in.
LEMMA RepayWithPTokensBalanced ==
    ASSUME Inv, NEW u \in Users, NEW a \in ERC20s, NEW x, RepayWithPTokens(u, a, x)
    PROVE  \A b \in ERC20s : Balanced(b)
  <1> DEFINE paid == Smaller(x, debt[u][a])
  <1>1. /\ BurnDebt(u, a, paid) /\ UNCHANGED cash
        /\ pBalance' = Taken(pBalance, u, a, paid)
    BY DEF RepayWithPTokens, Taken
  <1> HIDE DEF paid
  <1>2. /\ paid \in Nat
        /\ \A b \in ERC20s : Column(debt', Users, b) = Column(debt, Users, b) + At(b, a, 0 - paid)
    BY <1>1, BurnDebtColumn
  <1>3. pBalance' = Added(pBalance, u, a, 0 - paid)
    BY <1>1, <1>2, PoolLedgers, TakenIsAdded
  <1>4. \A b \in ERC20s : Column(pBalance', Accounts, b)
                              = Column(pBalance, Accounts, b) + At(b, a, 0 - paid)
    BY <1>2, <1>3, PoolLedgers, AddedColumn
  <1>5. \A b \in ERC20s : cash'[b] = cash[b] + At(b, a, 0 - paid) - At(b, a, 0 - paid)
    BY <1>1, <1>2 DEF Inv, MoneyOK, At
  <1> QED BY <1>2, <1>4, <1>5, EntryBalanced

\* The fee of a liquidation is two entries.
LEMMA FeeIsAdded ==
    ASSUME Inv, NEW u \in Users, NEW c \in ERC20s, NEW fee \in Nat
    PROVE  [pBalance EXCEPT ![u][c] = @ - fee, ![Treasury][c] = @ + fee]
               = Added(Added(pBalance, u, c, 0 - fee), Treasury, c, fee)
  <1>1. u \in Accounts /\ Treasury \in Accounts /\ pBalance \in Ledgers(Accounts)
    BY PoolLedgers
  <1>2. Taken(pBalance, u, c, fee) = Added(pBalance, u, c, 0 - fee)
    BY <1>1, TakenIsAdded
  <1>3. [pBalance EXCEPT ![u][c] = @ - fee, ![Treasury][c] = @ + fee]
            = Added(Taken(pBalance, u, c, fee), Treasury, c, fee)
    <2>1. u # Treasury
      BY PoolAssumption
    <2>2. Taken(pBalance, u, c, fee)[Treasury][c] = pBalance[Treasury][c]
      BY <1>1, <2>1 DEF Taken, Ledgers
    <2> QED BY <2>2, Zenon DEF Taken, Added
  <1> QED BY <1>2, <1>3

\* Liquidation of ERC20 collateral: what the treasury takes comes from the
\* borrower, and what the liquidator takes from the borrower too, as PTokens (the
\* supply stays) or as the underlying (supply and liquidity shrink alike).
LEMMA LiquidateERC20Balanced ==
    ASSUME Inv, NEW l \in Users, NEW u \in Users, NEW c \in ERC20s, NEW a \in ERC20s,
           NEW x, NEW receive \in BOOLEAN, ExecuteLiquidateERC20(l, u, c, a, x, receive)
    PROVE  \A b \in ERC20s : Balanced(b)
  <1> DEFINE p == ERC20Liquidation(u, c, a, LiquidatableDebt(u, a, x))
             seized == p.seized
             repaid == p.repaid
             fee == p.fee
             taken == seized - fee
             feePaid == [pBalance EXCEPT ![u][c] = @ - fee, ![Treasury][c] = @ + fee]
             cashPaid == [cash EXCEPT ![a] = @ + repaid]
             burnt == [feePaid EXCEPT ![u][c] = @ - taken]
  <1>1. /\ BurnDebt(u, a, repaid)
        /\ seized \in 0 .. pBalance[u][c] /\ fee \in 0 .. seized
        /\ \/ /\ pBalance' = [burnt EXCEPT ![l][c] = @ + taken]
              /\ cash' = cashPaid
           \/ /\ pBalance' = burnt
              /\ cash' = [cashPaid EXCEPT ![c] = @ - taken]
    BY DEF ExecuteLiquidateERC20
  <1> HIDE DEF p, seized, repaid, fee
  <1>2. /\ repaid \in Nat
        /\ \A b \in ERC20s : Column(debt', Users, b) = Column(debt, Users, b) + At(b, a, 0 - repaid)
    BY <1>1, BurnDebtColumn
  <1>3. seized \in Nat /\ fee \in Nat /\ taken \in Nat
    BY <1>1, PoolLedgers DEF Inv, MoneyOK
  <1> HIDE DEF taken
  <1> DEFINE m1 == Added(pBalance, u, c, 0 - fee)
             m2 == Added(m1, Treasury, c, fee)
             m3 == Added(m2, u, c, 0 - taken)
  <1>4. /\ m1 \in Ledgers(Accounts)
        /\ \A b \in ERC20s : Column(m1, Accounts, b)
                                 = Column(pBalance, Accounts, b) + At(b, c, 0 - fee)
    BY <1>3, PoolLedgers, AddedType, AddedColumn
  <1> HIDE DEF m1
  <1>5. /\ m2 \in Ledgers(Accounts)
        /\ \A b \in ERC20s : Column(m2, Accounts, b) = Column(m1, Accounts, b) + At(b, c, fee)
    BY <1>3, <1>4, PoolLedgers, AddedType, AddedColumn
  <1> HIDE DEF m2
  <1>6. /\ m3 \in Ledgers(Accounts)
        /\ \A b \in ERC20s : Column(m3, Accounts, b)
                                 = Column(m2, Accounts, b) + At(b, c, 0 - taken)
    BY <1>3, <1>5, PoolLedgers, AddedType, AddedColumn
  <1> HIDE DEF m3
  <1>7. /\ m3 = burnt
        /\ burnt \in Ledgers(Accounts)
    <2>1. u \in Accounts /\ Treasury \in Accounts /\ pBalance \in Ledgers(Accounts)
      BY PoolLedgers
    <2>2. feePaid = m2
      BY <1>3, FeeIsAdded DEF m1, m2
    <2>3. burnt = Taken(feePaid, u, c, taken)
      BY Zenon DEF Taken
    <2> HIDE DEF feePaid
    <2>4. Taken(m2, u, c, taken) = m3
      BY <1>3, <1>5, <2>1, TakenIsAdded DEF m3
    <2>5. burnt = m3
      BY <2>2, <2>3, <2>4
    <2> QED BY <1>6, <2>5
  <1> HIDE DEF burnt
  <1>8. ASSUME NEW b \in ERC20s
        PROVE  Column(burnt, Accounts, b) = Column(pBalance, Accounts, b) + At(b, c, 0 - taken)
    <2>1. Column(pBalance, Accounts, b) \in Int
      BY PoolLedgers
    <2>2. Column(m3, Accounts, b)
              = Column(pBalance, Accounts, b) + At(b, c, 0 - fee) + At(b, c, fee)
                    + At(b, c, 0 - taken)
      BY <1>4, <1>5, <1>6
    <2> QED BY <1>3, <1>7, <2>1, <2>2 DEF At
  <1>9. CASE pBalance' = burnt /\ cash' = [cashPaid EXCEPT ![c] = @ - taken]
    <2>1. \A b \in ERC20s : cash'[b] = cash[b] + At(b, c, 0 - taken) - At(b, a, 0 - repaid)
      BY <1>2, <1>3, <1>9, SMTT(30) DEF Inv, MoneyOK, At
    <2>2. \A b \in ERC20s : Column(pBalance', Accounts, b)
                                = Column(pBalance, Accounts, b) + At(b, c, 0 - taken)
      BY <1>8, <1>9
    <2> QED BY <1>2, <1>3, <2>1, <2>2, EntryBalanced
  <1>10. CASE pBalance' = [burnt EXCEPT ![l][c] = @ + taken] /\ cash' = cashPaid
    <2>1. \A b \in ERC20s : cash'[b] = cash[b] + At(b, c, 0) - At(b, a, 0 - repaid)
      BY <1>2, <1>10 DEF Inv, MoneyOK, At
    <2>2. pBalance' = Added(burnt, l, c, taken)
      BY <1>10 DEF Added
    <2>3. \A b \in ERC20s : Column(pBalance', Accounts, b)
                                = Column(burnt, Accounts, b) + At(b, c, taken)
      BY <1>3, <1>7, <2>2, PoolLedgers, AddedColumn
    <2>4. ASSUME NEW b \in ERC20s
          PROVE  Column(pBalance', Accounts, b) = Column(pBalance, Accounts, b) + At(b, c, 0)
      <3>1. Column(pBalance, Accounts, b) \in Int
        BY PoolLedgers
      <3>2. Column(pBalance', Accounts, b)
                = Column(pBalance, Accounts, b) + At(b, c, 0 - taken) + At(b, c, taken)
        BY <1>8, <2>3
      <3> QED BY <1>3, <3>1, <3>2 DEF At
    <2> QED BY <1>2, <2>1, <2>4, EntryBalanced
  <1> QED BY <1>1, <1>9, <1>10

\* The sale of an NFT supplies its price in WETH for the borrower, and a frozen
\* WETH reserve refuses it.
LEMMA LiquidateERC721Balanced ==
    ASSUME Inv, NEW l \in Users, NEW u \in Users, NEW t \in Tokens, NEW receive,
           ExecuteLiquidateERC721(l, u, t, receive)
    PROVE  \A b \in ERC20s : Balanced(b)
  <1> DEFINE paid == ERC721LiquidationAmount(t)
  <1>1. WETH \notin frozen /\ MintPToken(u, WETH, paid) /\ UNCHANGED debt
    BY DEF ExecuteLiquidateERC721, ValidateSupply, Open, debtVars
  <1>2. paid \in Int /\ WETH \in ERC20s
    BY LiquidationAmountNat, PoolAssumption DEF ExecuteLiquidateERC721, CollateralEnabled
  <1> HIDE DEF paid
  <1> QED BY <1>1, <1>2, MintBalanced

\* The transactions on ERC20 assets.
LEMMA ERC20NextBalanced ==
    ASSUME Inv, ERC20Next
    PROVE  \A b \in ERC20s : Balanced(b)
  <1> DEFINE Fine == \A b \in ERC20s : Balanced(b)
  <1>1. ASSUME NEW u \in Users, NEW a \in ERC20s, NEW use, ExecuteUseERC20AsCollateral(u, a, use)
        PROVE  Fine
    <2>1. UNCHANGED <<pBalance, debt, cash>>
      BY <1>1 DEF ExecuteUseERC20AsCollateral, debtVars
    <2> QED BY <2>1, QuietBalanced
  <1>2. PICK u \in Users, a \in ERC20s :
          \/ \E x \in Amounts : ExecuteSupply(u, a, x) \/ ExecuteBorrow(u, a, x)
          \/ \E x \in Amounts \cup {pBalance[u][a]} :
                \/ ExecuteWithdraw(u, a, x)
                \/ RepayWithPTokens(u, a, x)
                \/ \E to \in Users : TransferERC20(u, to, a, x)
          \/ \E use \in BOOLEAN : ExecuteUseERC20AsCollateral(u, a, use)
          \/ \E x \in Amounts \cup {debt[u][a]} :
                \/ ExecuteRepay(u, a, x)
                \/ \E l \in Users, c \in ERC20s, receive \in BOOLEAN :
                      ExecuteLiquidateERC20(l, u, c, a, x, receive)
    BY DEF ERC20Next
  <1>3. /\ \A x \in Amounts : ExecuteSupply(u, a, x) => Fine
        /\ \A x : ExecuteBorrow(u, a, x) \/ ExecuteWithdraw(u, a, x) => Fine
        /\ \A x : RepayWithPTokens(u, a, x) \/ ExecuteRepay(u, a, x) => Fine
    BY SupplyBalanced, BorrowBalanced, WithdrawBalanced, RepayBalanced,
       RepayWithPTokensBalanced
  <1>4. /\ \A x, to : to \in Users /\ TransferERC20(u, to, a, x) => Fine
        /\ \A x : \A l \in Users, c \in ERC20s, receive \in BOOLEAN :
              ExecuteLiquidateERC20(l, u, c, a, x, receive) => Fine
    BY TransferERC20Balanced, LiquidateERC20Balanced
  <1> HIDE DEF Fine
  <1>5. Fine
    BY <1>1, <1>2, <1>3, <1>4
  <1> QED BY <1>5 DEF Fine

\* The transactions on ERC721 assets.
LEMMA ERC721NextBalanced ==
    ASSUME Inv, ERC721Next
    PROVE  \A b \in ERC20s : Balanced(b)
  <1>1. CASE UNCHANGED <<pBalance, debt, cash>>
    BY <1>1, QuietBalanced
  <1>2. CASE \E l \in Users, u \in Users, t \in Tokens, receive \in BOOLEAN :
                ExecuteLiquidateERC721(l, u, t, receive)
    BY <1>2, LiquidateERC721Balanced
  <1> DEFINE Quiet == UNCHANGED <<pBalance, debt, cash>>
  <1>3. ASSUME NEW u, NEW c, NEW T, NEW C, ExecuteSupplyERC721(u, c, T, C)
        PROVE  Quiet
    BY <1>3 DEF ExecuteSupplyERC721, debtVars
  <1>4. ASSUME NEW u, NEW c, NEW T,
               \/ ExecuteWithdrawERC721(u, c, T) \/ ExecuteCollateralizeERC721(u, c, T)
               \/ ExecuteUncollateralizeERC721(u, c, T)
        PROVE  Quiet
    BY <1>4 DEF ExecuteWithdrawERC721, ExecuteCollateralizeERC721,
                ExecuteUncollateralizeERC721, debtVars
  <1>5. ASSUME NEW u, NEW t,
               \/ \E to : TransferERC721(u, to, t)
               \/ ExecuteStartAuction(u, t) \/ ExecuteEndAuction(u, t)
               \/ SetAuctionValidityTime(u)
        PROVE  Quiet
    BY <1>5 DEF TransferERC721, ExecuteStartAuction, ExecuteEndAuction,
                SetAuctionValidityTime, poolVars, debtVars
  <1> HIDE DEF Quiet
  <1>6. \/ Quiet
        \/ \E l \in Users, u \in Users, t \in Tokens, receive \in BOOLEAN :
                ExecuteLiquidateERC721(l, u, t, receive)
    BY <1>3, <1>4, <1>5 DEF ERC721Next
  <1> QED BY <1>1, <1>2, <1>6 DEF Quiet

\* Every step of the Pool is balanced.
LEMMA StepBalanced ==
    ASSUME Inv, [PoolNext]_vars
    PROVE  \A b \in ERC20s : Balanced(b)
  <1>1. CASE Environment
    <2>1. UNCHANGED <<pBalance, debt, cash>>
      BY <1>1 DEF Environment, SetPrice, PassBlock, PauseReserve, UnpauseReserve,
                  SetReserveFreeze, SetReserveAuctionStrategy, debtVars
    <2> QED BY <2>1, QuietBalanced
  <1>2. CASE UNCHANGED vars
    BY <1>2, QuietBalanced DEF vars, poolVars, debtVars
  <1> QED BY <1>1, <1>2, ERC20NextBalanced, ERC721NextBalanced DEF PoolNext

\* What a reserve owes its suppliers and the treasury is what it holds and what it
\* has lent, through every supply, loan, repayment, fee, seizure and burn.
THEOREM LiquidityConservedHolds == PoolSpec => []LiquidityConserved
  <1>1. PoolInit => LiquidityConserved
    <2> SUFFICES ASSUME PoolInit, NEW a \in ERC20s
                 PROVE  cash[a] + TotalVariableDebt(a) = TotalSupply(a)
      BY DEF LiquidityConserved
    <2> DEFINE balances == [u \in Accounts |-> pBalance[u][a]]
               debts == [u \in Users |-> debt[u][a]]
    <2>1. IsFiniteSet(Accounts) /\ IsFiniteSet(Users)
      BY PoolLedgers, InitInv
    <2>2. /\ \A u \in Accounts : balances[u] = 0 /\ balances[u] \in Nat
          /\ \A u \in Users : debts[u] = 0 /\ debts[u] \in Nat
      BY DEF PoolInit
    <2> HIDE DEF balances, debts
    <2>3. SumFunctionOnSet(balances, Accounts) = 0 /\ SumFunctionOnSet(debts, Users) = 0
      BY <2>1, <2>2, SumNat
    <2>4. cash[a] = 0
      BY DEF PoolInit
    <2> QED BY <2>3, <2>4 DEF TotalSupply, TotalVariableDebt, balances, debts
  <1>2. Inv /\ LiquidityConserved /\ [PoolNext]_vars => LiquidityConserved'
    <2> SUFFICES ASSUME Inv, LiquidityConserved, [PoolNext]_vars, NEW a \in ERC20s
                 PROVE  cash'[a] + TotalVariableDebt(a)' = TotalSupply(a)'
      BY DEF LiquidityConserved
    <2>1. PICK s, d \in Int : /\ TotalSupply(a)' = TotalSupply(a) + s
                              /\ TotalVariableDebt(a)' = TotalVariableDebt(a) + d
                              /\ cash'[a] = cash[a] + s - d
      BY StepBalanced DEF Balanced
    <2>2. cash[a] \in Int /\ TotalSupply(a) \in Int /\ TotalVariableDebt(a) \in Int
      BY PoolLedgers
    <2>3. cash[a] + TotalVariableDebt(a) = TotalSupply(a)
      BY DEF LiquidityConserved
    <2> QED BY <2>1, <2>2, <2>3
  <1> QED BY <1>1, <1>2, InvHolds, PTL DEF PoolSpec

\* A frozen reserve only winds down: no step lets its supply or its debt grow, the
\* WETH that the sale of an NFT supplies included.
THEOREM FrozenReserveWindsDownHolds == PoolSpec => FrozenReserveWindsDown
  <1> DEFINE Step == \A a \in ERC20s \cap frozen :
          TotalSupply(a)' <= TotalSupply(a) /\ TotalVariableDebt(a)' <= TotalVariableDebt(a)
  <1>1. ASSUME Inv, PoolNext
        PROVE  Step
    <2> SUFFICES ASSUME NEW a \in ERC20s, a \in frozen
                 PROVE  /\ TotalSupply(a)' <= TotalSupply(a)
                        /\ TotalVariableDebt(a)' <= TotalVariableDebt(a)
      OBVIOUS
    <2>1. PICK s, d \in Int : /\ TotalSupply(a)' = TotalSupply(a) + s
                              /\ TotalVariableDebt(a)' = TotalVariableDebt(a) + d
                              /\ s <= 0 /\ d <= 0
      BY <1>1, StepBalanced DEF Balanced
    <2>2. TotalSupply(a) \in Int /\ TotalVariableDebt(a) \in Int
      BY <1>1, PoolLedgers
    <2> QED BY <2>1, <2>2
  <1>2. Inv /\ [PoolNext]_vars => [Step]_vars
    BY <1>1
  <1> QED BY <1>2, InvHolds, PTL DEF PoolSpec, FrozenReserveWindsDown

-----------------------------------------------------------------------------
(* The price of a liquidation.                                             *)

\* What truncation loses.
LEMMA DivBounds ==
    ASSUME NEW x \in Nat, NEW d \in Nat \ {0}
    PROVE  /\ x \div d \in Nat
           /\ d * (x \div d) <= x
           /\ x < d * (x \div d) + d
  OBVIOUS

\* Multiplying both sides.
LEMMA ProductOrder ==
    ASSUME NEW p \in Nat, NEW m \in Nat, NEW n \in Nat, m <= n
    PROVE  p * m \in Nat /\ p * n \in Nat /\ p * m <= p * n
  OBVIOUS

\* percentMul rounds half up: it is off by half a unit at most.
LEMMA PercentMulBounds ==
    ASSUME NEW x \in Nat, NEW p \in Nat
    PROVE  /\ PercentMul(x, p) \in Nat
           /\ x * p \in Nat
           /\ 10000 * PercentMul(x, p) <= x * p + 5000
           /\ x * p < 10000 * PercentMul(x, p) + 5000
  <1>1. x * p \in Nat
    OBVIOUS
  <1> DEFINE y == x * p
  <1>2. y \in Nat /\ PercentMul(x, p) = (y + 5000) \div 10000
    BY <1>1 DEF PercentMul, Factor
  <1> HIDE DEF y
  <1>3. y + 5000 \in Nat
    BY <1>2
  <1>4. /\ 10000 * ((y + 5000) \div 10000) <= y + 5000
        /\ y + 5000 < 10000 * ((y + 5000) \div 10000) + 10000
        /\ (y + 5000) \div 10000 \in Nat
    BY <1>3, DivBounds
  <1> QED BY <1>2, <1>4 DEF y

\* A percentage of at least one hundred takes nothing away.
LEMMA NotBelowPar ==
    ASSUME NEW v \in Nat, NEW q \in Nat, q >= 10000
    PROVE  PercentMul(v, q) \in Nat /\ v <= PercentMul(v, q)
  <1> DEFINE m == PercentMul(v, q)
             y == v * q
  <1>1. m \in Nat /\ y \in Nat /\ y < 10000 * m + 5000
    BY PercentMulBounds
  <1>2. v * 10000 <= y
    BY ProductOrder
  <1> HIDE DEF m, y
  <1>3. v <= m
    BY <1>1, <1>2
  <1> QED BY <1>1, <1>3 DEF m

\* percentDiv undoes percentMul up to a unit of the product.
LEMMA PercentDivBounds ==
    ASSUME NEW x \in Nat, NEW p \in Nat \ {0}
    PROVE  /\ PercentDiv(x, p) \in Nat
           /\ p * PercentDiv(x, p) \in Nat
           /\ 10000 * x <= p * PercentDiv(x, p) + p
  <1> DEFINE h == p \div 2
             q == (x * 10000 + h) \div p
  <1>1. h \in Nat /\ x * 10000 + h \in Nat
    OBVIOUS
  <1>2. q \in Nat /\ p * q <= x * 10000 + h /\ x * 10000 + h < p * q + p
    BY <1>1, DivBounds
  <1>3. PercentDiv(x, p) = q
    BY DEF PercentDiv, Factor
  <1> HIDE DEF q, h
  <1>4. p * q \in Nat
    BY <1>2
  <1> QED BY <1>1, <1>2, <1>3, <1>4

\* The whole collateral asked for is there.
LEMMA FullSeizureIsFair ==
    ASSUME NEW pc \in Nat \ {0}, NEW pa \in Nat \ {0}, NEW B \in Nat \ {0}, NEW x \in Nat
    PROVE  pc * PercentMul((pa * x) \div pc, B) <= PercentMul(pa * x, B) + pc
  <1> DEFINE y == (pa * x) \div pc
             s == PercentMul(y, B)
             m == PercentMul(pa * x, B)
  <1>1. pa * x \in Nat
    OBVIOUS
  <1>2. y \in Nat /\ pc * y \in Nat /\ pc * y <= pa * x
    BY <1>1, DivBounds
  <1> HIDE DEF y
  <1>3. s \in Nat /\ y * B \in Nat /\ 10000 * s <= y * B + 5000
    BY <1>2, PercentMulBounds
  <1>4. m \in Nat /\ (pa * x) * B \in Nat /\ (pa * x) * B < 10000 * m + 5000
    BY <1>1, PercentMulBounds
  <1> HIDE DEF s, m
  <1>5. B * (pc * y) <= B * (pa * x)
    BY <1>1, <1>2, ProductOrder
  <1>6. pc * (10000 * s) <= pc * (y * B + 5000)
    BY <1>3, ProductOrder
  <1>7. pc * (y * B + 5000) = B * (pc * y) + 5000 * pc
    BY <1>2, <1>3
  <1>8. pc * (10000 * s) = 10000 * (pc * s) /\ pc * s \in Nat
    BY <1>3
  <1>9. B * (pa * x) = (pa * x) * B
    BY <1>1
  <1> DEFINE P == pc * s
             R == (pa * x) * B
             W == B * (pc * y)
  <1>10. 10000 * P <= W + 5000 * pc /\ W <= R /\ R < 10000 * m + 5000
    BY <1>4, <1>5, <1>6, <1>7, <1>8, <1>9
  <1>11. P \in Nat /\ R \in Nat /\ W \in Nat
    BY <1>1, <1>2, <1>8
  <1> HIDE DEF P, R, W
  <1>12. P <= m + pc
    BY <1>4, <1>10, <1>11
  <1> QED BY <1>12 DEF P, m, s, y

\* The borrower has less than asked for: all of it goes.
LEMMA ShortSeizureIsFair ==
    ASSUME NEW pc \in Nat \ {0}, NEW pa \in Nat \ {0}, NEW B \in Nat \ {0}, NEW s \in Nat
    PROVE  pc * s <= PercentMul(pa * PercentDiv((pc * s) \div pa, B), B)
                         + pa + PercentMul(pa, B)
  <1> DEFINE z == (pc * s) \div pa
             r == PercentDiv(z, B)
             m == PercentMul(pa * r, B)
             k == PercentMul(pa, B)
  <1>1. pc * s \in Nat
    OBVIOUS
  <1>2. z \in Nat /\ pa * z \in Nat /\ pc * s < pa * z + pa
    BY <1>1, DivBounds
  <1> HIDE DEF z
  <1>3. r \in Nat /\ B * r \in Nat /\ 10000 * z <= B * r + B
    BY <1>2, PercentDivBounds
  <1> HIDE DEF r
  <1>4. pa * r \in Nat
    BY <1>3
  <1>5. m \in Nat /\ (pa * r) * B \in Nat /\ (pa * r) * B < 10000 * m + 5000
    <2> DEFINE v == pa * r
    <2>1. v \in Nat
      BY <1>4
    <2> HIDE DEF v
    <2>2. /\ PercentMul(v, B) \in Nat /\ v * B \in Nat
          /\ v * B < 10000 * PercentMul(v, B) + 5000
      BY <2>1, PercentMulBounds
    <2> QED BY <2>2 DEF v
  <1>6. k \in Nat /\ pa * B \in Nat /\ pa * B < 10000 * k + 5000
    BY PercentMulBounds
  <1> HIDE DEF m, k
  <1>7. pa * (10000 * z) <= pa * (B * r + B)
    BY <1>2, <1>3, ProductOrder
  <1>8. pa * (B * r + B) = (pa * r) * B + pa * B
    BY <1>3
  <1>9. pa * (10000 * z) = 10000 * (pa * z)
    BY <1>2
  <1> DEFINE P == pc * s
             Z == pa * z
             R == (pa * r) * B
             K == pa * B
  <1>10. /\ P < Z + pa /\ 10000 * Z <= R + K
         /\ R < 10000 * m + 5000 /\ K < 10000 * k + 5000
    BY <1>2, <1>5, <1>6, <1>7, <1>8, <1>9
  <1>11. P \in Nat /\ Z \in Nat /\ R \in Nat /\ K \in Nat
    BY <1>1, <1>2, <1>5, <1>6
  <1> HIDE DEF P, Z, R, K
  <1>12. P <= m + pa + k
    BY <1>5, <1>6, <1>10, <1>11
  <1> QED BY <1>12 DEF P, m, r, z, k

\* What an ERC20 liquidation takes against what it repays.
LEMMA LiquidationIsPriced ==
    ASSUME Inv, NEW u \in Users, NEW c \in ERC20s, NEW a \in ERC20s, NEW x \in Nat,
           LT[c] # 0
    PROVE  LET p == ERC20Liquidation(u, c, a, x)
           IN  /\ p.seized \in Nat /\ p.repaid \in Nat
               /\ price[c] * p.seized <= PercentMul(price[a] * p.repaid, Bonus[c])
                      + price[c] + price[a] + PercentMul(price[a], Bonus[c])
  <1> DEFINE pc == price[c]
             pa == price[a]
             B == Bonus[c]
             bal == pBalance[u][c]
             wanted == PercentMul((pa * x) \div pc, B)
             short == wanted > bal
             seized == IF short THEN bal ELSE wanted
             repaid == IF short THEN PercentDiv((pc * seized) \div pa, B) ELSE x
  <1>1. /\ ERC20Liquidation(u, c, a, x).seized = seized
        /\ ERC20Liquidation(u, c, a, x).repaid = repaid
    BY DEF ERC20Liquidation
  <1>2. pc \in Nat \ {0} /\ pa \in Nat \ {0} /\ bal \in Nat
    BY DEF Inv, MoneyOK, MarketOK, Reserves, Accounts
  <1>3. B \in Nat \ {0}
    <2>1. /\ c \in Reserves /\ Bonus \in [Reserves -> Nat]
          /\ LT[c] # 0 => Bonus[c] >= 10000
      <3>1. c \in Reserves
        BY DEF Reserves
      <3> QED BY <3>1, PoolAssumption
    <2> QED BY <2>1
  <1> HIDE DEF pc, pa, B, bal
  <1>4. PercentMul(pa, B) \in Nat
    BY <1>2, <1>3, PercentNat
  <1>5. pa * x \in Nat /\ (pa * x) \div pc \in Nat
    BY <1>2, DivNat
  <1>6. wanted \in Nat
    BY <1>3, <1>5, PercentNat
  <1>7. CASE ~short
    <2>1. seized = wanted /\ repaid = x
      BY <1>7
    <2>2. pc * wanted <= PercentMul(pa * x, B) + pc
      BY <1>2, <1>3, FullSeizureIsFair
    <2>3. PercentMul(pa * x, B) \in Nat
      <3> DEFINE v == pa * x
      <3>1. v \in Nat
        BY <1>5
      <3> HIDE DEF v
      <3>2. PercentMul(v, B) \in Nat
        BY <1>3, <3>1, PercentNat
      <3> QED BY <3>2 DEF v
    <2> HIDE DEF wanted
    <2>4. pc * wanted \in Nat
      BY <1>2, <1>6
    <2>5. /\ wanted \in Nat
          /\ pc * wanted <= PercentMul(pa * x, B) + pc + pa + PercentMul(pa, B)
      BY <1>2, <1>4, <1>6, <2>2, <2>3, <2>4
    <2> HIDE DEF seized, repaid
    <2>6. /\ seized \in Nat /\ repaid \in Nat
          /\ pc * seized <= PercentMul(pa * repaid, B) + pc + pa + PercentMul(pa, B)
      BY <2>1, <2>5
    <2> QED BY <1>1, <2>6 DEF pc, pa, B
  <1>8. CASE short
    <2> DEFINE r == PercentDiv((pc * bal) \div pa, B)
    <2>1. seized = bal /\ repaid = r
      BY <1>8
    <2>2. pc * bal <= PercentMul(pa * r, B) + pa + PercentMul(pa, B)
      BY <1>2, <1>3, ShortSeizureIsFair
    <2>3. pc * bal \in Nat /\ (pc * bal) \div pa \in Nat
      BY <1>2, DivNat
    <2>4. r \in Nat
      BY <1>3, <2>3, PercentDivBounds
    <2> HIDE DEF r, wanted
    <2>5. pa * r \in Nat
      BY <1>2, <2>4
    <2>6. PercentMul(pa * r, B) \in Nat
      <3> DEFINE v == pa * r
      <3>1. v \in Nat
        BY <2>5
      <3> HIDE DEF v
      <3>2. PercentMul(v, B) \in Nat
        BY <1>3, <3>1, PercentNat
      <3> QED BY <3>2 DEF v
    <2>7. pc * bal <= PercentMul(pa * r, B) + pc + pa + PercentMul(pa, B)
      BY <1>2, <1>4, <2>2, <2>3, <2>6
    <2> HIDE DEF seized, repaid
    <2>8. /\ seized \in Nat /\ repaid \in Nat
          /\ pc * seized <= PercentMul(pa * repaid, B) + pc + pa + PercentMul(pa, B)
      BY <1>2, <2>1, <2>4, <2>7
    <2> QED BY <1>1, <2>8 DEF pc, pa, B
  <1> QED BY <1>7, <1>8

\* A step that lets the debt of a user in an asset shrink repays it, in cash, with
\* PTokens, or by a liquidation.
LEMMA OnlyRepaymentsRelieve ==
    ASSUME Inv, PoolNext, NEW u \in Users, NEW a \in ERC20s, debt'[u][a] < debt[u][a]
    PROVE  \/ \E x : ExecuteRepay(u, a, x) \/ RepayWithPTokens(u, a, x)
           \/ \E x \in Amounts \cup {debt[u][a]} : \E l \in Users, c \in ERC20s, receive \in BOOLEAN :
                  ExecuteLiquidateERC20(l, u, c, a, x, receive)
  <1>1. debt[u][a] \in Nat /\ ~ UNCHANGED debt
    BY DEF Inv, DebtInv
  <1>2. ERC20Next
    <2>1. ASSUME NEW v, NEW d, NEW T, NEW C,
                 \/ ExecuteSupplyERC721(v, d, T, C) \/ ExecuteWithdrawERC721(v, d, T)
                 \/ ExecuteCollateralizeERC721(v, d, T)
                 \/ ExecuteUncollateralizeERC721(v, d, T)
          PROVE  UNCHANGED debt
      BY <2>1 DEF ExecuteSupplyERC721, ExecuteWithdrawERC721, ExecuteCollateralizeERC721,
                  ExecuteUncollateralizeERC721, debtVars
    <2>2. ASSUME NEW v, NEW t,
                 \/ \E to : TransferERC721(v, to, t)
                 \/ ExecuteStartAuction(v, t) \/ ExecuteEndAuction(v, t)
                 \/ \E l, receive : ExecuteLiquidateERC721(l, v, t, receive)
                 \/ SetAuctionValidityTime(v)
          PROVE  UNCHANGED debt
      BY <2>2 DEF TransferERC721, ExecuteStartAuction, ExecuteEndAuction,
                  ExecuteLiquidateERC721, SetAuctionValidityTime, poolVars, debtVars
    <2>3. ERC721Next => UNCHANGED debt
      BY <2>1, <2>2 DEF ERC721Next
    <2>4. Environment => UNCHANGED debt
      BY DEF Environment, SetPrice, PassBlock, PauseReserve, UnpauseReserve,
             SetReserveFreeze, SetReserveAuctionStrategy, debtVars
    <2> QED BY <1>1, <2>3, <2>4 DEF PoolNext
  <1>3. PICK v \in Users, b \in ERC20s :
          \/ \E x \in Amounts : ExecuteSupply(v, b, x) \/ ExecuteBorrow(v, b, x)
          \/ \E x \in Amounts \cup {pBalance[v][b]} :
                \/ ExecuteWithdraw(v, b, x)
                \/ RepayWithPTokens(v, b, x)
                \/ \E to \in Users : TransferERC20(v, to, b, x)
          \/ \E use \in BOOLEAN : ExecuteUseERC20AsCollateral(v, b, use)
          \/ \E x \in Amounts \cup {debt[v][b]} :
                \/ ExecuteRepay(v, b, x)
                \/ \E l \in Users, c \in ERC20s, receive \in BOOLEAN :
                      ExecuteLiquidateERC20(l, v, c, b, x, receive)
    BY <1>2 DEF ERC20Next
  <1>4. ASSUME NEW x,
               \/ ExecuteSupply(v, b, x) \/ ExecuteWithdraw(v, b, x)
               \/ \E to : TransferERC20(v, to, b, x)
               \/ \E use : ExecuteUseERC20AsCollateral(v, b, use)
        PROVE  FALSE
    BY <1>1, <1>4 DEF ExecuteSupply, ExecuteWithdraw, TransferERC20,
                      ExecuteUseERC20AsCollateral, debtVars
  <1>5. ASSUME NEW x, ExecuteBorrow(v, b, x)
        PROVE  FALSE
    <2>1. x \in Nat /\ debt' = [debt EXCEPT ![v][b] = @ + x]
      BY <1>5 DEF ExecuteBorrow, PayOut, Inv, MoneyOK
    <2> QED BY <2>1 DEF Inv, DebtInv
  <1>6. ASSUME NEW x, BurnDebt(v, b, x)
        PROVE  v = u /\ b = a
    BY <1>6 DEF BurnDebt, Inv, DebtInv
  <1>7. ASSUME NEW x, ExecuteRepay(v, b, x) \/ RepayWithPTokens(v, b, x)
        PROVE  v = u /\ b = a
    BY <1>6, <1>7 DEF ExecuteRepay, RepayWithPTokens
  <1>8. ASSUME NEW x, NEW l, NEW c, NEW receive, ExecuteLiquidateERC20(l, v, c, b, x, receive)
        PROVE  v = u /\ b = a
    BY <1>6, <1>8 DEF ExecuteLiquidateERC20
  <1> QED BY <1>3, <1>4, <1>5, <1>7, <1>8

\* The amount that a liquidation is computed from is a natural number.
LEMMA LiquidatableDebtNat ==
    ASSUME Inv, NEW u \in Users, NEW a \in ERC20s, NEW x \in Amounts \cup {debt[u][a]}
    PROVE  LiquidatableDebt(u, a, x) \in Nat
  <1>1. x \in Nat /\ debt[u][a] \in Nat
    <2>1. debt[u][a] \in Nat
      BY DEF Inv, DebtInv
    <2>2. Amounts \subseteq Nat
      BY PoolAssumption
    <2> QED BY <2>1, <2>2
  <1>2. \A p \in Nat : PercentMul(debt[u][a], p) \in Nat
    BY <1>1, PercentNat
  <1>3. Factor \in Nat /\ Factor \div 2 \in Nat
    BY DEF Factor
  <1> QED BY <1>1, <1>2, <1>3 DEF LiquidatableDebt, Smaller

\* The property for one user and a pair of assets.
Fair(u, a, c) ==
    LET lost == price[c] * (pBalance[u][c] - pBalance'[u][c])
        relieved == price[a] * (debt[u][a] - debt'[u][a])
    IN  LT[c] # 0 /\ lost > 0 /\ relieved > 0 =>
            lost <= PercentMul(relieved, Bonus[c])
                       + price[c] + price[a] + PercentMul(price[a], Bonus[c])

\* Paying with PTokens takes as much as it repays.
LEMMA RepayWithPTokensIsFair ==
    ASSUME Inv, NEW u \in Users, NEW a \in ERC20s, NEW c \in ERC20s, NEW x,
           RepayWithPTokens(u, a, x), LT[c] # 0, pBalance'[u][c] # pBalance[u][c]
    PROVE  Fair(u, a, c)
  <1> DEFINE paid == Smaller(x, debt[u][a])
             relieved == price[a] * paid
             B == Bonus[c]
  <1>1. /\ BurnDebt(u, a, paid)
        /\ pBalance' = [pBalance EXCEPT ![u][a] = @ - paid]
    BY DEF RepayWithPTokens
  <1> HIDE DEF paid
  <1>2. paid \in Nat /\ u \in Accounts
    BY <1>1, BurnDebtInv DEF Inv, Accounts
  <1>3. c = a
    BY <1>1 DEF Inv, MoneyOK
  <1>4. /\ pBalance[u][c] \in Nat /\ pBalance'[u][c] = pBalance[u][c] - paid
        /\ debt[u][a] \in Nat /\ debt'[u][a] = debt[u][a] - paid
    BY <1>1, <1>2, <1>3 DEF Inv, MoneyOK, DebtInv, BurnDebt
  <1>5. price[a] \in Nat /\ B \in Nat /\ B >= 10000
    <2>1. a \in Reserves /\ price[a] \in Nat
      BY DEF Reserves, Inv, MarketOK
    <2> QED BY <1>3, <2>1, PoolAssumption
  <1>6. relieved \in Nat
    BY <1>2, <1>5
  <1> HIDE DEF relieved, B
  <1>7. PercentMul(relieved, B) \in Nat /\ relieved <= PercentMul(relieved, B)
    BY <1>5, <1>6, NotBelowPar
  <1>8. PercentMul(price[a], B) \in Nat
    <2>1. price[a] \in Nat /\ B \in Nat
      BY <1>5
    <2> QED BY <2>1, PercentNat
  <1>9. relieved <= PercentMul(relieved, B) + price[c] + price[a] + PercentMul(price[a], B)
    BY <1>3, <1>5, <1>6, <1>7, <1>8
  <1>10. /\ pBalance[u][c] - pBalance'[u][c] = paid
         /\ debt[u][a] - debt'[u][a] = paid
    BY <1>2, <1>4
  <1> QED BY <1>3, <1>9, <1>10 DEF Fair, relieved, B

\* What the borrower loses of an asset in a liquidation: the seized amount at most.
LEMMA SeizedAtMost ==
    ASSUME Inv, NEW l \in Users, NEW u \in Users, NEW d \in ERC20s, NEW a \in ERC20s,
           NEW x, NEW receive \in BOOLEAN, ExecuteLiquidateERC20(l, u, d, a, x, receive),
           NEW c \in ERC20s
    PROVE  LET p == ERC20Liquidation(u, d, a, LiquidatableDebt(u, a, x))
           IN  /\ c # d => pBalance'[u][c] = pBalance[u][c]
               /\ pBalance'[u][d] >= pBalance[u][d] - p.seized
               /\ pBalance'[u][d] \in Int /\ p.seized \in Nat
               /\ BurnDebt(u, a, p.repaid)
  <1> DEFINE p == ERC20Liquidation(u, d, a, LiquidatableDebt(u, a, x))
             seized == p.seized
             repaid == p.repaid
             fee == p.fee
             taken == seized - fee
             feePaid == [pBalance EXCEPT ![u][d] = @ - fee, ![Treasury][d] = @ + fee]
             burnt == [feePaid EXCEPT ![u][d] = @ - taken]
  <1>1. /\ BurnDebt(u, a, repaid)
        /\ seized \in 0 .. pBalance[u][d] /\ fee \in 0 .. seized
        /\ \/ pBalance' = [burnt EXCEPT ![l][d] = @ + taken]
           \/ pBalance' = burnt
    BY DEF ExecuteLiquidateERC20
  <1> HIDE DEF p, seized, repaid, fee
  <1>2. u # Treasury /\ u \in Accounts /\ l \in Accounts /\ Treasury \in Accounts
    BY PoolAssumption DEF Accounts
  <1>3. seized \in Nat /\ fee \in Nat /\ taken \in Nat /\ seized = fee + taken
    BY <1>1, <1>2 DEF Inv, MoneyOK
  <1> HIDE DEF taken
  <1> DEFINE m == Added(pBalance, u, d, 0 - fee)
  <1>4. /\ m \in Ledgers(Accounts)
        /\ m[u][d] = pBalance[u][d] - fee
        /\ c # d => m[u][c] = pBalance[u][c]
    <2>1. pBalance \in Ledgers(Accounts) /\ 0 - fee \in Int
      BY <1>3, PoolLedgers
    <2> QED BY <1>2, <1>3, <2>1 DEF Added, Ledgers
  <1>5. /\ feePaid \in Ledgers(Accounts)
        /\ feePaid[u][d] = m[u][d] /\ (c # d => feePaid[u][c] = m[u][c])
    <2>1. feePaid = Added(m, Treasury, d, fee)
      BY <1>3, FeeIsAdded
    <2> HIDE DEF feePaid, m
    <2> QED BY <1>2, <1>3, <1>4, <2>1 DEF Added, Ledgers
  <1> HIDE DEF feePaid, m
  <1>6. /\ burnt \in Ledgers(Accounts)
        /\ burnt[u][d] = feePaid[u][d] - taken
        /\ c # d => burnt[u][c] = feePaid[u][c]
    BY <1>2, <1>3, <1>5 DEF Ledgers
  <1> HIDE DEF burnt
  <1>7. /\ pBalance'[u][d] \in Int /\ pBalance'[u][d] >= burnt[u][d]
        /\ c # d => pBalance'[u][c] = burnt[u][c]
    BY <1>1, <1>2, <1>3, <1>6 DEF Ledgers
  <1>8. pBalance[u][d] \in Int
    BY <1>2 DEF Inv, MoneyOK
  <1> QED BY <1>1, <1>3, <1>4, <1>5, <1>6, <1>7, <1>8 DEF p, seized, repaid

\* A liquidation takes at most its price from the borrower.
LEMMA LiquidateERC20IsFair ==
    ASSUME Inv, NEW l \in Users, NEW u \in Users, NEW d \in ERC20s, NEW a \in ERC20s,
           NEW x \in Amounts \cup {debt[u][a]}, NEW receive \in BOOLEAN,
           ExecuteLiquidateERC20(l, u, d, a, x, receive),
           NEW c \in ERC20s, LT[c] # 0, pBalance'[u][c] # pBalance[u][c]
    PROVE  Fair(u, a, c)
  <1> DEFINE p == ERC20Liquidation(u, d, a, LiquidatableDebt(u, a, x))
             seized == p.seized
             repaid == p.repaid
             B == Bonus[c]
  <1>1. c = d /\ pBalance'[u][c] >= pBalance[u][c] - seized /\ pBalance'[u][c] \in Int
    BY SeizedAtMost
  <1>2. BurnDebt(u, a, repaid)
    BY SeizedAtMost
  <1>3. LiquidatableDebt(u, a, x) \in Nat
    BY LiquidatableDebtNat
  <1>4. /\ seized \in Nat /\ repaid \in Nat
        /\ price[c] * seized <= PercentMul(price[a] * repaid, B)
               + price[c] + price[a] + PercentMul(price[a], B)
    BY <1>1, <1>3, LiquidationIsPriced
  <1> HIDE DEF p, seized, repaid
  <1>5. /\ debt[u][a] \in Nat /\ debt'[u][a] = debt[u][a] - repaid
        /\ pBalance[u][c] \in Nat /\ price[c] \in Nat /\ price[a] \in Nat
        /\ B \in Nat
    <2>1. /\ debt \in [Users -> [ERC20s -> Nat]] /\ debt' = [debt EXCEPT ![u][a] = @ - repaid]
          /\ pBalance \in [Accounts -> [ERC20s -> Nat]] /\ price \in [Reserves -> Nat \ {0}]
          /\ u \in Accounts
      BY <1>2 DEF Inv, DebtInv, MoneyOK, MarketOK, BurnDebt, Accounts
    <2>2. c \in Reserves /\ a \in Reserves
      BY DEF Reserves
    <2>3. Bonus \in [Reserves -> Nat]
      BY PoolAssumption
    <2> QED BY <1>4, <2>1, <2>2, <2>3
  <1> DEFINE loss == pBalance[u][c] - pBalance'[u][c]
  <1>6. loss \in Int /\ loss <= seized /\ debt[u][a] - debt'[u][a] = repaid
    BY <1>1, <1>4, <1>5
  <1> HIDE DEF loss, B
  <1>7. price[c] * loss <= price[c] * seized
    BY <1>4, <1>5, <1>6
  <1> DEFINE limit == PercentMul(price[a] * repaid, B)
                          + price[c] + price[a] + PercentMul(price[a], B)
  <1>8. limit \in Int
    <2> DEFINE v == price[a] * repaid
    <2>1. v \in Nat
      BY <1>4, <1>5
    <2> HIDE DEF v
    <2>2. PercentMul(v, B) \in Nat
      BY <1>5, <2>1, PercentNat
    <2>3. PercentMul(price[a], B) \in Nat
      BY <1>5, PercentNat
    <2> QED BY <1>5, <2>2, <2>3 DEF v
  <1> DEFINE P == price[c] * loss
             S == price[c] * seized
  <1>9. P \in Int /\ S \in Int /\ P <= S /\ S <= limit
    BY <1>4, <1>5, <1>6, <1>7
  <1> HIDE DEF P, S, limit
  <1>10. P <= limit
    BY <1>8, <1>9
  <1> QED BY <1>6, <1>10 DEF Fair, P, limit, loss, B

\* A loss of collateral together with a relief of debt has its price in every step.
LEMMA StepIsFair ==
    ASSUME Inv, PoolNext, NEW u \in Users, NEW a \in ERC20s, NEW c \in ERC20s
    PROVE  Fair(u, a, c)
  <1>1. /\ pBalance[u][c] \in Nat /\ debt[u][a] \in Nat
        /\ price[c] \in Nat \ {0} /\ price[a] \in Nat \ {0}
    BY DEF Inv, MoneyOK, MarketOK, DebtInv, Accounts, Reserves
  <1>2. Inv'
    BY ERC20NextInv, ERC721NextInv, EnvironmentInv DEF PoolNext
  <1>3. pBalance'[u][c] \in Nat /\ debt'[u][a] \in Nat
    BY <1>2 DEF Inv, MoneyOK, DebtInv, Accounts
  <1>4. CASE LT[c] = 0 \/ pBalance'[u][c] = pBalance[u][c] \/ ~(debt'[u][a] < debt[u][a])
    <2>1. pBalance'[u][c] = pBalance[u][c] => price[c] * (pBalance[u][c] - pBalance'[u][c]) = 0
      BY <1>1
    <2>2. ~(debt'[u][a] < debt[u][a]) => ~(price[a] * (debt[u][a] - debt'[u][a]) > 0)
      <3> DEFINE d == debt[u][a] - debt'[u][a]
      <3>1. ~(debt'[u][a] < debt[u][a]) => d \in Int /\ d <= 0
        BY <1>1, <1>3
      <3> HIDE DEF d
      <3>2. \A p \in Nat : d \in Int /\ d <= 0 => ~(p * d > 0)
        OBVIOUS
      <3> QED BY <1>1, <3>1, <3>2 DEF d
    <2> QED BY <1>4, <2>1, <2>2 DEF Fair
  <1>5. CASE LT[c] # 0 /\ pBalance'[u][c] # pBalance[u][c] /\ debt'[u][a] < debt[u][a]
    <2>1. CASE \E x : ExecuteRepay(u, a, x)
      BY <1>5, <2>1 DEF ExecuteRepay
    <2>2. CASE \E x : RepayWithPTokens(u, a, x)
      BY <1>5, <2>2, RepayWithPTokensIsFair
    <2>3. CASE \E x \in Amounts \cup {debt[u][a]} :
                 \E l \in Users, d \in ERC20s, receive \in BOOLEAN :
                    ExecuteLiquidateERC20(l, u, d, a, x, receive)
      BY <1>5, <2>3, LiquidateERC20IsFair
    <2> QED BY <1>5, <2>1, <2>2, <2>3, OnlyRepaymentsRelieve
  <1> QED BY <1>4, <1>5

\* What a liquidated user loses is the debt it is relieved of at the price of the
\* oracle, the bonus, and the roundings: whatever the prices, the bonus, the close
\* factor, the fee, and how much of the collateral the user has.
THEOREM LiquidationIsFairHolds == PoolSpec => LiquidationIsFair
  <1> DEFINE Step ==
       \A u \in Users, a, c \in ERC20s :
          LET lost == price[c] * (pBalance[u][c] - pBalance'[u][c])
              relieved == price[a] * (debt[u][a] - debt'[u][a])
          IN  LT[c] # 0 /\ lost > 0 /\ relieved > 0 =>
                  lost <= PercentMul(relieved, Bonus[c])
                             + price[c] + price[a] + PercentMul(price[a], Bonus[c])
  <1>1. Step <=> \A u \in Users, a, c \in ERC20s : Fair(u, a, c)
    BY DEF Fair
  <1> HIDE DEF Step
  <1>2. Inv /\ [PoolNext]_vars => [Step]_vars
    BY <1>1, StepIsFair
  <1> USE DEF Step
  <1> QED BY <1>2, InvHolds, PTL DEF PoolSpec, LiquidationIsFair

-----------------------------------------------------------------------------
(* How far the two health factors may be from each other.                  *)

\* What a position may lose to roundings between its two health factors: half a basis point of
\* what the ERC20 collateral pays back (a threshold and its bonus may exceed 100% by a
\* rounding), a basis point of the NFTs (their average threshold is truncated), half a unit
\* of the last digit of the health factor, and a unit for each reserve that is divided.
Slack(u) ==
    (PayableDebt(u) + 2 * TotalWorth(u, Collections)) \div 20000
      + (TotalDebt(u) \div 2) \div Wad
      + Cardinality(Counted(u, ERC20s)) + 1

\* The ERC721 health factor, if the NFTs secured that much more.
ERC721HealthFactorWith(u, more) ==
    IF PayableDebt(u) >= TotalDebt(u) THEN MaxHealthFactor
    ELSE WadDiv(PercentMul(TotalWorth(u, Collections), Average(u, Collections, LT)) + more,
                TotalDebt(u) - PayableDebt(u))

\* A user whose health factor is at least one is at most roundings away from being safe
\* from auctions.
HealthyMeansNFTsNearlySafe ==
    \A u \in Users : Solvent(u) => ERC721HealthFactorWith(u, Slack(u)) >= Wad

-----------------------------------------------------------------------------
(* The sums of an account as sums of functions.                            *)

WorthOf(u) == [r \in Reserves |-> Worth(u, r)]
WeightedWorthOf(u) == [r \in Reserves |-> Worth(u, r) * LT[r]]
PayableOf(u) == [a \in Reserves |-> PercentDiv(Worth(u, a), Bonus[a])]
DebtOf(u) == [a \in ERC20s |-> price[a] * debt[u][a]]

\* The figures of an account are natural numbers.
LEMMA FiguresNat ==
    ASSUME Inv, NEW u \in Users
    PROVE  /\ \A r \in Reserves : /\ Worth(u, r) \in Nat /\ WorthOf(u)[r] = Worth(u, r)
                                  /\ LT[r] \in Nat /\ Bonus[r] \in Nat
                                  /\ WeightedWorthOf(u)[r] = Worth(u, r) * LT[r]
                                  /\ WeightedWorthOf(u)[r] \in Nat
           /\ \A r \in Reserves : LT[r] # 0 => PayableOf(u)[r] \in Nat
           /\ \A a \in ERC20s : DebtOf(u)[a] \in Nat
           /\ \A S \in SUBSET Reserves : /\ Counted(u, S) \subseteq S /\ IsFiniteSet(Counted(u, S))
                                         /\ \A r \in Counted(u, S) : LT[r] # 0
  <1>1. \A r \in Reserves : LT[r] \in Nat /\ Bonus[r] \in Nat /\ price[r] \in Nat
    BY PoolAssumption DEF Inv, MarketOK
  <1>2. \A r \in Reserves : Holding(u, r) \in Nat
    <2>1. \A r \in ERC20s : pBalance[u][r] \in Nat
      BY DEF Inv, MoneyOK, Accounts
    <2>2. ASSUME NEW c \in Reserves PROVE Cardinality(CollateralTokens(u, c)) \in Nat
      <3>1. CollateralTokens(u, c) \subseteq Tokens
        BY DEF CollateralTokens, TokensOf
      <3> QED
        BY <3>1, NTokenAssumption, FS_Subset, FS_CardinalityType
    <2> QED
      BY <2>1, <2>2 DEF Holding
  <1>3. \A r \in Reserves : Worth(u, r) \in Nat
    <2>1. \A x, y \in Nat : x * y \in Nat
      OBVIOUS
    <2> QED
      BY <1>1, <1>2, <2>1 DEF Worth
  <1>4. \A r \in Reserves : Worth(u, r) * LT[r] \in Nat
    <2>1. \A x, y \in Nat : x * y \in Nat
      OBVIOUS
    <2> QED
      BY <1>1, <1>3, <2>1
  <1>5. ASSUME NEW r \in Reserves, LT[r] # 0 PROVE PayableOf(u)[r] \in Nat
    <2>1. Bonus[r] # 0
      BY <1>5, PoolAssumption
    <2>2. PercentDiv(Worth(u, r), Bonus[r]) \in Nat
      BY <1>1, <1>3, <2>1, PercentNat
    <2> QED
      BY <2>2 DEF PayableOf
  <1>6. ASSUME NEW a \in ERC20s PROVE DebtOf(u)[a] \in Nat
    <2>1. price[a] \in Nat /\ debt[u][a] \in Nat
      BY <1>1 DEF Reserves, Inv, DebtInv
    <2>2. price[a] * debt[u][a] \in Nat
      BY <2>1
    <2> QED
      BY <2>2 DEF DebtOf
  <1>7. \A S \in SUBSET Reserves : /\ Counted(u, S) \subseteq S /\ IsFiniteSet(Counted(u, S))
                                   /\ \A r \in Counted(u, S) : LT[r] # 0
    <2>1. \A S \in SUBSET Reserves : Counted(u, S) \subseteq Reserves
      BY DEF Counted
    <2> QED
      BY <2>1, RiskAssumption, FS_Subset DEF Counted
  <1> QED
    BY <1>1, <1>3, <1>4, <1>5, <1>6, <1>7 DEF WorthOf, WeightedWorthOf

\* The dividend of the average threshold.
WeightedWorth(u, S) == MapThenSumSet(LAMBDA r : Worth(u, r) * LT[r], Counted(u, S))

\* What the collateral of S is worth.
LEMMA TotalWorthIsSum ==
    ASSUME Inv, NEW u \in Users, NEW S \in SUBSET Reserves
    PROVE  TotalWorth(u, S) = SumFunctionOnSet(WorthOf(u), Counted(u, S))
  <1> DEFINE C == Counted(u, S)
             f == WorthOf(u)
             iter == CHOOSE g : g = [s \in SUBSET C |->
                        IF s = {} THEN 0
                        ELSE Worth(u, CHOOSE x \in s : TRUE) + g[s \ {CHOOSE x \in s : TRUE}]]
  <1>1. TotalWorth(u, S) = iter[C]
    BY DEF TotalWorth, MapThenSumSet, MapThenFoldSet
  <1>2. /\ C \subseteq Reserves /\ IsFiniteSet(C) /\ \A x \in C : f[x] \in Int
        /\ \A s \in SUBSET C : s # {} => f[CHOOSE x \in s : TRUE] = Worth(u, CHOOSE x \in s : TRUE)
    <2>1. C \subseteq Reserves /\ IsFiniteSet(C) /\ \A x \in C : f[x] \in Int
      BY FiguresNat
    <2>2. \A s \in SUBSET C : s # {} => (CHOOSE x \in s : TRUE) \in Reserves
      BY <2>1
    <2> QED
      BY <2>1, <2>2, FiguresNat
  <1> HIDE DEF C, f
  <1>3. ASSUME NEW g
        PROVE  Solves(f, C, g) <=>
                 g = [s \in SUBSET C |->
                        IF s = {} THEN 0
                        ELSE Worth(u, CHOOSE x \in s : TRUE) + g[s \ {CHOOSE x \in s : TRUE}]]
    <2>1. \A s \in SUBSET C : SumOf(f, g, s) =
             IF s = {} THEN 0
             ELSE Worth(u, CHOOSE x \in s : TRUE) + g[s \ {CHOOSE x \in s : TRUE}]
      BY <1>2 DEF SumOf, First
    <2> QED
      BY <2>1 DEF Solves
  <1>4. Solves(f, C, iter)
    <2>1. PICK h : Solves(f, C, h)
      BY <1>2, SolutionExists
    <2>2. h = [s \in SUBSET C |->
                  IF s = {} THEN 0
                  ELSE Worth(u, CHOOSE x \in s : TRUE) + h[s \ {CHOOSE x \in s : TRUE}]]
      BY <1>3, <2>1
    <2>3. iter = [s \in SUBSET C |->
                     IF s = {} THEN 0
                     ELSE Worth(u, CHOOSE x \in s : TRUE) + iter[s \ {CHOOSE x \in s : TRUE}]]
      BY <2>2
    <2> HIDE DEF iter
    <2> QED
      BY <1>3, <2>3
  <1> HIDE DEF iter
  <1> QED
    BY <1>1, <1>2, <1>4, SolutionIsSum DEF C, f

\* The same, with its thresholds.
LEMMA WeightedWorthIsSum ==
    ASSUME Inv, NEW u \in Users, NEW S \in SUBSET Reserves
    PROVE  WeightedWorth(u, S) = SumFunctionOnSet(WeightedWorthOf(u), Counted(u, S))
  <1> DEFINE C == Counted(u, S)
             f == WeightedWorthOf(u)
             iter == CHOOSE g : g = [s \in SUBSET C |->
                        IF s = {} THEN 0
                        ELSE Worth(u, CHOOSE x \in s : TRUE) * LT[CHOOSE x \in s : TRUE] + g[s \ {CHOOSE x \in s : TRUE}]]
  <1>1. WeightedWorth(u, S) = iter[C]
    BY DEF WeightedWorth, MapThenSumSet, MapThenFoldSet
  <1>2. /\ C \subseteq Reserves /\ IsFiniteSet(C) /\ \A x \in C : f[x] \in Int
        /\ \A s \in SUBSET C : s # {} => f[CHOOSE x \in s : TRUE] = Worth(u, CHOOSE x \in s : TRUE) * LT[CHOOSE x \in s : TRUE]
    <2>1. C \subseteq Reserves /\ IsFiniteSet(C) /\ \A x \in C : f[x] \in Int
      BY FiguresNat
    <2>2. \A s \in SUBSET C : s # {} => (CHOOSE x \in s : TRUE) \in Reserves
      BY <2>1
    <2> QED
      BY <2>1, <2>2, FiguresNat
  <1> HIDE DEF C, f
  <1>3. ASSUME NEW g
        PROVE  Solves(f, C, g) <=>
                 g = [s \in SUBSET C |->
                        IF s = {} THEN 0
                        ELSE Worth(u, CHOOSE x \in s : TRUE) * LT[CHOOSE x \in s : TRUE] + g[s \ {CHOOSE x \in s : TRUE}]]
    <2>1. \A s \in SUBSET C : SumOf(f, g, s) =
             IF s = {} THEN 0
             ELSE Worth(u, CHOOSE x \in s : TRUE) * LT[CHOOSE x \in s : TRUE] + g[s \ {CHOOSE x \in s : TRUE}]
      BY <1>2 DEF SumOf, First
    <2> QED
      BY <2>1 DEF Solves
  <1>4. Solves(f, C, iter)
    <2>1. PICK h : Solves(f, C, h)
      BY <1>2, SolutionExists
    <2>2. h = [s \in SUBSET C |->
                  IF s = {} THEN 0
                  ELSE Worth(u, CHOOSE x \in s : TRUE) * LT[CHOOSE x \in s : TRUE] + h[s \ {CHOOSE x \in s : TRUE}]]
      BY <1>3, <2>1
    <2>3. iter = [s \in SUBSET C |->
                     IF s = {} THEN 0
                     ELSE Worth(u, CHOOSE x \in s : TRUE) * LT[CHOOSE x \in s : TRUE] + iter[s \ {CHOOSE x \in s : TRUE}]]
      BY <2>2
    <2> HIDE DEF iter
    <2> QED
      BY <1>3, <2>3
  <1> HIDE DEF iter
  <1> QED
    BY <1>1, <1>2, <1>4, SolutionIsSum DEF C, f

\* What the ERC20 collateral pays back.
LEMMA PayableDebtIsSum ==
    ASSUME Inv, NEW u \in Users
    PROVE  PayableDebt(u) = SumFunctionOnSet(PayableOf(u), Counted(u, ERC20s))
  <1> DEFINE C == Counted(u, ERC20s)
             f == PayableOf(u)
             iter == CHOOSE g : g = [s \in SUBSET C |->
                        IF s = {} THEN 0
                        ELSE PercentDiv(Worth(u, CHOOSE x \in s : TRUE), Bonus[CHOOSE x \in s : TRUE]) + g[s \ {CHOOSE x \in s : TRUE}]]
  <1>1. PayableDebt(u) = iter[C]
    BY DEF PayableDebt, MapThenSumSet, MapThenFoldSet
  <1>2. /\ C \subseteq Reserves /\ IsFiniteSet(C) /\ \A x \in C : f[x] \in Int
        /\ \A s \in SUBSET C : s # {} => f[CHOOSE x \in s : TRUE] = PercentDiv(Worth(u, CHOOSE x \in s : TRUE), Bonus[CHOOSE x \in s : TRUE])
    <2>1. C \subseteq Reserves /\ IsFiniteSet(C) /\ \A x \in C : f[x] \in Int
      BY FiguresNat DEF Reserves
    <2>2. \A s \in SUBSET C : s # {} => (CHOOSE x \in s : TRUE) \in Reserves
      BY <2>1
    <2> QED
      BY <2>1, <2>2 DEF PayableOf
  <1> HIDE DEF C, f
  <1>3. ASSUME NEW g
        PROVE  Solves(f, C, g) <=>
                 g = [s \in SUBSET C |->
                        IF s = {} THEN 0
                        ELSE PercentDiv(Worth(u, CHOOSE x \in s : TRUE), Bonus[CHOOSE x \in s : TRUE]) + g[s \ {CHOOSE x \in s : TRUE}]]
    <2>1. \A s \in SUBSET C : SumOf(f, g, s) =
             IF s = {} THEN 0
             ELSE PercentDiv(Worth(u, CHOOSE x \in s : TRUE), Bonus[CHOOSE x \in s : TRUE]) + g[s \ {CHOOSE x \in s : TRUE}]
      BY <1>2 DEF SumOf, First
    <2> QED
      BY <2>1 DEF Solves
  <1>4. Solves(f, C, iter)
    <2>1. PICK h : Solves(f, C, h)
      BY <1>2, SolutionExists
    <2>2. h = [s \in SUBSET C |->
                  IF s = {} THEN 0
                  ELSE PercentDiv(Worth(u, CHOOSE x \in s : TRUE), Bonus[CHOOSE x \in s : TRUE]) + h[s \ {CHOOSE x \in s : TRUE}]]
      BY <1>3, <2>1
    <2>3. iter = [s \in SUBSET C |->
                     IF s = {} THEN 0
                     ELSE PercentDiv(Worth(u, CHOOSE x \in s : TRUE), Bonus[CHOOSE x \in s : TRUE]) + iter[s \ {CHOOSE x \in s : TRUE}]]
      BY <2>2
    <2> HIDE DEF iter
    <2> QED
      BY <1>3, <2>3
  <1> HIDE DEF iter
  <1> QED
    BY <1>1, <1>2, <1>4, SolutionIsSum DEF C, f

\* What a user owes.
LEMMA TotalDebtIsSum ==
    ASSUME Inv, NEW u \in Users
    PROVE  TotalDebt(u) = SumFunctionOnSet(DebtOf(u), borrowing[u])
  <1> DEFINE C == borrowing[u]
             f == DebtOf(u)
             iter == CHOOSE g : g = [s \in SUBSET C |->
                        IF s = {} THEN 0
                        ELSE price[CHOOSE x \in s : TRUE] * debt[u][CHOOSE x \in s : TRUE] + g[s \ {CHOOSE x \in s : TRUE}]]
  <1>1. TotalDebt(u) = iter[C]
    BY DEF TotalDebt, MapThenSumSet, MapThenFoldSet
  <1>2. /\ C \subseteq ERC20s /\ IsFiniteSet(C) /\ \A x \in C : f[x] \in Int
        /\ \A s \in SUBSET C : s # {} => f[CHOOSE x \in s : TRUE] = price[CHOOSE x \in s : TRUE] * debt[u][CHOOSE x \in s : TRUE]
    <2>1. C \subseteq ERC20s /\ \A x \in C : f[x] \in Int
      BY FiguresNat DEF Inv, DebtInv
    <2>2. IsFiniteSet(C)
      BY <2>1, RiskAssumption, FS_Subset DEF Reserves
    <2>3. \A s \in SUBSET C : s # {} => (CHOOSE x \in s : TRUE) \in ERC20s
      BY <2>1
    <2> QED
      BY <2>1, <2>2, <2>3 DEF DebtOf
  <1> HIDE DEF C, f
  <1>3. ASSUME NEW g
        PROVE  Solves(f, C, g) <=>
                 g = [s \in SUBSET C |->
                        IF s = {} THEN 0
                        ELSE price[CHOOSE x \in s : TRUE] * debt[u][CHOOSE x \in s : TRUE] + g[s \ {CHOOSE x \in s : TRUE}]]
    <2>1. \A s \in SUBSET C : SumOf(f, g, s) =
             IF s = {} THEN 0
             ELSE price[CHOOSE x \in s : TRUE] * debt[u][CHOOSE x \in s : TRUE] + g[s \ {CHOOSE x \in s : TRUE}]
      BY <1>2 DEF SumOf, First
    <2> QED
      BY <2>1 DEF Solves
  <1>4. Solves(f, C, iter)
    <2>1. PICK h : Solves(f, C, h)
      BY <1>2, SolutionExists
    <2>2. h = [s \in SUBSET C |->
                  IF s = {} THEN 0
                  ELSE price[CHOOSE x \in s : TRUE] * debt[u][CHOOSE x \in s : TRUE] + h[s \ {CHOOSE x \in s : TRUE}]]
      BY <1>3, <2>1
    <2>3. iter = [s \in SUBSET C |->
                     IF s = {} THEN 0
                     ELSE price[CHOOSE x \in s : TRUE] * debt[u][CHOOSE x \in s : TRUE] + iter[s \ {CHOOSE x \in s : TRUE}]]
      BY <2>2
    <2> HIDE DEF iter
    <2> QED
      BY <1>3, <2>3
  <1> HIDE DEF iter
  <1> QED
    BY <1>1, <1>2, <1>4, SolutionIsSum DEF C, f

-----------------------------------------------------------------------------
(* What the roundings lose.                                                *)

\* What percentDiv returns, multiplied back, is less than x by half a unit at most.
HalfUnitOff(x, p) == 20000 * x <= p * (2 * PercentDiv(x, p) + 1)

\* percentDiv rounds half up.
LEMMA PercentDivHalf ==
    ASSUME NEW x \in Nat, NEW p \in Nat \ {0}
    PROVE  PercentDiv(x, p) \in Nat /\ HalfUnitOff(x, p)
  <1> DEFINE h == p \div 2
             q == (x * 10000 + h) \div p
             m == p * q
  <1>1. h \in Nat /\ x * 10000 + h \in Nat /\ p <= 2 * h + 1
    OBVIOUS
  <1>2. q \in Nat /\ x * 10000 + h < m + p
    BY <1>1, DivBounds
  <1>3. PercentDiv(x, p) = q
    BY DEF PercentDiv, Factor
  <1> HIDE DEF q, h
  <1>4. m \in Nat /\ p * (2 * q + 1) = 2 * m + p
    BY <1>2
  <1> HIDE DEF m
  <1>5. 20000 * x <= 2 * m + p
    BY <1>1, <1>2, <1>4
  <1>6. 20000 * x <= p * (2 * q + 1)
    BY <1>4, <1>5
  <1> QED
    BY <1>2, <1>3, <1>6 DEF HalfUnitOff

\* The threshold l and the bonus b may exceed 100% together by less than a rounding of
\* percentMul: what the configurator allows.
Fits(l, b) == (l * b + 5000) \div 10000 <= 10000

\* What a liquidation pays back of a collateral worth w is at least what its threshold
\* counts of it, up to such roundings.
PaidBack(w, l, b) == 20000 * (w * l) <= 200009998 * PercentDiv(w, b) + 100004999

\* The thresholds that fit are paid back.
LEMMA PayableBound ==
    ASSUME NEW w \in Nat, NEW l \in Nat, NEW b \in Nat \ {0}, Fits(l, b)
    PROVE  PercentDiv(w, b) \in Nat /\ PaidBack(w, l, b)
  <1> DEFINE q == PercentDiv(w, b)
             lb == l * b
             k == 2 * q + 1
  <1>1. q \in Nat /\ 20000 * w <= b * k
    <2>1. PercentDiv(w, b) \in Nat /\ HalfUnitOff(w, b)
      BY PercentDivHalf
    <2> QED
      BY <2>1, SMT DEF HalfUnitOff
  <1>2. lb \in Nat
    OBVIOUS
  <1>3. lb <= 100004999
    <2>1. lb + 5000 < 10000 * ((lb + 5000) \div 10000) + 10000 /\ (lb + 5000) \div 10000 \in Nat
      <3> HIDE DEF lb
      <3> QED
        BY <1>2, DivBounds
    <2>2. (lb + 5000) \div 10000 <= 10000
      BY DEF Fits
    <2> HIDE DEF lb
    <2> QED
      BY <1>2, <2>1, <2>2, SMT
  <1>4. l * (20000 * w) <= l * (b * k)
    <2>1. 20000 * w \in Nat /\ b * k \in Nat
      BY <1>1
    <2> HIDE DEF k
    <2> QED
      BY <1>1, <2>1, ProductOrder
  <1>5. k \in Nat /\ k = 2 * q + 1
    BY <1>1
  <1> HIDE DEF k, q
  <1>6. l * (20000 * w) = 20000 * (w * l) /\ l * (b * k) = k * lb
    BY <1>5
  <1> HIDE DEF lb
  <1>7. k * lb <= k * 100004999
    BY <1>2, <1>3, <1>5, ProductOrder, SMT
  <1>8. k * 100004999 = 200009998 * q + 100004999
    BY <1>1, <1>5, SMT
  <1>9. w * l \in Nat /\ k * lb \in Nat
    BY <1>2, <1>5
  <1> QED
    BY <1>1, <1>4, <1>6, <1>7, <1>8, <1>9, SMT DEF q, PaidBack

\* What an average loses by truncation.
LEMMA AverageBounds ==
    ASSUME Inv, NEW u \in Users, NEW S \in SUBSET Reserves
    PROVE  /\ TotalWorth(u, S) \in Nat /\ WeightedWorth(u, S) \in Nat
           /\ Average(u, S, LT) \in Nat
           /\ TotalWorth(u, S) * Average(u, S, LT) <= WeightedWorth(u, S)
           /\ WeightedWorth(u, S) <= TotalWorth(u, S) * Average(u, S, LT) + TotalWorth(u, S)
  <1> DEFINE C == Counted(u, S)
             f == WorthOf(u)
             g == WeightedWorthOf(u)
             W == TotalWorth(u, S)
             L == WeightedWorth(u, S)
  <1>1. /\ W = SumFunctionOnSet(f, C) /\ L = SumFunctionOnSet(g, C)
    BY TotalWorthIsSum, WeightedWorthIsSum
  <1>2. /\ IsFiniteSet(C) /\ C \subseteq Reserves
        /\ \A r \in C : f[r] \in Nat /\ g[r] \in Nat /\ LT[r] \in Nat /\ g[r] = f[r] * LT[r]
    BY FiguresNat
  <1>3. Average(u, S, LT) = IF W = 0 THEN 0 ELSE L \div W
    BY DEF Average, WeightedWorth, MapThenSumSet, MapThenFoldSet
  <1> HIDE DEF C, f, g, W, L
  <1>4. W \in Nat /\ L \in Nat
    BY <1>1, <1>2, SumNat
  <1>5. CASE W = 0
    <2>1. ASSUME NEW r \in C PROVE g[r] = 0
      <3>1. /\ W = f[r] + SumFunctionOnSet(f, C \ {r})
        BY <1>1, <1>2, SumTake
      <3>2. SumFunctionOnSet(f, C \ {r}) \in Nat
        <4>1. IsFiniteSet(C \ {r}) /\ \A x \in C \ {r} : f[x] \in Nat
          BY <1>2, FS_Subset
        <4> QED
          BY <4>1, SumNat
      <3>3. f[r] = 0
        BY <1>2, <1>5, <3>1, <3>2
      <3> QED
        BY <1>2, <3>3
    <2>2. L = 0
      BY <1>1, <1>2, <2>1, SumNat
    <2> QED
      BY <1>3, <1>5, <2>2 DEF W, L
  <1>6. CASE W # 0
    <2> DEFINE A == L \div W
               m == W * A
    <2>1. A \in Nat /\ m <= L /\ L < m + W
      BY <1>4, <1>6, DivBounds
    <2> HIDE DEF A
    <2>2. m \in Nat
      BY <1>4, <2>1
    <2> HIDE DEF m
    <2>3. L <= m + W
      BY <1>4, <2>1, <2>2
    <2> QED
      BY <1>3, <1>4, <1>6, <2>1, <2>3 DEF W, L, A, m
  <1> QED
    BY <1>5, <1>6

\* The thresholds of the ERC20 collateral are paid back, those of the NFTs are their own.
LEMMA WeightedWorthBound ==
    ASSUME Inv, NEW u \in Users
    PROVE  /\ PayableDebt(u) \in Nat /\ Cardinality(Counted(u, ERC20s)) \in Nat
           /\ WeightedWorth(u, ERC20s) \in Nat /\ WeightedWorth(u, Collections) \in Nat
           /\ WeightedWorth(u, Reserves) = WeightedWorth(u, ERC20s) + WeightedWorth(u, Collections)
           /\ 20000 * WeightedWorth(u, ERC20s) <=
                200009998 * PayableDebt(u) + 100004999 * Cardinality(Counted(u, ERC20s))
  <1> DEFINE C == Counted(u, ERC20s)
             f == WeightedWorthOf(u)
             e == PayableOf(u)
  <1>1. /\ ERC20s \in SUBSET Reserves /\ Collections \in SUBSET Reserves
        /\ Reserves \in SUBSET Reserves
    BY DEF Reserves
  <1>2. /\ IsFiniteSet(C) /\ C \subseteq Reserves /\ \A r \in C : LT[r] # 0
        /\ IsFiniteSet(Counted(u, Reserves)) /\ Counted(u, Reserves) \subseteq Reserves
        /\ \A r \in Reserves : f[r] \in Nat
    BY <1>1, FiguresNat
  <1>3. /\ PayableDebt(u) = SumFunctionOnSet(e, C)
        /\ WeightedWorth(u, ERC20s) = SumFunctionOnSet(f, C)
        /\ WeightedWorth(u, Collections) = SumFunctionOnSet(f, Counted(u, Collections))
        /\ WeightedWorth(u, Reserves) = SumFunctionOnSet(f, Counted(u, Reserves))
    BY <1>1, PayableDebtIsSum, WeightedWorthIsSum
  <1>4. /\ C \in SUBSET Counted(u, Reserves)
        /\ Counted(u, Reserves) \ C = Counted(u, Collections)
    BY PoolAssumption DEF Counted, Reserves
  <1>5. ASSUME NEW r \in C
        PROVE  /\ f[r] \in Int /\ e[r] \in Nat
               /\ 20000 * f[r] <= 200009998 * e[r] + 100004999
    <2> DEFINE w == Worth(u, r)
               l == LT[r]
               b == Bonus[r]
    <2>1. r \in Reserves /\ LT[r] # 0
      BY <1>2
    <2>2. w \in Nat /\ l \in Nat /\ b \in Nat \ {0} /\ Fits(l, b)
      BY <2>1, FiguresNat, PoolAssumption, RiskAssumption DEF Fits
    <2>3. f[r] = w * l /\ e[r] = PercentDiv(w, b) /\ f[r] \in Nat
      BY <2>1, FiguresNat DEF PayableOf
    <2> DEFINE q == PercentDiv(w, b)
               m == w * l
    <2>4. q \in Nat /\ 20000 * m <= 200009998 * q + 100004999
      <3>1. q \in Nat /\ PaidBack(w, l, b)
        BY <2>2, PayableBound
      <3> HIDE DEF w, l, b
      <3> QED
        BY <3>1, SMT DEF PaidBack
    <2>5. f[r] = m /\ e[r] = q /\ m \in Nat
      BY <2>3
    <2> HIDE DEF q, m, f, e
    <2> QED
      BY <2>4, <2>5, SMT
  <1> HIDE DEF f, e, C
  <1>6. 20000 * SumFunctionOnSet(f, C) <=
           200009998 * SumFunctionOnSet(e, C) + 100004999 * Cardinality(C)
    <2> DEFINE a == 20000
               b == 200009998
               c == 100004999
    <2>1. a \in Int /\ b \in Int /\ c \in Int
      BY SMT
    <2>2. \A r \in C : f[r] \in Int /\ e[r] \in Int /\ a * f[r] <= b * e[r] + c
      BY <1>5, SMT
    <2> HIDE DEF a, b, c
    <2>3. a * SumFunctionOnSet(f, C) <= b * SumFunctionOnSet(e, C) + c * Cardinality(C)
      BY <1>2, <2>1, <2>2, SumBound
    <2> QED
      BY <2>3, SMT DEF a, b, c
  <1>7. SumFunctionOnSet(f, Counted(u, Reserves)) =
           SumFunctionOnSet(f, C) + SumFunctionOnSet(f, Counted(u, Collections))
    <2>1. \A r \in Counted(u, Reserves) : f[r] \in Int
      BY <1>2
    <2> QED
      BY <1>2, <1>4, <2>1, SumSplit
  <1>8. PayableDebt(u) \in Nat /\ Cardinality(C) \in Nat
    BY <1>2, <1>3, <1>5, SumNat, FS_CardinalityType
  <1>9. WeightedWorth(u, ERC20s) \in Nat /\ WeightedWorth(u, Collections) \in Nat
    BY <1>1, AverageBounds
  <1> QED
    BY <1>3, <1>6, <1>7, <1>8, <1>9, SMT DEF C

-----------------------------------------------------------------------------
\* A figure that is at least one after a division that rounds half up.
LEMMA WadDivBound ==
    ASSUME NEW x \in Nat, NEW d \in Nat \ {0}, WadDiv(x, d) >= Wad
    PROVE  d <= x + (d \div 2) \div Wad
  <1> DEFINE h == d \div 2
             y == x * Wad + h
             z == h \div Wad
             dw == d * Wad
             zw == z * Wad
             xw == x * Wad
  <1>0. Wad \in Nat \ {0}
    BY RiskAssumption
  <1>1. h \in Nat /\ xw \in Nat /\ dw \in Nat /\ y \in Nat /\ y = xw + h
    BY <1>0
  <1>2. y \div d \in Nat /\ d * (y \div d) <= y
    BY <1>1, DivBounds
  <1>3. Wad <= y \div d
    BY DEF WadDiv
  <1> HIDE DEF y
  <1>4. d * Wad <= d * (y \div d)
    BY <1>0, <1>2, <1>3, ProductOrder
  <1>5. dw <= y
    BY <1>1, <1>2, <1>4
  <1> HIDE DEF h
  <1>6. z \in Nat /\ h < Wad * z + Wad
    BY <1>0, <1>1, DivBounds
  <1> HIDE DEF z
  <1>7. zw \in Nat /\ Wad * z = zw
    BY <1>0, <1>6
  <1>8. dw < xw + zw + Wad
    <2> HIDE DEF dw, xw, zw
    <2> QED
      BY <1>0, <1>1, <1>5, <1>6, <1>7
  <1>9. (x + z + 1) * Wad = xw + zw + Wad
    BY <1>0, <1>6
  <1>10. d <= x + z
    <2>1. SUFFICES ASSUME d >= x + z + 1 PROVE FALSE
      BY <1>6
    <2>2. (x + z + 1) * Wad <= d * Wad
      <3>1. x + z + 1 \in Nat /\ Wad * (x + z + 1) <= Wad * d
        BY <1>0, <1>6, <2>1, ProductOrder
      <3> QED
        BY <1>0, <1>6, <3>1
    <2> DEFINE t == (x + z + 1) * Wad
    <2>3. t <= dw /\ t = xw + zw + Wad /\ dw \in Nat /\ dw < xw + zw + Wad
      BY <1>1, <1>8, <1>9, <2>2
    <2> HIDE DEF t, dw, xw, zw
    <2> QED
      BY <1>0, <1>1, <1>7, <2>3
  <1> QED
    BY <1>10 DEF z, h

\* Enough to make a health factor at least one.
LEMMA WadDivEnough ==
    ASSUME NEW v \in Nat, NEW b \in Nat \ {0}, b <= v
    PROVE  WadDiv(v, b) >= Wad
  <1> DEFINE h == b \div 2
             y == v * Wad + h
             q == y \div b
             vw == Wad * v
             bw == Wad * b
  <1>1. Wad \in Nat \ {0}
    BY RiskAssumption
  <1>2. vw \in Nat /\ bw \in Nat /\ h \in Nat /\ y \in Nat /\ y = vw + h
    BY <1>1
  <1>3. bw <= vw
    BY <1>1, ProductOrder
  <1>4. WadDiv(v, b) = q
    BY DEF WadDiv
  <1> HIDE DEF h, y
  <1>5. q \in Nat /\ y < b * q + b
    BY <1>2, DivBounds
  <1> HIDE DEF q
  <1>6. SUFFICES ASSUME q + 1 <= Wad PROVE FALSE
    BY <1>1, <1>4, <1>5
  <1>7. b * (q + 1) <= b * Wad
    BY <1>1, <1>5, <1>6, ProductOrder
  <1>8. b * (q + 1) = b * q + b /\ b * Wad = bw /\ b * q \in Nat
    BY <1>1, <1>5
  <1> HIDE DEF bw, vw
  <1> QED
    BY <1>2, <1>3, <1>5, <1>7, <1>8

\* PaidBack, summed over n reserves.
MostlyPaidBack(l2, p, n) == 20000 * l2 <= 200009998 * p + 100004999 * n

\* What a healthy user owes is paid back by the ERC20 collateral or secured by the NFTs, up
\* to the slack.
LEMMA OwedIsSecured ==
    ASSUME Inv, NEW u \in Users, Solvent(u), TotalDebt(u) \in Nat \ {0}
    PROVE  /\ PayableDebt(u) \in Nat /\ Slack(u) \in Nat
           /\ PercentMul(TotalWorth(u, Collections), Average(u, Collections, LT)) \in Nat
           /\ TotalDebt(u) <= PayableDebt(u) + Slack(u)
                 + PercentMul(TotalWorth(u, Collections), Average(u, Collections, LT))
  <1> DEFINE D == TotalDebt(u)
             P == PayableDebt(u)
             n == Cardinality(Counted(u, ERC20s))
             W7 == TotalWorth(u, Collections)
             x == PercentMul(TotalWorth(u, Reserves), Average(u, Reserves, LT))
             h == PercentMul(W7, Average(u, Collections, LT))
             s1 == (P + 2 * W7) \div 20000
             s2 == (D \div 2) \div Wad
  <1>1. Collections \in SUBSET Reserves /\ Reserves \in SUBSET Reserves
    BY DEF Reserves
  <1>2. /\ TotalWorth(u, Reserves) \in Nat /\ Average(u, Reserves, LT) \in Nat
        /\ TotalWorth(u, Reserves) * Average(u, Reserves, LT) <= WeightedWorth(u, Reserves)
    BY <1>1, AverageBounds
  <1>3. /\ TotalWorth(u, Collections) \in Nat /\ Average(u, Collections, LT) \in Nat
        /\ WeightedWorth(u, Collections) <=
              TotalWorth(u, Collections) * Average(u, Collections, LT) + TotalWorth(u, Collections)
    BY <1>1, AverageBounds
  <1>4. /\ x \in Nat /\ h \in Nat /\ s1 \in Nat /\ P \in Nat /\ n \in Nat
        /\ x <= P + h + s1 + n + 1
    <2> DEFINE W == TotalWorth(u, Reserves)
               A == Average(u, Reserves, LT)
               A7 == Average(u, Collections, LT)
               L2 == WeightedWorth(u, ERC20s)
               L7 == WeightedWorth(u, Collections)
    <2>1. /\ P \in Nat /\ n \in Nat /\ L2 \in Nat /\ L7 \in Nat
          /\ WeightedWorth(u, Reserves) = L2 + L7
          /\ MostlyPaidBack(L2, P, n)
      BY WeightedWorthBound, SMT DEF MostlyPaidBack
    <2> DEFINE m == W * A
               m7 == W7 * A7
    <2>2. W \in Nat /\ A \in Nat /\ W7 \in Nat /\ A7 \in Nat
      BY <1>2, <1>3
    <2>3. m <= L2 + L7 /\ L7 <= m7 + W7
      BY <1>2, <1>3, <2>1
    <2>4. x = PercentMul(W, A) /\ h = PercentMul(W7, A7)
      OBVIOUS
    <2> HIDE DEF W, A, W7, A7, x, h
    <2>5. x \in Nat /\ m \in Nat /\ 10000 * x <= m + 5000
      BY <2>2, <2>4, PercentMulBounds
    <2>6. h \in Nat /\ m7 \in Nat /\ m7 < 10000 * h + 5000
      BY <2>2, <2>4, PercentMulBounds
    <2> HIDE DEF m, m7, P, n, L2, L7
    <2>7. s1 \in Nat /\ P + 2 * W7 < 20000 * s1 + 20000
      <3>1. P + 2 * W7 \in Nat
        BY <2>1, <2>2
      <3> QED
        BY <3>1, DivBounds
    <2> HIDE DEF s1
    <2>8. x <= P + h + s1 + n + 1
      BY <2>1, <2>2, <2>3, <2>5, <2>6, <2>7, SMT DEF MostlyPaidBack
    <2> QED
      BY <2>1, <2>5, <2>6, <2>7, <2>8
  <1>5. WadDiv(x, D) >= Wad
    BY DEF Solvent, HealthFactor
  <1>6. D \in Nat \ {0} /\ D \div 2 \in Nat
    OBVIOUS
  <1>7. Slack(u) = s1 + s2 + n + 1
    BY DEF Slack
  <1> HIDE DEF D, P, n, W7, x, h, s1
  <1>8. D <= x + s2
    BY <1>4, <1>5, <1>6, WadDivBound
  <1>9. s2 \in Nat
    BY <1>6, RiskAssumption, DivBounds
  <1> HIDE DEF s2
  <1>10. Slack(u) \in Nat /\ D <= P + Slack(u) + h
    BY <1>4, <1>6, <1>7, <1>8, <1>9
  <1> QED
    BY <1>4, <1>10 DEF D, P, h, W7

\* Only roundings can let an auction start on a user whose health factor is at least one:
\* the ERC721 health factor, which assumes that all ERC20 collateral is liquidated first, is
\* then at least one as well, or would be with the slack, whatever the prices and thresholds.
THEOREM HealthyMeansNFTsNearlySafeHolds == PoolSpec => []HealthyMeansNFTsNearlySafe
  <1>1. Inv => HealthyMeansNFTsNearlySafe
    <2> SUFFICES ASSUME Inv, NEW u \in Users, Solvent(u)
                 PROVE  ERC721HealthFactorWith(u, Slack(u)) >= Wad
      BY DEF HealthyMeansNFTsNearlySafe
    <2> DEFINE D == TotalDebt(u)
               P == PayableDebt(u)
               H7 == PercentMul(TotalWorth(u, Collections), Average(u, Collections, LT))
    <2>1. D \in Nat
      <3>1. /\ IsFiniteSet(borrowing[u]) /\ \A a \in borrowing[u] : DebtOf(u)[a] \in Nat
        <4>1. borrowing[u] \subseteq ERC20s
          BY DEF Inv, DebtInv
        <4>2. IsFiniteSet(borrowing[u])
          BY <4>1, RiskAssumption, FS_Subset DEF Reserves
        <4> QED
          BY <4>1, <4>2, FiguresNat
      <3> QED
        BY <3>1, TotalDebtIsSum, SumNat
    <2>2. P \in Nat
      BY WeightedWorthBound
    <2>3. CASE P >= D
      BY <2>3, RiskAssumption DEF ERC721HealthFactorWith
    <2>4. CASE ~(P >= D)
      <3>1. D \in Nat \ {0} /\ D - P \in Nat \ {0}
        BY <2>1, <2>2, <2>4
      <3>2. Slack(u) \in Nat /\ H7 \in Nat /\ D <= P + Slack(u) + H7
        BY <3>1, OwedIsSecured
      <3> DEFINE v == H7 + Slack(u)
                 b == D - P
      <3>3. v \in Nat /\ b \in Nat \ {0} /\ b <= v
        <4> HIDE DEF D, P, H7
        <4> QED
          BY <2>2, <3>1, <3>2
      <3>4. ERC721HealthFactorWith(u, Slack(u)) = WadDiv(v, b)
        BY <2>4 DEF ERC721HealthFactorWith
      <3> HIDE DEF v, b
      <3> QED
        BY <3>3, <3>4, WadDivEnough
    <2> QED
      BY <2>3, <2>4
  <1> QED
    BY <1>1, InvHolds, PTL

-----------------------------------------------------------------------------
(* NTokenRights.                                                           *)

\* The types the results need.
RightsTypes ==
    /\ owners \in [Tokens -> Users \cup {NoOwner}]
    /\ tokenApprovals \in [Tokens -> Users \cup {NoOwner}]
    /\ tokenDelegations \in [Tokens -> Delegates \cup {NoOwner}]
    /\ registry \subseteq Delegates \X Tokens

\* A token that is not supplied has no approval left for its next owner.
UnsuppliedTokensAreUnapproved ==
    \A t \in Tokens : owners[t] = NoOwner => tokenApprovals[t] = NoOwner

RightsInv == RightsTypes /\ UnsuppliedTokensAreUnapproved /\ RecordedDelegationIsActive

\* The step that ApprovalEndsWithOwnership allows.
EndApprovals == \A t \in Tokens : owners'[t] # owners[t] => tokenApprovals'[t] = NoOwner

-----------------------------------------------------------------------------

\* Revoking the recorded delegates of T leaves the other tokens' alone.
LEMMA RevokedLeavesOthers ==
    ASSUME RightsInv, NEW T \in SUBSET Tokens, RevokeRecorded(T)
    PROVE  /\ tokenDelegations' \in [Tokens -> Delegates \cup {NoOwner}]
           /\ \A t \in T : tokenDelegations'[t] = NoOwner
           /\ \A t \in Tokens \ T : /\ tokenDelegations'[t] = tokenDelegations[t]
                                    /\ \A d : <<d, t>> \in registry' <=> <<d, t>> \in registry
<1>1. /\ tokenDelegations' = [t \in Tokens |-> IF t \in T THEN NoOwner ELSE tokenDelegations[t]]
      /\ registry' = registry \ {<<tokenDelegations[t], t>> : t \in T}
  BY DEF RevokeRecorded
<1>2. \A t \in Tokens \ T : \A d : <<d, t>> \notin {<<tokenDelegations[s], s>> : s \in T}
  OBVIOUS
<1>3. QED
  BY <1>1, <1>2 DEF RightsInv, RightsTypes

\* A holder approves, delegates or revokes, for tokens it keeps.
LEMMA HolderKeepsInv ==
    ASSUME NTokenAssumption, RightsAssumption, RightsInv, NEW u \in Users,
           \/ \E v \in Users, b \in BOOLEAN : SetApprovalForAll(u, v, b)
           \/ \E v \in Users \cup {NoOwner}, t \in Tokens : Approve(u, v, t)
           \/ \E d \in Delegates, T \in SUBSET Tokens, b \in BOOLEAN : DelegateForToken(u, d, T, b)
    PROVE  RightsInv' /\ EndApprovals
<1>1. CASE \E v \in Users, b \in BOOLEAN : SetApprovalForAll(u, v, b)
  BY <1>1 DEF SetApprovalForAll, ntokenVars, RightsInv, RightsTypes, UnsuppliedTokensAreUnapproved,
              RecordedDelegationIsActive, EndApprovals, Exists
<1>2. CASE \E v \in Users \cup {NoOwner}, t \in Tokens : Approve(u, v, t)
  BY <1>2 DEF Approve, ntokenVars, RightsInv, RightsTypes, UnsuppliedTokensAreUnapproved,
              RecordedDelegationIsActive, EndApprovals, Exists
<1>3. ASSUME NEW d \in Delegates, NEW T \in SUBSET Tokens, NEW b \in BOOLEAN,
             DelegateForToken(u, d, T, b)
      PROVE  RightsInv' /\ EndApprovals
  <2>1. /\ \A t \in T : owners[t] = u
        /\ tokenDelegations' = [t \in Tokens |-> IF t \notin T THEN tokenDelegations[t]
                                                 ELSE IF b THEN d ELSE NoOwner]
        /\ registry' = IF b THEN registry \cup {<<d, t>> : t \in T}
                            ELSE registry \ {<<d, t>> : t \in T}
        /\ UNCHANGED <<owners, tokenApprovals>>
    BY <1>3 DEF DelegateForToken, ntokenVars
  <2>2. RightsTypes' /\ UnsuppliedTokensAreUnapproved' /\ EndApprovals
    BY <2>1 DEF RightsInv, RightsTypes, UnsuppliedTokensAreUnapproved, EndApprovals
  <2>3. ASSUME NEW t \in Tokens, tokenDelegations'[t] # NoOwner
        PROVE  owners[t] # NoOwner /\ <<tokenDelegations'[t], t>> \in registry'
    <3>1. CASE t \in T
      <4>1. b /\ tokenDelegations'[t] = d
        BY <2>1, <2>3, <3>1
      <4>2. owners[t] # NoOwner
        BY <2>1, <3>1 DEF NTokenAssumption
      <4>3. QED
        BY <2>1, <3>1, <4>1, <4>2
    <3>2. CASE t \notin T
      <4>1. tokenDelegations'[t] = tokenDelegations[t]
        BY <2>1, <3>2
      <4>2. owners[t] # NoOwner /\ <<tokenDelegations[t], t>> \in registry
        BY <2>3, <4>1 DEF RightsInv, RecordedDelegationIsActive, Exists
      <4>3. <<tokenDelegations[t], t>> \notin {<<d, s>> : s \in T}
        BY <3>2
      <4>4. QED
        BY <2>1, <4>1, <4>2, <4>3
    <3>3. QED
      BY <3>1, <3>2
  <2>4. RecordedDelegationIsActive'
    BY <2>1, <2>3 DEF RecordedDelegationIsActive, Exists
  <2>5. QED
    BY <2>2, <2>4 DEF RightsInv
<1>4. QED
  BY <1>1, <1>2, <1>3

\* Tokens leave their owners, for others or for good: their approvals and
\* recorded delegations go, the rest stays.
LEMMA DepartureKeepsInv ==
    ASSUME RightsInv, NEW T \in SUBSET Tokens,
           owners' \in [Tokens -> Users \cup {NoOwner}],
           \A t \in Tokens \ T : owners'[t] = owners[t],
           ClearApprovals(T), RevokeRecorded(T)
    PROVE  RightsInv' /\ EndApprovals
<1>1. tokenApprovals' = [t \in Tokens |-> IF t \in T THEN NoOwner ELSE tokenApprovals[t]]
  BY DEF ClearApprovals
<1>2. RightsTypes'
  <2>1. registry' \subseteq registry
    BY DEF RevokeRecorded
  <2>2. QED
    BY <1>1, <2>1, RevokedLeavesOthers DEF RightsInv, RightsTypes
<1>3. UnsuppliedTokensAreUnapproved' /\ EndApprovals
  BY <1>1 DEF RightsInv, RightsTypes, UnsuppliedTokensAreUnapproved, EndApprovals
<1>4. RecordedDelegationIsActive'
  BY RevokedLeavesOthers DEF RightsInv, RecordedDelegationIsActive, Exists
<1>5. QED
  BY <1>2, <1>3, <1>4 DEF RightsInv

\* Transfers and sales of a token.
LEMMA MoveKeepsInv ==
    ASSUME NTokenAssumption, RightsInv, NEW from \in Users, NEW to \in Users, NEW t \in Tokens,
           Move(from, to, t)
    PROVE  RightsInv' /\ EndApprovals
<1>1. Transfer(from, to, t, {}) /\ ClearApprovals({t})
  BY DEF Move
<1>2. CASE from = to
  <2>1. UNCHANGED <<owners, tokenDelegations, registry>>
    BY <1>1, <1>2 DEF Move, Transfer, tokenVars
  <2>2. tokenApprovals' = [s \in Tokens |-> IF s \in {t} THEN NoOwner ELSE tokenApprovals[s]]
    BY <1>1 DEF ClearApprovals
  <2>3. RightsTypes' /\ UnsuppliedTokensAreUnapproved' /\ EndApprovals
    BY <2>1, <2>2 DEF RightsInv, RightsTypes, UnsuppliedTokensAreUnapproved, EndApprovals
  <2>4. RecordedDelegationIsActive'
    BY <2>1 DEF RightsInv, RecordedDelegationIsActive, Exists
  <2>5. QED
    BY <2>3, <2>4 DEF RightsInv
<1>3. CASE from # to
  <2>1. owners' = [owners EXCEPT ![t] = to] /\ RevokeRecorded({t})
    BY <1>1, <1>3 DEF Move, Transfer
  <2>2. /\ owners' \in [Tokens -> Users \cup {NoOwner}]
        /\ \A s \in Tokens \ {t} : owners'[s] = owners[s]
    BY <2>1 DEF RightsInv, RightsTypes
  <2>3. QED
    BY <1>1, <2>1, <2>2, DepartureKeepsInv
<1>4. QED
  BY <1>2, <1>3

\* Withdrawals and liquidations.
LEMMA WithdrawKeepsInv ==
    ASSUME RightsInv, NEW u \in Users, NEW T \in SUBSET Tokens, Withdraw(u, T)
    PROVE  RightsInv' /\ EndApprovals
<1>1. /\ owners' = [t \in Tokens |-> IF t \in T THEN NoOwner ELSE owners[t]]
      /\ ClearApprovals(T) /\ RevokeRecorded(T)
  BY DEF Withdraw, Burn
<1>2. /\ owners' \in [Tokens -> Users \cup {NoOwner}]
      /\ \A t \in Tokens \ T : owners'[t] = owners[t]
  BY <1>1 DEF RightsInv, RightsTypes
<1>3. QED
  BY <1>1, <1>2, DepartureKeepsInv

\* A supplied token comes in without an approval.
LEMMA SupplyKeepsInv ==
    ASSUME NTokenAssumption, RightsInv, NEW u \in Users, NEW T \in SUBSET Tokens, Supply(u, T)
    PROVE  RightsInv' /\ EndApprovals
<1>1. /\ \A t \in T : owners[t] = NoOwner
      /\ owners' = [t \in Tokens |-> IF t \in T THEN u ELSE owners[t]]
      /\ UNCHANGED <<tokenApprovals, tokenDelegations, registry>>
  BY DEF Supply, Mint, rightsVars, Exists
<1>2. RightsTypes' /\ UnsuppliedTokensAreUnapproved' /\ EndApprovals
  BY <1>1 DEF RightsInv, RightsTypes, UnsuppliedTokensAreUnapproved, EndApprovals, NTokenAssumption
<1>3. RecordedDelegationIsActive'
  BY <1>1 DEF RightsInv, RightsTypes, RecordedDelegationIsActive, Exists, NTokenAssumption
<1>4. QED
  BY <1>2, <1>3 DEF RightsInv

\* Every step.
LEMMA RightsInvNext ==
    ASSUME NTokenAssumption, RightsAssumption, RightsInv, [RightsNext]_allVars
    PROVE  RightsInv' /\ [EndApprovals]_allVars
<1>1. ASSUME RightsNext PROVE RightsInv' /\ EndApprovals
  <2>1. PICK u \in Users, v \in Users :
          \/ \E approved \in BOOLEAN : SetApprovalForAll(u, v, approved)
          \/ \E t \in Tokens :
                \/ \E to \in Users \cup {NoOwner} : Approve(u, to, t)
                \/ \E sender \in Users : TransferFrom(sender, u, v, t)
                \/ TransferOnLiquidation(u, v, t)
          \/ \E T \in SUBSET Tokens \ {{}} :
                \/ Supply(u, T)
                \/ Withdraw(u, T)
                \/ \E delegate \in Delegates, value \in BOOLEAN : DelegateForToken(u, delegate, T, value)
    BY <1>1 DEF RightsNext
  <2>2. CASE \E t \in Tokens : \/ \E sender \in Users : TransferFrom(sender, u, v, t)
                               \/ TransferOnLiquidation(u, v, t)
    BY <2>2, MoveKeepsInv DEF TransferFrom, TransferOnLiquidation
  <2>3. CASE \E T \in SUBSET Tokens : Supply(u, T) \/ Withdraw(u, T)
    BY <2>3, SupplyKeepsInv, WithdrawKeepsInv
  <2>4. CASE \/ \E w \in Users, b \in BOOLEAN : SetApprovalForAll(u, w, b)
             \/ \E w \in Users \cup {NoOwner}, t \in Tokens : Approve(u, w, t)
             \/ \E d \in Delegates, T \in SUBSET Tokens, b \in BOOLEAN : DelegateForToken(u, d, T, b)
    BY <2>4, HolderKeepsInv
  <2>5. QED
    BY <2>1, <2>2, <2>3, <2>4
<1>2. ASSUME UNCHANGED allVars PROVE RightsInv'
  BY <1>2 DEF allVars, ntokenVars, rightsVars, RightsInv, RightsTypes, UnsuppliedTokensAreUnapproved,
              RecordedDelegationIsActive, Exists
<1>3. QED
  BY <1>1, <1>2

-----------------------------------------------------------------------------

\* The ledger starts without owners, approvals and delegations.
LEMMA RightsInvInit == NTokenAssumption /\ RightsInit => RightsInv
BY DEF RightsInit, NTokenInit, RightsInv, RightsTypes, UnsuppliedTokensAreUnapproved,
       RecordedDelegationIsActive

\* A recorded delegate is registered, for a token that is supplied: the record
\* never keeps a holder from delegating (delegateForToken's check).
THEOREM RecordedDelegationIsActiveHolds ==
    ASSUME NTokenAssumption, RightsAssumption
    PROVE  RightsSpec => []RecordedDelegationIsActive
<1>1. RightsInit => RightsInv
  BY RightsInvInit
<1>2. RightsInv /\ [RightsNext]_allVars => RightsInv'
  BY RightsInvNext
<1>3. RightsInv => RecordedDelegationIsActive
  BY DEF RightsInv
<1>4. QED
  BY <1>1, <1>2, <1>3, PTL DEF RightsSpec

\* Whoever was approved by an earlier holder is not approved under a later one,
\* by whichever way the token changed hands.
THEOREM ApprovalEndsWithOwnershipHolds ==
    ASSUME NTokenAssumption, RightsAssumption
    PROVE  RightsSpec => ApprovalEndsWithOwnership
<1>1. RightsInit => RightsInv
  BY RightsInvInit
<1>2. RightsInv /\ [RightsNext]_allVars => RightsInv'
  BY RightsInvNext
<1>3. RightsInv /\ [RightsNext]_allVars => [EndApprovals]_allVars
  BY RightsInvNext
<1>4. ApprovalEndsWithOwnership <=> [][EndApprovals]_allVars
  BY PTL DEF ApprovalEndsWithOwnership, EndApprovals
<1>5. QED
  BY <1>1, <1>2, <1>3, <1>4, PTL DEF RightsSpec

-----------------------------------------------------------------------------

\* What a step may do to the registry: a delegation that the NToken loses track of is of a
\* token that stays where it is.
OrphansStay == \A p \in Orphans' \ Orphans : UNCHANGED <<owners, tokenApprovals>>

\* A delegation is lost by its record or by its registration: a step that leaves both alone
\* loses none.
LEMMA UntouchedRecordsOrphanNone ==
    ASSUME UNCHANGED <<tokenDelegations, registry>>
    PROVE  OrphansStay
BY DEF OrphansStay, Orphans

\* To revoke what is recorded takes out of the registry what the records lose.
LEMMA RevokedRecordsOrphanNone ==
    ASSUME RightsInv, NEW T \in SUBSET Tokens, RevokeRecorded(T)
    PROVE  OrphansStay
<1>1. SUFFICES ASSUME NEW p \in Orphans' PROVE p \in Orphans
  BY DEF OrphansStay
<1>2. p \in registry /\ p[2] \in Tokens /\ p = <<p[1], p[2]>>
  <2>1. p \in registry
    BY <1>1 DEF Orphans, RevokeRecorded
  <2>2. p \in Delegates \X Tokens
    BY <2>1 DEF RightsInv, RightsTypes
  <2>3. QED
    BY <2>1, <2>2
<1>3. p[2] \in T => p # <<tokenDelegations[p[2]], p[2]>>
  BY <1>1 DEF Orphans, RevokeRecorded
<1>4. p[2] \notin T => tokenDelegations'[p[2]] = tokenDelegations[p[2]]
  BY <1>2 DEF RevokeRecorded
<1>5. QED
  BY <1>1, <1>2, <1>3, <1>4 DEF Orphans

\* Every step.
LEMMA StepOrphans ==
    ASSUME RightsInv, RightsNext
    PROVE  OrphansStay
<1>1. PICK u \in Users, v \in Users :
        \/ \E approved \in BOOLEAN : SetApprovalForAll(u, v, approved)
        \/ \E t \in Tokens :
              \/ \E to \in Users \cup {NoOwner} : Approve(u, to, t)
              \/ \E sender \in Users : TransferFrom(sender, u, v, t)
              \/ TransferOnLiquidation(u, v, t)
        \/ \E T \in SUBSET Tokens \ {{}} :
              \/ Supply(u, T)
              \/ Withdraw(u, T)
              \/ \E delegate \in Delegates, value \in BOOLEAN : DelegateForToken(u, delegate, T, value)
  BY DEF RightsNext
<1>2. CASE \/ \E approved \in BOOLEAN : SetApprovalForAll(u, v, approved)
           \/ \E t \in Tokens, to \in Users \cup {NoOwner} : Approve(u, to, t)
           \/ \E T \in SUBSET Tokens : Supply(u, T)
  <2>1. UNCHANGED <<tokenDelegations, registry>>
    BY <1>2 DEF SetApprovalForAll, Approve, Supply, rightsVars
  <2>2. QED
    BY <2>1, UntouchedRecordsOrphanNone
<1>3. CASE \E t \in Tokens : Move(u, v, t)
  <2>1. PICK t \in Tokens : Move(u, v, t)
    BY <1>3
  <2>2. RevokeRecorded({t}) \/ UNCHANGED <<tokenDelegations, registry>>
    BY <2>1 DEF Move
  <2>3. QED
    BY <2>2, UntouchedRecordsOrphanNone, RevokedRecordsOrphanNone
<1>4. CASE \E T \in SUBSET Tokens : Withdraw(u, T)
  BY <1>4, RevokedRecordsOrphanNone DEF Withdraw
<1>5. CASE \E T \in SUBSET Tokens, delegate \in Delegates, value \in BOOLEAN :
              DelegateForToken(u, delegate, T, value)
  BY <1>5 DEF DelegateForToken, ntokenVars, tokenVars, OrphansStay
<1>6. QED
  BY <1>1, <1>2, <1>3, <1>4, <1>5 DEF TransferFrom, TransferOnLiquidation

\* A delegation that is registered without a record is lost by its holder, for a token that
\* stays: no transfer, sale, withdrawal or supply loses one.
THEOREM OnlyHoldersOrphanHolds ==
    ASSUME NTokenAssumption, RightsAssumption
    PROVE  RightsSpec => OnlyHoldersOrphan
<1>1. RightsInit => RightsInv
  BY RightsInvInit
<1>2. RightsInv /\ [RightsNext]_allVars => RightsInv'
  BY RightsInvNext
<1>3. RightsInv /\ [RightsNext]_allVars => [OrphansStay]_allVars
  BY StepOrphans
<1>4. OnlyHoldersOrphan <=> [][OrphansStay]_allVars
  BY PTL DEF OnlyHoldersOrphan, OrphansStay
<1>5. QED
  BY <1>1, <1>2, <1>3, <1>4, PTL DEF RightsSpec

=============================================================================
