------------------------------ MODULE TimeLock ------------------------------
(***************************************************************************)
(* TimeLock: what leaves the Pool by a withdrawal or a borrow is held in   *)
(* an agreement until its release time, then claimed by its beneficiary.   *)
(* Administrators freeze one agreement or all of them, and list            *)
(* beneficiaries who hardly wait.                                          *)
(*                                                                         *)
(* An xToken burns or lends in the transaction that creates the agreement  *)
(* and sends the underlying to the TimeLock, so that the three are one     *)
(* action.  The claims are not reentrant; a receiver called back by a      *)
(* claim can only make the Pool create agreements, with fresh ids.         *)
(***************************************************************************)
EXTENDS TimeLockStrategy, FiniteSets

CONSTANTS
    Users,          \* beneficiaries
    Coins, WETH,    \* ERC20 assets
    NFTs,           \* tokens of all the collections
    CollectionOf,   \* collection of each NFT
    MoonBirds,      \* the collection that moves while nesting
    WPunks,         \* the wrapper of the punks
    NoOne,          \* the zero address
    XToken, Lock,   \* the holders of an NFT that are not users
    MIN_WAIT_TIME,  \* wait of the listed beneficiaries
    Amounts,        \* amounts of the calls
    MaxAgreements   \* bound on agreements

ASSUME TimeLockAssumption ==
    /\ CollectionOf \in [NFTs -> Assets \ Coins] /\ IsFiniteSet(NFTs)
    /\ Coins \subseteq Assets
    /\ MaxAgreements \in Nat /\ MIN_WAIT_TIME \in Nat \ {0}
    /\ Amounts \subseteq Nat
    /\ Users \cap {NoOne, XToken, Lock} = {} /\ XToken # Lock

VARIABLES
    agreements, agreementCount,
    frozen,
    whiteList,
    held,       \* coins of the TimeLock
    nftHolder,  \* holder of each NFT
    wallet,     \* coins claimed, by user (WETH unwrapped by claimETH included)
    undelayed   \* history: undelayed[a][s], what beneficiaries who are not listed took
                \* out at time s and get without the extra delay

lockVars == <<agreements, agreementCount, frozen, whiteList, held, nftHolder, wallet, undelayed>>
timeLockVars == <<lockVars, strategyVars, now>>

Ids == 0 .. MaxAgreements - 1

Deleted == [beneficiary |-> NoOne, asset |-> NoOne, amount |-> 0, tokens |-> {},
            releaseTime |-> 0, isFrozen |-> FALSE]

Live(id) == agreements[id].beneficiary # NoOne

-----------------------------------------------------------------------------
(* Withdrawals and borrows.                                                *)

CreateAddsTimeTwice(asset, amount, tokens, beneficiary, releaseTime) ==   \* mutant
    LET release == IF beneficiary \in whiteList THEN now + MIN_WAIT_TIME ELSE releaseTime
    IN  /\ agreementCount \in Ids
        /\ release > now /\ release <= MaxTime
        /\ agreements' = [agreements EXCEPT ![agreementCount] =
              [beneficiary |-> beneficiary, asset |-> asset, amount |-> amount, tokens |-> tokens,
               releaseTime |-> now + release, isFrozen |-> FALSE]]
        /\ agreementCount' = agreementCount + 1

\* The listing is read when the agreement is made; the strategy has counted
\* the amount by then.
CreateAgreement(asset, amount, tokens, beneficiary, releaseTime) ==
    LET release == IF beneficiary \in whiteList THEN now + MIN_WAIT_TIME ELSE releaseTime
    IN  /\ agreementCount \in Ids
        /\ release > now /\ release <= MaxTime   \* the model's clock reaches it
        /\ agreements' = [agreements EXCEPT ![agreementCount] =
              [beneficiary |-> beneficiary, asset |-> asset, amount |-> amount, tokens |-> tokens,
               releaseTime |-> release, isFrozen |-> FALSE]]
        /\ agreementCount' = agreementCount + 1

\* The history: whether the extra delay applies is seen from the release time that the
\* agreement has.
NoteUndelayed(asset, amount, beneficiary) ==
    LET extraWait == agreements'[agreementCount].releaseTime - (now + WaitTime(asset, amount))
    IN  undelayed' = IF beneficiary \in whiteList \/ extraWait >= Strategy[asset].poolPeriodWaitTime
                     THEN undelayed
                     ELSE [undelayed EXCEPT ![asset][now] = @ + amount]

\* executeWithdraw or executeBorrow of an ERC20 asset, up to its PToken.
ReleaseCoins(user, coin, amount) ==
    /\ CreateAgreement(coin, amount, {}, user, ReleaseTime(coin, amount))
    /\ UpdatePeriodLimit(coin, amount)
    /\ NoteUndelayed(coin, amount, user)
    /\ held' = [held EXCEPT ![coin] = @ + amount]
    /\ UNCHANGED <<frozen, whiteList, nftHolder, wallet, now>>

\* executeWithdrawERC721, up to the NToken; the strategy counts tokens.
ReleaseNFTs(user, collection, T) ==
    /\ \A t \in T : CollectionOf[t] = collection /\ nftHolder[t] = XToken
    /\ CreateAgreement(collection, 0, T, user, ReleaseTime(collection, Cardinality(T)))
    /\ UpdatePeriodLimit(collection, Cardinality(T))
    /\ NoteUndelayed(collection, Cardinality(T), user)
    /\ nftHolder' = [t \in NFTs |-> IF t \in T THEN Lock ELSE nftHolder[t]]
    /\ UNCHANGED <<frozen, whiteList, held, wallet, now>>

\* An NFT that has been claimed comes back as collateral.
SupplyNFT(user, t) ==
    /\ nftHolder[t] = user
    /\ nftHolder' = [nftHolder EXCEPT ![t] = XToken]
    /\ UNCHANGED <<agreements, agreementCount, frozen, whiteList, held, wallet, undelayed,
                   strategyVars, now>>

-----------------------------------------------------------------------------
(* Claims: all the agreements of a call, or none.                          *)

DueIfFrozen(user, id) ==             \* mutant
    /\ agreements[id].beneficiary = user
    /\ now >= agreements[id].releaseTime

\* _validateAndDeleteAgreement
Due(user, id) ==
    /\ agreements[id].beneficiary = user
    /\ now >= agreements[id].releaseTime
    /\ ~agreements[id].isFrozen

Owed(coin, I) ==
    SumFunctionOnSet(
        [id \in Ids |-> IF agreements[id].asset = coin THEN agreements[id].amount ELSE 0], I)

PayOutDeletesLast(user, I) ==        \* mutant
    /\ ~frozen /\ I # {}
    /\ \A id \in I : Due(user, id)
    /\ held' = [c \in Coins |-> held[c] - Owed(c, I)]
    /\ wallet' = [wallet EXCEPT ![user] = [c \in Coins |-> @[c] + Owed(c, I)]]
    /\ nftHolder' = [t \in NFTs |-> IF \E id \in I : t \in agreements[id].tokens THEN user
                                    ELSE nftHolder[t]]
    /\ agreements' = [agreements EXCEPT ![Max(I)] = Deleted]
    /\ UNCHANGED <<agreementCount, frozen, whiteList, undelayed, strategyVars, now>>

PayOut(user, I) ==
    /\ ~frozen /\ I # {}
    /\ \A id \in I : Due(user, id)
    /\ held' = [c \in Coins |-> held[c] - Owed(c, I)]
    /\ wallet' = [wallet EXCEPT ![user] = [c \in Coins |-> @[c] + Owed(c, I)]]
    /\ nftHolder' = [t \in NFTs |-> IF \E id \in I : t \in agreements[id].tokens THEN user
                                    ELSE nftHolder[t]]
    /\ agreements' = [id \in Ids |-> IF id \in I THEN Deleted ELSE agreements[id]]
    /\ UNCHANGED <<agreementCount, frozen, whiteList, undelayed, strategyVars, now>>

Claim(user, I) == PayOut(user, I)

ClaimMoonBirds(user, I) == (\A id \in I : agreements[id].asset = MoonBirds) /\ PayOut(user, I)

ClaimETH(user, I) == (\A id \in I : agreements[id].asset = WETH) /\ PayOut(user, I)

ClaimPunk(user, I) == (\A id \in I : agreements[id].asset = WPunks) /\ PayOut(user, I)

-----------------------------------------------------------------------------
(* Administration.  Any id may be frozen: of a deleted agreement, or of    *)
(* one that does not exist yet and will not be frozen when it does.        *)

SetFrozen(id, value) ==
    /\ agreements' = [agreements EXCEPT ![id].isFrozen = value]
    /\ UNCHANGED <<agreementCount, frozen, whiteList, held, nftHolder, wallet, undelayed,
                   strategyVars, now>>

FreezeAgreement(id) == SetFrozen(id, TRUE)
UnfreezeAgreement(id) == SetFrozen(id, FALSE)

SetAllFrozen(value) ==
    /\ frozen' = value
    /\ UNCHANGED <<agreements, agreementCount, whiteList, held, nftHolder, wallet, undelayed,
                   strategyVars, now>>

FreezeAllAgreements == SetAllFrozen(TRUE)
UnfreezeAllAgreements == SetAllFrozen(FALSE)

\* A user of both lists is removed: the calls of AdminStep list nobody twice.
UpdateTimeLockWhiteList(toAdd, toRemove) ==
    /\ whiteList' = (whiteList \cup toAdd) \ toRemove
    /\ UNCHANGED <<agreements, agreementCount, frozen, held, nftHolder, wallet, undelayed,
                   strategyVars, now>>

-----------------------------------------------------------------------------

TimeLockInit ==
    /\ StrategyInit
    /\ agreements = [id \in Ids |-> Deleted]
    /\ agreementCount = 0
    /\ frozen = FALSE
    /\ whiteList = {}
    /\ held = [c \in Coins |-> 0]
    /\ nftHolder = [t \in NFTs |-> XToken]
    /\ wallet = [u \in Users |-> [c \in Coins |-> 0]]
    /\ undelayed = [a \in Assets |-> [s \in Times |-> 0]]

UserStep ==
    \E u \in Users :
        \/ \E c \in Coins, n \in Amounts : ReleaseCoins(u, c, n)
        \/ \E T \in SUBSET NFTs \ {{}} : \E a \in Assets \ Coins : ReleaseNFTs(u, a, T)
        \/ \E t \in NFTs : SupplyNFT(u, t)
        \/ \E I \in SUBSET Ids :
              Claim(u, I) \/ ClaimMoonBirds(u, I) \/ ClaimETH(u, I) \/ ClaimPunk(u, I)

AdminStep ==
    \/ \E id \in Ids : FreezeAgreement(id) \/ UnfreezeAgreement(id)
    \/ FreezeAllAgreements \/ UnfreezeAllAgreements
    \/ \E add \in SUBSET Users : \E remove \in SUBSET (Users \ add) :
          UpdateTimeLockWhiteList(add, remove)

Clock == Tick /\ UNCHANGED lockVars

TimeLockNext == UserStep \/ AdminStep \/ Clock

TimeLockSpec == TimeLockInit /\ [][TimeLockNext]_timeLockVars

\* Time passes, and the beneficiary of an agreement keeps claiming it.
TimeLockFairness ==
    /\ WF_timeLockVars(Clock)
    /\ \A id \in Ids : WF_timeLockVars(\E u \in Users : Claim(u, {id}))

FairTimeLockSpec == TimeLockSpec /\ TimeLockFairness

-----------------------------------------------------------------------------
(* Properties.                                                             *)

TimeLockTypeOK ==
    /\ StrategyTypeOK
    /\ agreements \in [Ids ->
          [beneficiary : Users \cup {NoOne}, asset : Assets \cup {NoOne}, amount : Nat,
           tokens : SUBSET NFTs, releaseTime : Nat, isFrozen : BOOLEAN]]
    /\ agreementCount \in 0 .. MaxAgreements
    /\ frozen \in BOOLEAN /\ whiteList \subseteq Users
    /\ held \in [Coins -> Nat]
    /\ nftHolder \in [NFTs -> Users \cup {XToken, Lock}]
    /\ wallet \in [Users -> [Coins -> Nat]]
    /\ undelayed \in [Assets -> [Times -> Nat]]

\* The TimeLock holds, of every coin, what its agreements owe.
CoinsBacked == \A c \in Coins : held[c] = Owed(c, Ids)

\* The agreements that name an NFT.
Naming(t) == {id \in Ids : Live(id) /\ t \in agreements[id].tokens}

\* Every NFT of the TimeLock is owed by one agreement, and by no more, and no
\* agreement owes an NFT that the TimeLock does not have, however often the
\* NFT is withdrawn, claimed and supplied again.
NFTsBacked ==
    \A t \in NFTs :
        /\ \A id1, id2 \in Naming(t) : id1 = id2
        /\ nftHolder[t] = Lock <=> Naming(t) # {}

\* The agreements that a step ends.
Ended == {id \in Ids : Live(id) /\ agreements'[id].beneficiary = NoOne}

\* Nothing but a freeze changes an agreement before it ends; it ends when it is
\* due and nothing is frozen; an NFT leaves for the beneficiary of one that ends.
KeepAgreements ==
    /\ \A id \in Ids \ Ended : Live(id) =>
          [agreements'[id] EXCEPT !.isFrozen = FALSE] = [agreements[id] EXCEPT !.isFrozen = FALSE]
    /\ \A id \in Ended : ~frozen /\ ~agreements[id].isFrozen /\ now >= agreements[id].releaseTime
    /\ \A t \in NFTs : nftHolder[t] = Lock /\ nftHolder'[t] # Lock =>
          \E id \in Ended : t \in agreements[id].tokens /\ nftHolder'[t] = agreements[id].beneficiary

\* An agreement that has been made is carried out as it was made, or not at
\* all, whatever is created, claimed, frozen and listed around it; its id is
\* never given to another (createAgreement, _validateAndDeleteAgreement).
AgreementsAreKept == [][KeepAgreements]_timeLockVars

\* A beneficiary receives, of every coin, what the agreements that end owe it,
\* and no more, however many of them a call claims.
PaidInFull ==
    [][\A u \in Users, c \in Coins :
          wallet'[u][c] - wallet[u][c] = Owed(c, {id \in Ended : agreements[id].beneficiary = u})
      ]_timeLockVars

\* Beneficiaries who are not listed never take out, in any stretch of time as long as a
\* period, more than twice the limit without the extra delay, however they share the period
\* with the listed ones, who do not wait for it and whose amounts count.  (The limit itself
\* is not kept: the period starts with a withdrawal, so that one just before its end and one
\* just after it both pass.)
WindowLimit ==
    \A a \in Assets : \A s \in Times :
        SumFunctionOnSet(undelayed[a], {t \in Times : t \in s .. s + Strategy[a].period - 1})
            <= 2 * Strategy[a].poolPeriodLimit

\* An agreement that nobody keeps frozen is paid to a beneficiary who claims
\* it: no other agreement, freeze or listing leaves it stuck for ever.
EventuallyPaid ==
    \A id \in Ids : ~<>[](Live(id) /\ ~agreements[id].isFrozen /\ ~frozen)

=============================================================================
