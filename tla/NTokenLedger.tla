---------------------------- MODULE NTokenLedger ----------------------------
(***************************************************************************)
(* The storage of an NToken, as MintableERC721Logic keeps it: next to the  *)
(* owners it maintains two enumerations with their inverse indexes (the    *)
(* tokens of an owner, all tokens) and two counters per user, all by hand. *)
(*                                                                         *)
(* mint, burn and batchSetIsUsedAsCollateral loop over a batch.  They read *)
(* the counters before the loop, address the enumerations by "cached       *)
(* balance plus or minus the loop index", and write the counters after the *)
(* loop.  The loops are modelled one iteration per step, so that what is   *)
(* true in between can be stated.  They belong to one transaction: nothing *)
(* else happens meanwhile, and a failure, here or in the Pool that called, *)
(* puts back what was there before.                                        *)
(*                                                                         *)
(* Seen from outside a transaction this implements NToken.                 *)
(***************************************************************************)
EXTENDS Integers, FiniteSets, Sequences

CONSTANTS
    Users,         \* accounts that may own NTokens
    Tokens,        \* token ids of the collection
    NoOwner,       \* address(0)
    NoToken,       \* a deleted slot of ownedTokens
    MaxBatch,      \* bound on the length of a batch
    MaxTime        \* bound on block.timestamp

ASSUME LedgerAssumption ==
    /\ NoOwner \notin Users
    /\ NoToken \notin Tokens
    /\ IsFiniteSet(Tokens)
    /\ MaxBatch \in Nat
    /\ MaxTime \in Nat \ {0}

VARIABLES
    data,                 \* MintableERC721Data
    tx,                   \* the loop in progress, with the data it started from
    auctionValidityTime,  \* UserConfigurationMap.auctionValidityTime (Pool)
    now                   \* block.timestamp

ledgerVars == <<data, tx, auctionValidityTime, now>>

-----------------------------------------------------------------------------

Slots == 0 .. Cardinality(Tokens)

\* The entries of MintableERC721Data this module is about.
Data ==
    [owners : [Tokens -> Users \cup {NoOwner}],
     ownedTokens : [Users -> [Slots -> Tokens \cup {NoToken}]],
     ownedTokensIndex : [Tokens -> Slots],
     allTokens : Seq(Tokens),
     allTokensIndex : [Tokens -> Slots],
     balance : [Users -> Slots],
     collateralizedBalance : [Users -> Slots],
     isUsedAsCollateral : SUBSET Tokens,
     startTime : [Tokens -> 0 .. MaxTime]]

EmptyData ==
    [owners |-> [t \in Tokens |-> NoOwner],
     ownedTokens |-> [u \in Users |-> [i \in Slots |-> NoToken]],
     ownedTokensIndex |-> [t \in Tokens |-> 0],
     allTokens |-> <<>>,
     allTokensIndex |-> [t \in Tokens |-> 0],
     balance |-> [u \in Users |-> 0],
     collateralizedBalance |-> [u \in Users |-> 0],
     isUsedAsCollateral |-> {},
     startTime |-> [t \in Tokens |-> 0]]

\* A loop: the storage it started from, its index, and the change of the
\* collateralized balance it has added up so far.  The tokens of the batch are
\* picked as the loop comes to them: no iteration looks at a later one.
Loop(op, user, use) ==
    [op |-> op, user |-> user, use |-> use, index |-> 0, delta |-> 0, before |-> data]

\* The counters of the user as the loop has cached them.
OldBalance == tx.before.balance[tx.user]
OldCollateralizedBalance == tx.before.collateralizedBalance[tx.user]
OldTotalSupply == Len(tx.before.allTokens)

Idle == [op |-> "idle"]

Exists(t) == data.owners[t] # NoOwner

ValidityTime(owner) ==
    IF owner \in Users THEN auctionValidityTime[owner] ELSE 0

IsAuctioned(t) == data.startTime[t] > ValidityTime(data.owners[t])

Count(cond) == IF cond THEN 1 ELSE 0

-----------------------------------------------------------------------------
(* The enumerations.  "length" is what the caller takes for the length.    *)

AddTokenToOwnerEnumeration(d, to, t, length) ==
    [d EXCEPT !.ownedTokens[to][length] = t, !.ownedTokensIndex[t] = length]

AddTokenToAllTokensEnumeration(d, t, length) ==
    [d EXCEPT !.allTokensIndex[t] = length, !.allTokens = Append(@, t)]

RemoveFromOwnerNoReindex(d, from, t, length) ==   \* mutant
    LET last == length - 1
        hole == d.ownedTokensIndex[t]
    IN  [d EXCEPT !.ownedTokens[from][hole] = d.ownedTokens[from][last],
                  !.ownedTokens[from][last] = NoToken,
                  !.ownedTokensIndex[t] = 0]

\* The last token moves into the hole, unless the hole is the last slot.
RemoveTokenFromOwnerEnumeration(d, from, t, length) ==
    LET last == length - 1
        hole == d.ownedTokensIndex[t]
        moved == d.ownedTokens[from][last]
        swapped == IF hole = last THEN d
                   ELSE [d EXCEPT !.ownedTokens[from][hole] = moved,
                                  !.ownedTokensIndex[moved] = hole]
    IN  [swapped EXCEPT !.ownedTokensIndex[t] = 0, !.ownedTokens[from][last] = NoToken]

\* Here the swap is always done (arrays of Solidity start at 0).
RemoveTokenFromAllTokensEnumeration(d, t, length) ==
    LET hole == d.allTokensIndex[t]
        moved == d.allTokens[length]
    IN  [d EXCEPT !.allTokens = SubSeq([@ EXCEPT ![hole + 1] = moved], 1, Len(@) - 1),
                  !.allTokensIndex = [@ EXCEPT ![moved] = hole, ![t] = 0]]

-----------------------------------------------------------------------------
(* The loops.                                                              *)

Begin(loop) ==
    /\ tx = Idle
    /\ tx' = loop
    /\ UNCHANGED <<data, auctionValidityTime, now>>

Iterate(newData, change) ==
    /\ tx.index < MaxBatch
    /\ data' = newData
    /\ tx' = [tx EXCEPT !.index = @ + 1, !.delta = @ + change]
    /\ UNCHANGED <<auctionValidityTime, now>>

Commit(newData) ==
    /\ data' = newData
    /\ tx' = Idle
    /\ UNCHANGED <<auctionValidityTime, now>>

\* executeMintMultiple.  The batch holds tokens with a useAsCollateral each.
MintOne(t, useAsCollateral) ==
    /\ tx.op = "mint"
    /\ LET marked == useAsCollateral /\ t \notin data.isUsedAsCollateral
           added == AddTokenToOwnerEnumeration(
                        AddTokenToAllTokensEnumeration(
                            data, t, OldTotalSupply + tx.index),
                        tx.user, t, OldBalance + tx.index)
       IN  /\ ~Exists(t)
           /\ Iterate([added EXCEPT !.owners[t] = tx.user,
                                    !.isUsedAsCollateral = @ \cup IF marked THEN {t} ELSE {}],
                      Count(marked))

FinishMint ==
    /\ tx.op = "mint"
    /\ Commit([data EXCEPT
                  !.balance[tx.user] = OldBalance + tx.index,
                  !.collateralizedBalance[tx.user] =
                      OldCollateralizedBalance + tx.delta])

BurnOneKeepsAuction(t) ==                            \* mutant
    /\ tx.op = "burn"
    /\ LET marked == t \in data.isUsedAsCollateral
           removed == RemoveTokenFromOwnerEnumeration(
                          RemoveTokenFromAllTokensEnumeration(
                              data, t, OldTotalSupply - tx.index),
                          tx.user, t, OldBalance - tx.index)
       IN  /\ data.owners[t] = tx.user /\ ~IsAuctioned(t)
           /\ Iterate([removed EXCEPT !.owners[t] = NoOwner, !.isUsedAsCollateral = @ \ {t}],
                      Count(marked))

\* executeBurnMultiple.
BurnOne(t) ==
    /\ tx.op = "burn"
    /\ LET marked == t \in data.isUsedAsCollateral
           removed == RemoveTokenFromOwnerEnumeration(
                          RemoveTokenFromAllTokensEnumeration(
                              data, t, OldTotalSupply - tx.index),
                          tx.user, t, OldBalance - tx.index)
       IN  /\ data.owners[t] = tx.user /\ ~IsAuctioned(t)
           /\ Iterate([removed EXCEPT !.owners[t] = NoOwner,
                                      !.isUsedAsCollateral = @ \ {t},
                                      !.startTime[t] = 0],
                      Count(marked))

FinishBurnAllMarked ==                            \* mutant
    /\ tx.op = "burn"
    /\ Commit([data EXCEPT
                  !.balance[tx.user] = OldBalance - tx.index,
                  !.collateralizedBalance[tx.user] =
                      OldCollateralizedBalance - tx.index])

FinishBurn ==
    /\ tx.op = "burn"
    /\ Commit([data EXCEPT
                  !.balance[tx.user] = OldBalance - tx.index,
                  !.collateralizedBalance[tx.user] =
                      OldCollateralizedBalance - tx.delta])

\* executeSetIsUsedAsCollateral, which writes the counter itself.
SetOne(t) ==
    /\ tx.op = "set"
    /\ LET owner == data.owners[t]
           use == tx.use
       IN  \/ /\ (t \in data.isUsedAsCollateral) = use
              /\ Iterate(data, 0)
           \/ /\ (t \in data.isUsedAsCollateral) # use
              /\ owner = tx.user
              /\ use \/ ~IsAuctioned(t)
              /\ Iterate([data EXCEPT
                             !.isUsedAsCollateral = IF use THEN @ \cup {t} ELSE @ \ {t},
                             !.collateralizedBalance[owner] = IF use THEN @ + 1 ELSE @ - 1],
                         0)

FinishSet ==
    /\ tx.op = "set"
    /\ Commit(data)

\* A require fails, or the Pool gives the transaction up.
Revert ==
    /\ tx # Idle
    /\ data' = tx.before
    /\ tx' = Idle
    /\ UNCHANGED <<auctionValidityTime, now>>

-----------------------------------------------------------------------------
(* The operations on one token.                                            *)

Write(newData) ==
    /\ tx = Idle
    /\ data' = newData
    /\ UNCHANGED <<tx, auctionValidityTime, now>>

\* executeTransferCollateralizable, executeTransfer.  In a transfer to oneself
\* the balance goes down and up again and nothing else is touched.
Transfer(from, to, t) ==
    LET marked == t \in data.isUsedAsCollateral
        moved == AddTokenToOwnerEnumeration(
                     RemoveTokenFromOwnerEnumeration(data, from, t, data.balance[from]),
                     to, t, data.balance[to])
    IN  /\ data.owners[t] = from
        /\ ~IsAuctioned(t)
        /\ Write(IF from = to THEN data
                 ELSE [moved EXCEPT !.balance[from] = @ - 1,
                                    !.balance[to] = @ + 1,
                                    !.collateralizedBalance[from] = @ - Count(marked),
                                    !.owners[t] = to,
                                    !.isUsedAsCollateral = @ \ {t},
                                    !.startTime[t] = 0])

StartAuction(t) ==
    /\ ~IsAuctioned(t) /\ Exists(t)
    /\ Write([data EXCEPT !.startTime[t] = now])

EndAuction(t) ==
    /\ IsAuctioned(t) /\ Exists(t)
    /\ Write([data EXCEPT !.startTime[t] = 0])

\* Between transactions: the Pool resets the auctions of a user, a block passes.
SetValidity(u) ==
    /\ tx = Idle
    /\ auctionValidityTime' = [auctionValidityTime EXCEPT ![u] = now]
    /\ UNCHANGED <<data, tx, now>>

Tick ==
    /\ tx = Idle /\ now < MaxTime
    /\ now' = now + 1
    /\ UNCHANGED <<data, tx, auctionValidityTime>>

-----------------------------------------------------------------------------

LedgerInit ==
    /\ data = EmptyData
    /\ tx = Idle
    /\ auctionValidityTime = [u \in Users |-> 0]
    /\ now = 1

LedgerNext ==
    \/ \E u \in Users :
          \/ Begin(Loop("mint", u, TRUE))
          \/ Begin(Loop("burn", u, FALSE))
          \/ \E use \in BOOLEAN : Begin(Loop("set", u, use))
          \/ SetValidity(u)
    \/ \E t \in Tokens :
          \/ \E useAsCollateral \in BOOLEAN : MintOne(t, useAsCollateral)
          \/ BurnOne(t)
          \/ SetOne(t)
    \/ FinishMint \/ FinishBurn \/ FinishSet
    \/ Revert
    \/ \E from, to \in Users, t \in Tokens : Transfer(from, to, t)
    \/ \E t \in Tokens : StartAuction(t) \/ EndAuction(t)
    \/ Tick

LedgerSpec == LedgerInit /\ [][LedgerNext]_ledgerVars

-----------------------------------------------------------------------------
(* Properties.                                                             *)

Owned(u) == {t \in Tokens : data.owners[t] = u}

\* How far a counter of u lags behind while a loop runs on u.
Pending(op, u, n) == IF tx.op = op /\ tx.user = u THEN n ELSE 0

OwnedLength(u) ==
    data.balance[u] + Pending("mint", u, tx.index) - Pending("burn", u, tx.index)

\* The two enumerations are exact, also between two iterations of a loop.
\* tokenOfOwnerByIndex: slots 0 .. length - 1 hold the tokens of the user, each
\* at the slot its index entry names, and no slot beyond is used, where the
\* length in a loop is balance plus or minus index.  tokenByIndex: allTokens
\* lists the supplied tokens, each at its index.  No index leaves its array.
EnumerationsExact ==
    /\ data \in Data
    /\ \A u \in Users :
          /\ \A t \in Owned(u) :
                /\ data.ownedTokensIndex[t] < OwnedLength(u)
                /\ data.ownedTokens[u][data.ownedTokensIndex[t]] = t
          /\ \A i \in Slots :
                IF i < OwnedLength(u)
                THEN /\ data.ownedTokens[u][i] \in Owned(u)
                     /\ data.ownedTokensIndex[data.ownedTokens[u][i]] = i
                ELSE data.ownedTokens[u][i] = NoToken
    /\ \A t \in Tokens : Exists(t) =>
          /\ data.allTokensIndex[t] < Len(data.allTokens)
          /\ data.allTokens[data.allTokensIndex[t] + 1] = t
    /\ \A i \in 1 .. Len(data.allTokens) :
          /\ Exists(data.allTokens[i])
          /\ data.allTokensIndex[data.allTokens[i]] = i - 1

\* The counters the Pool relies on (balanceOf, collateralizedBalanceOf, the
\* old and new counts that mint and burn return) count the tokens, loops
\* included.
CountersExact ==
    \A u \in Users :
        /\ OwnedLength(u) = Cardinality(Owned(u))
        /\ data.collateralizedBalance[u]
             + Pending("mint", u, tx.delta) - Pending("burn", u, tx.delta)
           = Cardinality(Owned(u) \cap data.isUsedAsCollateral)

\* What the rest of the protocol sees: the storage outside a transaction.
View == IF tx = Idle THEN data ELSE tx.before

Abstract == INSTANCE NToken WITH
    owners <- View.owners,
    isUsedAsCollateral <- View.isUsedAsCollateral,
    startTime <- View.startTime

\* The ledger implements NToken: a batch takes effect at once, at its commit,
\* or not at all.
ImplementsNToken == Abstract!NTokenSpec

=============================================================================
