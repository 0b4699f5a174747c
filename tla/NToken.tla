------------------------------- MODULE NToken -------------------------------
(***************************************************************************)
(* What an NToken promises to the Pool: an ERC721 receipt ledger over the  *)
(* tokens of the supplied collections, with one "used as collateral" mark  *)
(* and at most one auction per token.                                      *)
(*                                                                         *)
(* This is the abstract view (owners as a function, no enumeration arrays, *)
(* no cached counters, batches in one step) that the Pool modules build    *)
(* on.  NTokenLedger is the storage-level view of the same contract and is *)
(* shown to implement the NTokenSpec of this module.                       *)
(*                                                                         *)
(* An auction is not a Boolean.  A token stores the time its auction       *)
(* started, its owner stores (in the Pool) the time since which auctions   *)
(* are valid, and the token is auctioned when the first is later than the  *)
(* second.                                                                 *)
(***************************************************************************)
EXTENDS Integers, FiniteSets

CONSTANTS
    Users,      \* accounts that may own NTokens
    Tokens,     \* token ids, of every supplied collection
    NoOwner,    \* address(0): the token is not supplied
    MaxTime     \* bound on block.timestamp

ASSUME NTokenAssumption ==
    /\ NoOwner \notin Users
    /\ IsFiniteSet(Tokens)
    /\ MaxTime \in Nat \ {0}

VARIABLES
    owners,               \* MintableERC721Data.owners
    isUsedAsCollateral,   \* the tokens whose isUsedAsCollateral entry is set
    startTime,            \* auctions[t].startTime, 0 when there is no record
    auctionValidityTime,  \* UserConfigurationMap.auctionValidityTime (Pool)
    now                   \* block.timestamp

tokenVars == <<owners, isUsedAsCollateral, startTime>>
ntokenVars == <<owners, isUsedAsCollateral, startTime, auctionValidityTime, now>>

-----------------------------------------------------------------------------

NTokenTypeOK ==
    /\ owners \in [Tokens -> Users \cup {NoOwner}]
    /\ isUsedAsCollateral \subseteq Tokens
    /\ startTime \in [Tokens -> 0 .. MaxTime]
    /\ auctionValidityTime \in [Users -> 0 .. MaxTime]
    /\ now \in 1 .. MaxTime

Exists(t) == owners[t] # NoOwner

Owned(u) == {t \in Tokens : owners[t] = u}

Collateralized(u) == {t \in isUsedAsCollateral : owners[t] = u}

\* getUserConfiguration(owner).auctionValidityTime; never set for address(0).
ValidityTime(owner) ==
    IF owner \in Users THEN auctionValidityTime[owner] ELSE 0

IsAuctioned(t) == startTime[t] > ValidityTime(owners[t])

-----------------------------------------------------------------------------
(* The operations.  Each says what happens to the token variables only.    *)

\* mint: the tokens of C, a part of T, become collateral.
Mint(to, T, C) ==
    /\ \A t \in T : ~Exists(t)
    /\ owners' = [t \in Tokens |-> IF t \in T THEN to ELSE owners[t]]
    /\ isUsedAsCollateral' = isUsedAsCollateral \cup C
    /\ UNCHANGED startTime

\* burn.  "ended" holds the tokens whose auction the transaction that burns
\* them has just ended.
Burn(user, T, ended) ==
    /\ \A t \in T : owners[t] = user /\ (t \in ended \/ ~IsAuctioned(t))
    /\ owners' = [t \in Tokens |-> IF t \in T THEN NoOwner ELSE owners[t]]
    /\ isUsedAsCollateral' = isUsedAsCollateral \ T
    /\ startTime' = [t \in Tokens |-> IF t \in T THEN 0 ELSE startTime[t]]

TransferKeepsAuction(from, to, t, ended) ==   \* mutant
    /\ owners[t] = from
    /\ t \in ended \/ ~IsAuctioned(t)
    /\ owners' = [owners EXCEPT ![t] = to]
    /\ isUsedAsCollateral' = IF from = to THEN isUsedAsCollateral
                             ELSE isUsedAsCollateral \ {t}
    /\ UNCHANGED startTime

\* _transfer and transferOnLiquidation.  A transfer to oneself changes nothing.
Transfer(from, to, t, ended) ==
    /\ owners[t] = from
    /\ t \in ended \/ ~IsAuctioned(t)
    /\ IF from = to
       THEN UNCHANGED tokenVars
       ELSE /\ owners' = [owners EXCEPT ![t] = to]
            /\ isUsedAsCollateral' = isUsedAsCollateral \ {t}
            /\ startTime' = [startTime EXCEPT ![t] = 0]

SetIsUsedInAuction(sender, T, use) ==         \* mutant
    /\ \A t \in T : (t \in isUsedAsCollateral) = use \/ owners[t] = sender
    /\ isUsedAsCollateral' = IF use THEN isUsedAsCollateral \cup T
                                    ELSE isUsedAsCollateral \ T
    /\ UNCHANGED <<owners, startTime>>

\* batchSetIsUsedAsCollateral: a token that already has the mark wanted is
\* skipped before its owner is looked at.
SetIsUsedAsCollateral(sender, T, use) ==
    /\ \A t \in T : \/ (t \in isUsedAsCollateral) = use
                    \/ owners[t] = sender /\ (use \/ ~IsAuctioned(t))
    /\ isUsedAsCollateral' = IF use THEN isUsedAsCollateral \cup T
                                    ELSE isUsedAsCollateral \ T
    /\ UNCHANGED <<owners, startTime>>

StartAuction(t) ==
    /\ ~IsAuctioned(t)
    /\ Exists(t)
    /\ startTime' = [startTime EXCEPT ![t] = now]
    /\ UNCHANGED <<owners, isUsedAsCollateral>>

EndAuction(t) ==
    /\ IsAuctioned(t)
    /\ Exists(t)
    /\ startTime' = [startTime EXCEPT ![t] = 0]
    /\ UNCHANGED <<owners, isUsedAsCollateral>>

-----------------------------------------------------------------------------
(* The ledger on its own: any caller the Pool lets through, any argument.  *)

NTokenInit ==
    /\ owners = [t \in Tokens |-> NoOwner]
    /\ isUsedAsCollateral = {}
    /\ startTime = [t \in Tokens |-> 0]
    /\ auctionValidityTime = [u \in Users |-> 0]
    /\ now = 1

TokenStep ==
    \/ \E u \in Users, T \in SUBSET Tokens :
          \/ \E C \in SUBSET T : Mint(u, T, C)
          \/ Burn(u, T, {})
          \/ \E use \in BOOLEAN : SetIsUsedAsCollateral(u, T, use)
    \/ \E from, to \in Users, t \in Tokens : Transfer(from, to, t, {})
    \/ \E t \in Tokens : StartAuction(t) \/ EndAuction(t)

\* The Pool invalidates the auctions of a user.
SetValidity(u) ==
    auctionValidityTime' = [auctionValidityTime EXCEPT ![u] = now]

Tick == now < MaxTime /\ now' = now + 1

NTokenNext ==
    \/ TokenStep /\ UNCHANGED <<auctionValidityTime, now>>
    \/ \E u \in Users : SetValidity(u) /\ UNCHANGED <<tokenVars, now>>
    \/ Tick /\ UNCHANGED <<tokenVars, auctionValidityTime>>

NTokenSpec == NTokenInit /\ [][NTokenNext]_ntokenVars
=============================================================================
