---------------------------- MODULE NTokenRights ----------------------------
(***************************************************************************)
(* The rights an NToken holder hands out: approvals of ERC721, and         *)
(* delegations of a token to a hot wallet, which the NToken records        *)
(* (tokenDelegations) and registers, as the holder of the underlying, with *)
(* an external delegation registry.  A holder gives them and takes them    *)
(* back; they should end when the NToken changes hands or is burnt.        *)
(*                                                                         *)
(* The ownership underneath is NToken.  Marks and auctions neither read    *)
(* nor write a right, so they stand still here.                            *)
(***************************************************************************)
EXTENDS NToken

CONSTANT Delegates   \* hot wallets

ASSUME RightsAssumption == NoOwner \notin Delegates

VARIABLES
    tokenApprovals,     \* approved account by token, NoOwner if none
    operatorApprovals,  \* pairs <<owner, operator>>
    tokenDelegations,   \* recorded delegate by token, NoOwner if none
    registry            \* outgoing delegations of the NToken: <<delegate, token>>

rightsVars == <<tokenApprovals, operatorApprovals, tokenDelegations, registry>>
allVars == <<ntokenVars, rightsVars>>

-----------------------------------------------------------------------------

IsApprovedOrOwner(sender, t) ==
    /\ Exists(t)
    /\ \/ sender = owners[t]
       \/ <<owners[t], sender>> \in operatorApprovals
       \/ sender = tokenApprovals[t]

ClearApprovals(T) ==
    tokenApprovals' = [t \in Tokens |-> IF t \in T THEN NoOwner ELSE tokenApprovals[t]]

ForgetDelegations(T) ==              \* mutant
    /\ tokenDelegations' = [t \in Tokens |-> IF t \in T THEN NoOwner ELSE tokenDelegations[t]]
    /\ UNCHANGED registry

\* _updateTokenDelegation(.., recorded delegate, .., false) for each of T.
RevokeRecorded(T) ==
    /\ tokenDelegations' = [t \in Tokens |-> IF t \in T THEN NoOwner ELSE tokenDelegations[t]]
    /\ registry' = registry \ {<<tokenDelegations[t], t>> : t \in T}

-----------------------------------------------------------------------------
(* The holder's calls.                                                     *)

Approve(sender, to, t) ==
    /\ Exists(t) /\ to # owners[t]
    /\ sender = owners[t] \/ <<owners[t], sender>> \in operatorApprovals
    /\ tokenApprovals' = [tokenApprovals EXCEPT ![t] = to]
    /\ UNCHANGED <<operatorApprovals, tokenDelegations, registry, ntokenVars>>

SetApprovalForAll(owner, operator, approved) ==
    /\ owner # operator
    /\ operatorApprovals' = IF approved THEN operatorApprovals \cup {<<owner, operator>>}
                                        ELSE operatorApprovals \ {<<owner, operator>>}
    /\ UNCHANGED <<tokenApprovals, tokenDelegations, registry, ntokenVars>>

DelegateKeepsRecord(sender, delegate, T, value) ==   \* mutant
    /\ \A t \in T : owners[t] = sender /\ (value => tokenDelegations[t] = NoOwner)
    /\ IF value
       THEN /\ tokenDelegations' = [t \in Tokens |-> IF t \in T THEN delegate
                                                     ELSE tokenDelegations[t]]
            /\ registry' = registry \cup {<<delegate, t>> : t \in T}
       ELSE /\ UNCHANGED tokenDelegations
            /\ registry' = registry \ {<<delegate, t>> : t \in T}
    /\ UNCHANGED <<tokenApprovals, operatorApprovals, ntokenVars>>

\* delegateForToken.  A revocation takes the delegate of the call out of the
\* registry and deletes the record, whoever is recorded.
DelegateForToken(sender, delegate, T, value) ==
    /\ \A t \in T : owners[t] = sender /\ (value => tokenDelegations[t] = NoOwner)
    /\ tokenDelegations' = [t \in Tokens |-> IF t \notin T THEN tokenDelegations[t]
                                             ELSE IF value THEN delegate ELSE NoOwner]
    /\ registry' = IF value THEN registry \cup {<<delegate, t>> : t \in T}
                            ELSE registry \ {<<delegate, t>> : t \in T}
    /\ UNCHANGED <<tokenApprovals, operatorApprovals, ntokenVars>>

-----------------------------------------------------------------------------
(* The NToken moves.                                                       *)

MoveKeepsApproval(from, to, t) ==    \* mutant
    /\ Transfer(from, to, t, {})
    /\ UNCHANGED tokenApprovals
    /\ IF from # to THEN RevokeRecorded({t}) ELSE UNCHANGED <<tokenDelegations, registry>>
    /\ UNCHANGED <<operatorApprovals, auctionValidityTime, now>>

\* executeTransfer: a transfer to oneself clears the approval only.
Move(from, to, t) ==
    /\ Transfer(from, to, t, {})
    /\ ClearApprovals({t})
    /\ IF from # to THEN RevokeRecorded({t}) ELSE UNCHANGED <<tokenDelegations, registry>>
    /\ UNCHANGED <<operatorApprovals, auctionValidityTime, now>>

TransferFrom(sender, from, to, t) == IsApprovedOrOwner(sender, t) /\ Move(from, to, t)

\* The Pool sells the token.
TransferOnLiquidation(from, to, t) == Move(from, to, t)

Supply(to, T) ==
    /\ Mint(to, T, {})
    /\ UNCHANGED <<rightsVars, auctionValidityTime, now>>

\* executeBurnMultiple, for a withdrawal or a liquidation.
Withdraw(user, T) ==
    /\ Burn(user, T, {})
    /\ ClearApprovals(T)
    /\ RevokeRecorded(T)
    /\ UNCHANGED <<operatorApprovals, auctionValidityTime, now>>

-----------------------------------------------------------------------------

RightsInit ==
    /\ NTokenInit
    /\ tokenApprovals = [t \in Tokens |-> NoOwner]
    /\ operatorApprovals = {}
    /\ tokenDelegations = [t \in Tokens |-> NoOwner]
    /\ registry = {}

RightsNext ==
    \E u, v \in Users :
        \/ \E approved \in BOOLEAN : SetApprovalForAll(u, v, approved)
        \/ \E t \in Tokens :
              \/ \E to \in Users \cup {NoOwner} : Approve(u, to, t)
              \/ \E sender \in Users : TransferFrom(sender, u, v, t)
              \/ TransferOnLiquidation(u, v, t)
        \/ \E T \in SUBSET Tokens \ {{}} :
              \/ Supply(u, T)
              \/ Withdraw(u, T)
              \/ \E delegate \in Delegates, value \in BOOLEAN :
                    DelegateForToken(u, delegate, T, value)

RightsSpec == RightsInit /\ [][RightsNext]_allVars

-----------------------------------------------------------------------------
(* Properties.                                                             *)

\* Every variable keeps its type; no owner is approved for its own token.
RightsTypeOK ==
    /\ NTokenTypeOK
    /\ tokenApprovals \in [Tokens -> Users \cup {NoOwner}]
    /\ \A t \in Tokens : tokenApprovals[t] \in Users => tokenApprovals[t] # owners[t]
    /\ operatorApprovals \subseteq Users \X Users
    /\ tokenDelegations \in [Tokens -> Delegates \cup {NoOwner}]
    /\ registry \subseteq Delegates \X Tokens

\* An approval ends with the ownership it was given under, by whichever way
\* the token leaves, and a token comes in without one: who was approved by an
\* earlier holder cannot move the token of a later one.
ApprovalEndsWithOwnership ==
    [][\A t \in Tokens : owners'[t] # owners[t] => tokenApprovals'[t] = NoOwner]_allVars

\* The recorded delegate of a token is registered, and belongs to a supplied
\* token: otherwise nobody could be delegated (TOKEN_ALREADY_DELEGATED) for a
\* token whose delegate is not even active.
RecordedDelegationIsActive ==
    \A t \in Tokens : tokenDelegations[t] # NoOwner =>
        Exists(t) /\ <<tokenDelegations[t], t>> \in registry

\* Registered delegations that the NToken has no record of.
Orphans == {p \in registry : tokenDelegations[p[2]] # p[1]}

\* No transfer, burn or mint loses track of a delegation.  Only a holder does,
\* for a token it keeps, by revoking another delegate than the recorded one.
OnlyHoldersOrphan ==
    [][\A p \in Orphans' \ Orphans : UNCHANGED <<owners, tokenApprovals>>]_allVars

\* What the delegation tests of the repository state (TC-ntoken-delegation-04
\* and 05): once the token has changed hands, nobody is delegated for it.
DelegationEndsWithOwnership ==
    [][\A t \in Tokens : owners'[t] # owners[t] =>
          \A d \in Delegates : <<d, t>> \notin registry']_allVars

=============================================================================
