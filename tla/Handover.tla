------------------------------ MODULE Handover ------------------------------
(***************************************************************************)
(* The last step of a deployment, 23_renounceOwnership: the deployer hands *)
(* what it owns to the administrators of the market, one transaction after *)
(* the other.  Some rights are owned by one account, some are roles with   *)
(* members, and the conduit and the zone controller only note a potential  *)
(* owner, who has to accept.  The step can be run again, by any account    *)
(* and for other administrators; it returns at once when the address book  *)
(* belongs to the new administrator.                                       *)
(***************************************************************************)
EXTENDS Sequences, FiniteSets, Naturals

CONSTANTS
    Accounts, Deployer, NoAccount,
    Admins,        \* records [paraSpaceAdmin, emergencyAdmin, gatewayAdmin, riskAdmin]
    Deployments,   \* which of the contracts that the step asks the database for are there
    MaxFaults      \* how often the process dies or a transaction fails by accident

ASSUME HandoverAssumption ==
    /\ Deployer \in Accounts /\ NoAccount \notin Accounts
    /\ \A a \in Admins : {a.paraSpaceAdmin, a.emergencyAdmin, a.gatewayAdmin, a.riskAdmin}
                           \subseteq Accounts \ {Deployer}
    /\ MaxFaults \in Nat

\* 10_allAggregators deploys the floor oracle on every network.
ASSUME FloorOracleAssumption == \A d \in Deployments : "NFTFloorOracle" \in d

VARIABLES
    rights,       \* for every right the accounts that have it
    potential,    \* the accounts that may accept the conduit and the zone controller
    present,      \* a member of Deployments
    pc, call, signer, admins, old,   \* the run: where it is, for whom, the owner it found
    faults,
    interrupted,  \* the owners whose run stopped after its first transaction and before its last
    handedTo      \* the administrators of the runs that came to their end

run == <<pc, call, signer, admins, old>>
vars == <<rights, potential, present, run, faults, interrupted, handedTo>>

-----------------------------------------------------------------------------
Proxied == {"cAPE", "yAPE", "P2PPairStaking", "HelperContract", "TimeLockProxy"}
Accepted == {"conduit", "zoneController"}
ACLRoles == {"POOL_ADMIN", "ASSET_LISTING_ADMIN", "RISK_ADMIN", "EMERGENCY_ADMIN"}
OracleRoles == {"UPDATER", "NFTFloorOracle"}

\* The proxy admin of an upgradeable contract, and the owner of what is behind the proxy.
AdminOf(c) == <<"admin", c>>
OwnerOf(c) == <<"owner", c>>

Owned == {OwnerOf(c) : c \in {"registry", "provider", "reservesSetupHelper", "WETHGatewayProxy",
                              "WPunkGatewayProxy", "cAPE", "P2PPairStaking", "HelperContract"}
                             \union Accepted}
         \union {<<"aclAdmin", "provider">>}
         \union {AdminOf(c) : c \in Proxied}
Roles == {<<"role", r>> : r \in ACLRoles \union OracleRoles \union {"DEFAULT_ADMIN"}}

\* The role whose members grant and revoke a role.
RoleAdmin(r) == <<"role", IF r \in OracleRoles THEN "NFTFloorOracle" ELSE "DEFAULT_ADMIN">>

-----------------------------------------------------------------------------
\* The transactions: the right concerned, the account, and who may send them.
Call(kind, right, account, by) == [kind |-> kind, right |-> right, account |-> account, by |-> by]
Move(right, account) == Call("move", right, account, right)
Grant(r, account) == Call("grant", <<"role", r>>, account, RoleAdmin(r))
Revoke(r, account) == Call("revoke", <<"role", r>>, account, RoleAdmin(r))
Propose(c, account) == Call("propose", OwnerOf(c), account, OwnerOf(c))

\* What is sent only if the role is missing, or is there.
GrantUnlessHeld(r, a) == IF a \in rights[<<"role", r>>] THEN << >> ELSE << Grant(r, a) >>
RevokeIfHeld(r, a) == IF a \in rights[<<"role", r>>] THEN << Revoke(r, a) >> ELSE << >>

If(c, transaction) == IF c \in present THEN << transaction >> ELSE << >>

(* The calls of the script in their order.  Each is a sequence of one transaction, or of none *)
(* when it is not needed, which is decided when it is its turn.                              *)

AddressBook ==
    << << Move(OwnerOf("registry"), admins.paraSpaceAdmin) >>,
       << Call("move", <<"aclAdmin", "provider">>, admins.paraSpaceAdmin, OwnerOf("provider")) >>,
       << Move(OwnerOf("provider"), admins.paraSpaceAdmin) >> >>

\* (mutant: revoked before the new administrator has the role)
RolesRevokedFirst ==
    << << Grant("POOL_ADMIN", admins.paraSpaceAdmin) >>, << Revoke("POOL_ADMIN", old) >>,
       GrantUnlessHeld("ASSET_LISTING_ADMIN", admins.paraSpaceAdmin),
       RevokeIfHeld("ASSET_LISTING_ADMIN", old),
       GrantUnlessHeld("RISK_ADMIN", admins.riskAdmin), RevokeIfHeld("RISK_ADMIN", old),
       << Revoke("DEFAULT_ADMIN", old) >>, << Grant("DEFAULT_ADMIN", admins.paraSpaceAdmin) >> >>

ACLManagerRoles ==
    << << Grant("POOL_ADMIN", admins.paraSpaceAdmin) >>, << Revoke("POOL_ADMIN", old) >>,
       GrantUnlessHeld("ASSET_LISTING_ADMIN", admins.paraSpaceAdmin),
       RevokeIfHeld("ASSET_LISTING_ADMIN", old),
       GrantUnlessHeld("RISK_ADMIN", admins.riskAdmin), RevokeIfHeld("RISK_ADMIN", old),
       << Grant("DEFAULT_ADMIN", admins.paraSpaceAdmin) >>, << Revoke("DEFAULT_ADMIN", old) >> >>

SetupAndConduit ==
    << << Move(OwnerOf("reservesSetupHelper"), admins.paraSpaceAdmin) >>,
       << Propose("conduit", admins.paraSpaceAdmin) >>,
       << Propose("zoneController", admins.paraSpaceAdmin) >> >>

Gateways ==
    << If("WETHGatewayProxy", Move(OwnerOf("WETHGatewayProxy"), admins.gatewayAdmin)),
       If("WPunkGatewayProxy", Move(OwnerOf("WPunkGatewayProxy"), admins.gatewayAdmin)) >>

ApeVaults ==
    << If("yAPE", Move(AdminOf("yAPE"), admins.emergencyAdmin)),
       If("cAPE", Move(AdminOf("cAPE"), admins.emergencyAdmin)) >>

\* (mutant: the owner is changed whoever the proxy admin is)
OwnerAlwaysMoves(c) ==
    << If(c, Move(AdminOf(c), admins.paraSpaceAdmin)),
       If(c, Move(OwnerOf(c), admins.gatewayAdmin)) >>

\* (mutant: the owner goes first)
OwnerBeforeAdmin(c) ==
    << IF admins.gatewayAdmin # admins.paraSpaceAdmin
       THEN If(c, Move(OwnerOf(c), admins.gatewayAdmin)) ELSE << >>,
       If(c, Move(AdminOf(c), admins.paraSpaceAdmin)) >>

\* The proxy admin could not call what it owns, so the owner must be another account.
AdminAndOwner(c) ==
    << If(c, Move(AdminOf(c), admins.paraSpaceAdmin)),
       IF admins.gatewayAdmin # admins.paraSpaceAdmin
       THEN If(c, Move(OwnerOf(c), admins.gatewayAdmin)) ELSE << >> >>

TimeLockAdmin == << If("TimeLockProxy", Move(AdminOf("TimeLockProxy"), admins.paraSpaceAdmin)) >>

FloorOracleRoles ==
    << If("NFTFloorOracle", Grant("UPDATER", admins.paraSpaceAdmin)),
       If("NFTFloorOracle", Revoke("UPDATER", old)),
       If("NFTFloorOracle", Grant("NFTFloorOracle", admins.paraSpaceAdmin)),
       If("NFTFloorOracle", Revoke("NFTFloorOracle", old)) >>

Calls == AddressBook \o ACLManagerRoles \o SetupAndConduit \o Gateways \o ApeVaults
           \o AdminAndOwner("P2PPairStaking") \o AdminAndOwner("HelperContract")
           \o TimeLockAdmin \o FloorOracleRoles
-----------------------------------------------------------------------------
\* (mutant: the sender is not checked)
AcceptsAnyone(c) == c.right = OwnerOf("conduit") => c.account # potential["conduit"]

\* Whether a transaction of the signer goes through.  The admin of a proxy never gets past
\* the proxy, and everyone else never gets to the proxy's own functions.
Behind(right) == right[1] = "owner" /\ right[2] \in Proxied

Accepts(c) ==
    /\ signer \in rights[c.by]
    /\ Behind(c.right) => signer \notin rights[AdminOf(c.right[2])]
    /\ c.right = OwnerOf("conduit") => c.account # potential["conduit"]

Effect(c) ==
    /\ rights' = [rights EXCEPT ![c.right] =
                     CASE c.kind = "move" -> {c.account}
                       [] c.kind = "grant" -> @ \union {c.account}
                       [] c.kind = "revoke" -> @ \ {c.account}
                       [] c.kind = "propose" -> @]
    /\ potential' = IF c.kind = "propose"
                    THEN [potential EXCEPT ![c.right[2]] = c.account] ELSE potential

-----------------------------------------------------------------------------
\* What the deployment leaves: the deployer owns everything, the administrators it was
\* configured with have their roles.
InitialRights(a) ==
    [r \in Owned \union Roles |->
        CASE r = <<"role", "ASSET_LISTING_ADMIN">> -> {a.paraSpaceAdmin}
          [] r = <<"role", "RISK_ADMIN">> -> {a.riskAdmin}
          [] r = <<"role", "EMERGENCY_ADMIN">> -> {a.emergencyAdmin}
          [] OTHER -> {Deployer}]

Init ==
    /\ \E a \in Admins : rights = InitialRights(a) /\ admins = a
    /\ potential = [c \in Accepted |-> NoAccount]
    /\ present \in Deployments
    /\ pc = "idle" /\ call = 1 /\ signer = Deployer /\ old = Deployer
    /\ faults = 0 /\ interrupted = {} /\ handedTo = {}

Provider == OwnerOf("provider")

\* The script begins; another account's first transaction would fail.
Start(s, a) ==
    /\ pc # "run"
    /\ s \in rights[OwnerOf("registry")] \union rights[Provider]
    /\ signer' = s /\ admins' = a /\ call' = 1
    /\ \E o \in rights[Provider] : /\ old' = o
                                   /\ pc' = IF o = a.paraSpaceAdmin THEN "early" ELSE "run"
    /\ UNCHANGED <<rights, potential, present, faults, interrupted, handedTo>>

\* The transactions that are left, without those that are not needed.
Left(calls) ==
    {i \in call .. Len(calls) : calls[i] # << >>}

\* The next transaction is sent, or refused, which ends the process.
Step ==
    /\ pc = "run"
    /\ LET calls == Calls
           left == Left(calls)
       IN  \E turn \in left :
             /\ \A i \in left : turn <= i
             /\ IF Accepts(calls[turn][1])
                THEN Effect(calls[turn][1]) /\ call' = turn + 1 /\ UNCHANGED <<pc, interrupted>>
                ELSE /\ pc' = "aborted"
                     /\ interrupted' = IF call > 1 THEN interrupted \union {old} ELSE interrupted
                     /\ UNCHANGED <<rights, potential, call>>
    /\ UNCHANGED <<present, signer, admins, old, faults, handedTo>>

Finish ==
    /\ pc = "run" /\ Left(Calls) = {}
    /\ pc' = "complete" /\ handedTo' = handedTo \union {admins}
    /\ UNCHANGED <<rights, potential, present, call, signer, admins, old, faults, interrupted>>

\* The process dies, or a transaction fails by accident.  After the last transaction there is
\* nothing left to interrupt.
Crash ==
    /\ pc = "run" /\ Left(Calls) # {} /\ faults < MaxFaults
    /\ pc' = "aborted" /\ faults' = faults + 1
    /\ interrupted' = IF call > 1 THEN interrupted \union {old} ELSE interrupted
    /\ UNCHANGED <<rights, potential, present, call, signer, admins, old, handedTo>>

\* The new owner accepts the conduit, or the zone controller.
AcceptOwnership(c) ==
    /\ potential[c] # NoAccount
    /\ rights' = [rights EXCEPT ![OwnerOf(c)] = {potential[c]}]
    /\ potential' = [potential EXCEPT ![c] = NoAccount]
    /\ UNCHANGED <<present, run, faults, interrupted, handedTo>>

Next == \/ \E s \in Accounts, a \in Admins : Start(s, a)
        \/ Step \/ Finish \/ Crash
        \/ \E c \in Accepted : AcceptOwnership(c)

Spec == Init /\ [][Next]_vars
-----------------------------------------------------------------------------
Role(r) == <<"role", r>>

\* Every variable has the values the script can give it.
HandoverTypeOK ==
    /\ rights \in [Owned \union Roles -> SUBSET Accounts]
    /\ potential \in [Accepted -> Accounts \union {NoAccount}]
    /\ present \in Deployments
    /\ pc \in {"idle", "run", "early", "complete", "aborted"}
    /\ call \in Nat \ {0} /\ signer \in Accounts /\ admins \in Admins /\ old \in Accounts
    /\ faults \in 0 .. MaxFaults /\ interrupted \subseteq Accounts /\ handedTo \subseteq Admins

\* Whatever is interrupted and run again, for whomever: there is never a moment without an
\* account that can grant the roles of the ACLManager or of the floor oracle, without a pool
\* admin, or with a contract that has no owner or no admin.
AlwaysGoverned ==
    /\ \A r \in {"DEFAULT_ADMIN", "POOL_ADMIN", "NFTFloorOracle"} : rights[Role(r)] # {}
    /\ \A r \in Owned : Cardinality(rights[r]) = 1

\* What the old owner may keep when a run has come to its end: what the new one has to accept,
\* the owner of cAPE, the emergency admins, which were set by the deployment, and the owners
\* behind the proxies of the new one.
Leftovers ==
    {OwnerOf(c) : c \in Accepted \union {"cAPE"}} \union {<<"role", "EMERGENCY_ADMIN">>}
      \union (IF admins.gatewayAdmin = admins.paraSpaceAdmin
              THEN {OwnerOf("P2PPairStaking"), OwnerOf("HelperContract")} ELSE {})

Deployed(r) == r[2] \in present \union {"registry", "provider", "reservesSetupHelper"} \union Accepted
               \/ (r[1] = "role" /\ r[2] \in ACLRoles \union {"DEFAULT_ADMIN"})
               \/ (r[1] = "role" /\ "NFTFloorOracle" \in present)

\* A run that comes to its end has moved everything: the account it found as the owner has
\* nothing but the leftovers, and is offered as old owner of the conduit and the zone
\* controller; the administrators have their roles; and whoever owns an upgradeable contract
\* can reach it, not being its proxy admin.
CompleteHandover ==
    pc = "complete" =>
      /\ \A r \in Owned \union Roles : Deployed(r) /\ old \in rights[r] => r \in Leftovers
      /\ \A c \in Accepted : admins.paraSpaceAdmin \in rights[OwnerOf(c)] \union {potential[c]}
      /\ \A r \in {"DEFAULT_ADMIN", "POOL_ADMIN", "ASSET_LISTING_ADMIN"} :
            admins.paraSpaceAdmin \in rights[Role(r)]
      /\ admins.riskAdmin \in rights[Role("RISK_ADMIN")]
      /\ \A c \in {"cAPE", "P2PPairStaking", "HelperContract"} \cap present :
            rights[OwnerOf(c)] \cap rights[AdminOf(c)] = {}

\* The rights that a run gives to the same account.
OfParaSpaceAdmin ==
    {OwnerOf("registry"), Provider, <<"aclAdmin", "provider">>, OwnerOf("reservesSetupHelper"),
     Role("DEFAULT_ADMIN"), Role("POOL_ADMIN")}
      \union {AdminOf(c) : c \in {"P2PPairStaking", "HelperContract", "TimeLockProxy"} \cap present}
      \union {Role(r) : r \in OracleRoles \cap (IF "NFTFloorOracle" \in present THEN OracleRoles ELSE {})}

\* The script cannot repair what it left half done: a deployer whose run was interrupted keeps
\* some of the rights of the administrator, whoever runs the script again and for whom.
InterruptedIsNeverRepaired ==
    Deployer \in interrupted => \E r \in OfParaSpaceAdmin : Deployer \in rights[r]

\* A transaction is refused only after an interruption, or when the run is not the first: then the
\* account that runs it lacks what the earlier one gave to others, was offered and has not
\* accepted, or has not been given.
RefusalHasCause ==
    [][interrupted = {} /\ pc = "run" /\ pc' = "aborted" /\ faults' = faults =>
         \E a \in handedTo :
           \/ \E x \in {a.gatewayAdmin, a.emergencyAdmin} : x # a.paraSpaceAdmin
           \/ \E c \in Accepted : potential[c] # NoAccount
           \/ admins.gatewayAdmin # admins.paraSpaceAdmin]_vars
=============================================================================
