--------------------------- MODULE HandoverProofs ---------------------------
(***************************************************************************)
(* What holds of the handover however often it is interrupted and run      *)
(* again, by whomever and for whom: the market is never without the        *)
(* accounts that can govern it, a run that comes to its end has moved      *)
(* everything, an interrupted one is never repaired, and a transaction is  *)
(* only refused for a cause.                                               *)
(*                                                                         *)
(* Script is the list of all twenty-seven transactions.  A run sends those *)
(* that are wanted, in their order, and the inductive invariants say what  *)
(* each has achieved, and what its sender still needs, when the run is at  *)
(* a given call.                                                           *)
(***************************************************************************)
EXTENDS Handover, FiniteSetTheorems, TLAPS

Rights == Owned \union Roles

\* The roles that must not be left without a member.
Kept == {Role("DEFAULT_ADMIN"), Role("POOL_ADMIN"), Role("NFTFloorOracle")}

\* The transactions that the contracts know.
Transactions ==
    {c \in [kind : {"move", "grant", "revoke", "propose"}, right : Rights, account : Accounts,
            by : Rights] :
        /\ c.kind = "move" => c.right \in Owned
        /\ c.kind \in {"grant", "revoke"} => c.right \in Roles
        /\ c.kind = "propose" => \E x \in Accepted : c.right = OwnerOf(x)}

\* Every transaction that a run may send, at its place.
Script ==
    << Move(OwnerOf("registry"), admins.paraSpaceAdmin),
       Call("move", <<"aclAdmin", "provider">>, admins.paraSpaceAdmin, OwnerOf("provider")),
       Move(OwnerOf("provider"), admins.paraSpaceAdmin),
       Grant("POOL_ADMIN", admins.paraSpaceAdmin), Revoke("POOL_ADMIN", old),
       Grant("ASSET_LISTING_ADMIN", admins.paraSpaceAdmin), Revoke("ASSET_LISTING_ADMIN", old),
       Grant("RISK_ADMIN", admins.riskAdmin), Revoke("RISK_ADMIN", old),
       Grant("DEFAULT_ADMIN", admins.paraSpaceAdmin), Revoke("DEFAULT_ADMIN", old),
       Move(OwnerOf("reservesSetupHelper"), admins.paraSpaceAdmin),
       Propose("conduit", admins.paraSpaceAdmin), Propose("zoneController", admins.paraSpaceAdmin),
       Move(OwnerOf("WETHGatewayProxy"), admins.gatewayAdmin),
       Move(OwnerOf("WPunkGatewayProxy"), admins.gatewayAdmin),
       Move(AdminOf("yAPE"), admins.emergencyAdmin), Move(AdminOf("cAPE"), admins.emergencyAdmin),
       Move(AdminOf("P2PPairStaking"), admins.paraSpaceAdmin),
       Move(OwnerOf("P2PPairStaking"), admins.gatewayAdmin),
       Move(AdminOf("HelperContract"), admins.paraSpaceAdmin),
       Move(OwnerOf("HelperContract"), admins.gatewayAdmin),
       Move(AdminOf("TimeLockProxy"), admins.paraSpaceAdmin),
       Grant("UPDATER", admins.paraSpaceAdmin), Revoke("UPDATER", old),
       Grant("NFTFloorOracle", admins.paraSpaceAdmin), Revoke("NFTFloorOracle", old) >>

Places == 1 .. 27

\* Whether the contract of the i-th transaction was deployed, and whether the run wants it.
Present(i) ==
    /\ i = 15 => "WETHGatewayProxy" \in present
    /\ i = 16 => "WPunkGatewayProxy" \in present
    /\ i = 17 => "yAPE" \in present
    /\ i = 18 => "cAPE" \in present
    /\ i \in {19, 20} => "P2PPairStaking" \in present
    /\ i \in {21, 22} => "HelperContract" \in present
    /\ i = 23 => "TimeLockProxy" \in present
    /\ i \in 24 .. 27 => "NFTFloorOracle" \in present

Wanted(i) == Present(i) /\ (i \in {20, 22} => admins.gatewayAdmin # admins.paraSpaceAdmin)

\* What a transaction is for, of the rights R and the potential owners P.
AchievedIn(c, R, P) ==
    /\ c.kind = "move" => R[c.right] = {c.account}
    /\ c.kind = "grant" => c.account \in R[c.right]
    /\ c.kind = "revoke" => c.account \notin R[c.right]
    /\ c.kind = "propose" => \/ P[c.right[2]] = c.account
                             \/ P[c.right[2]] = NoAccount /\ c.account \in R[c.right]

\* The i-th transaction has done what it is for, or was not wanted.  What is given to the very
\* account that it is taken from afterwards does not count.
Settled(i) ==
    Wanted(i) /\ (Script[i].kind = "grant" => Script[i].account # old)
      => AchievedIn(Script[i], rights, potential)

-----------------------------------------------------------------------------
\* The script.

\* The administrators are accounts other than the deployer.
LEMMA AdminsAreAccounts ==
    ASSUME NEW a \in Admins
    PROVE  /\ {a.paraSpaceAdmin, a.emergencyAdmin, a.gatewayAdmin, a.riskAdmin} \subseteq Accounts
           /\ Deployer \notin {a.paraSpaceAdmin, a.emergencyAdmin, a.gatewayAdmin, a.riskAdmin}
           /\ NoAccount \notin Accounts
  BY HandoverAssumption

\* No right has both an owner and members.
LEMMA OwnedNoRole == \A r \in Owned : r \notin Roles
  BY DEF Roles, Owned, OwnerOf, AdminOf

\* The rights that the script is about are rights.
LEMMA ScriptRights ==
    \A i \in Places : /\ Script[i].right \in Rights /\ Script[i].by \in Rights
                      /\ Script[i].kind = "move" => Script[i].right \in Owned
                      /\ Script[i].kind \in {"grant", "revoke"} => Script[i].right \in Roles
                      /\ Script[i].kind = "propose" => \E x \in Accepted : Script[i].right = OwnerOf(x)
  <1>1. /\ \A c \in {"registry", "provider", "reservesSetupHelper", "WETHGatewayProxy",
                     "WPunkGatewayProxy", "P2PPairStaking", "HelperContract"} : OwnerOf(c) \in Owned
        /\ \A c \in Accepted : OwnerOf(c) \in Owned
        /\ \A c \in Proxied : AdminOf(c) \in Owned
        /\ <<"aclAdmin", "provider">> \in Owned
    BY DEF Owned, OwnerOf, AdminOf, Accepted, Proxied
  <1>2. \A r \in ACLRoles \union OracleRoles \union {"DEFAULT_ADMIN"} :
           <<"role", r>> \in Roles /\ RoleAdmin(r) \in Roles
    BY DEF Roles, RoleAdmin, ACLRoles, OracleRoles
  <1>. QED
    BY <1>1, <1>2, SMTT(60)
       DEF Places, Script, Move, Grant, Revoke, Propose, Call, Rights, Accepted, Proxied, ACLRoles,
           OracleRoles

\* A right is taken from the old owner, and given to an administrator.
LEMMA ScriptAccounts ==
    \A i \in Places :
       /\ Script[i].kind \in {"move", "grant", "revoke", "propose"}
       /\ Script[i].account = IF Script[i].kind = "revoke" THEN old
                              ELSE IF i = 8 THEN admins.riskAdmin
                              ELSE IF i \in {15, 16, 20, 22} THEN admins.gatewayAdmin
                              ELSE IF i \in {17, 18} THEN admins.emergencyAdmin
                              ELSE admins.paraSpaceAdmin
  BY SMTT(60) DEF Places, Script, Move, Grant, Revoke, Propose, Call

\* The transactions of a run are transactions.
LEMMA ScriptTransactions ==
    ASSUME HandoverTypeOK
    PROVE  \A i \in Places : Script[i] \in Transactions
  <1>1. \A i \in Places : Script[i].account \in Accounts
    BY ScriptAccounts, AdminsAreAccounts DEF HandoverTypeOK
  <1>2. \A i \in Places : Script[i] = [kind |-> Script[i].kind, right |-> Script[i].right,
                                       account |-> Script[i].account, by |-> Script[i].by]
    BY SMTT(60) DEF Places, Script, Move, Grant, Revoke, Propose, Call
  <1>3. ASSUME NEW i \in Places PROVE Script[i] \in Transactions
    <2>1. /\ Script[i].right \in Rights /\ Script[i].by \in Rights /\ Script[i].account \in Accounts
          /\ Script[i].kind \in {"move", "grant", "revoke", "propose"}
      BY <1>1, ScriptRights, ScriptAccounts
    <2>2. Script[i] \in [kind : {"move", "grant", "revoke", "propose"}, right : Rights,
                         account : Accounts, by : Rights]
      <3>1. \A k \in {"move", "grant", "revoke", "propose"}, r \in Rights, a \in Accounts, b \in Rights :
               [kind |-> k, right |-> r, account |-> a, by |-> b]
                 \in [kind : {"move", "grant", "revoke", "propose"}, right : Rights,
                      account : Accounts, by : Rights]
        OBVIOUS
      <3>2. [kind |-> Script[i].kind, right |-> Script[i].right, account |-> Script[i].account,
             by |-> Script[i].by]
              \in [kind : {"move", "grant", "revoke", "propose"}, right : Rights,
                   account : Accounts, by : Rights]
        BY <2>1, <3>1
      <3>. QED
        BY <1>2, <3>2
    <2>. QED
      BY <2>2, ScriptRights DEF Transactions
  <1>. QED
    BY <1>3

\* Two transactions of the script are about the same right only if the first gives a role that
\* the second takes from the old owner.
LEMMA ScriptOrder ==
    \A i, j \in Places : i < j /\ Script[i].right = Script[j].right
       => Script[i].kind = "grant" /\ Script[j].kind = "revoke"
  BY SMTT(60) DEF Places, Script, Move, Grant, Revoke, Propose, Call, OwnerOf, AdminOf

\* What a transaction needs to be sent, an earlier one at most gives.
LEMMA ScriptPowers ==
    \A i, j \in Places : i < j /\ Script[i].right = Script[j].by => Script[i].kind = "grant"
  BY SMTT(60) DEF Places, Script, Move, Grant, Revoke, Propose, Call, OwnerOf, AdminOf, RoleAdmin,
                  OracleRoles

\* While a run is about the same administrators, its script stays the same.
LEMMA ScriptStays ==
    ASSUME UNCHANGED <<admins, old, present>>
    PROVE  Script' = Script /\ \A i \in Places : (Wanted(i) <=> Wanted(i)') /\ (Present(i) <=> Present(i)')
  BY DEF Script, Wanted, Present

\* A run sends what is wanted.  It leaves out only roles that are as they should be.
LEMMA CallsAndScript ==
    ASSUME HandoverTypeOK
    PROVE  /\ Len(Calls) = 27
           /\ \A i \in Places :
                 /\ Calls[i] # << >> => Wanted(i) /\ Calls[i][1] = Script[i]
                 /\ Calls[i] = << >> /\ Wanted(i)
                      => i \in 6 .. 9 /\ AchievedIn(Script[i], rights, potential)
  <1>1. Len(Calls) = 27
    BY SMTT(60) DEF Calls, AddressBook, ACLManagerRoles, SetupAndConduit, Gateways, ApeVaults,
                    AdminAndOwner, TimeLockAdmin, FloorOracleRoles
  <1>2. \A i \in Places : Calls[i] # << >> => Wanted(i) /\ Calls[i][1] = Script[i]
    BY SMTT(120) DEF Places, Script, Wanted, Present, Calls, AddressBook, ACLManagerRoles,
                     SetupAndConduit, Gateways, ApeVaults, AdminAndOwner, TimeLockAdmin,
                     FloorOracleRoles, If, GrantUnlessHeld, RevokeIfHeld
  <1>3. \A i \in Places : Calls[i] = << >> /\ Wanted(i) => i \in 6 .. 9
    <2>1. \A i \in Places : i \notin 6 .. 9 /\ Wanted(i) => Calls[i] = << Script[i] >>
      BY SMTT(120) DEF Places, Script, Wanted, Present, Calls, AddressBook, ACLManagerRoles,
                       SetupAndConduit, Gateways, ApeVaults, AdminAndOwner, TimeLockAdmin,
                       FloorOracleRoles, If
    <2>2. \A c : << c >> # << >>
      OBVIOUS
    <2>. QED
      BY <2>1, <2>2, Zenon
  <1>4. /\ Calls[6] = GrantUnlessHeld("ASSET_LISTING_ADMIN", admins.paraSpaceAdmin)
        /\ Calls[7] = RevokeIfHeld("ASSET_LISTING_ADMIN", old)
        /\ Calls[8] = GrantUnlessHeld("RISK_ADMIN", admins.riskAdmin)
        /\ Calls[9] = RevokeIfHeld("RISK_ADMIN", old)
    BY SMTT(60) DEF Calls, AddressBook, ACLManagerRoles, SetupAndConduit, Gateways, ApeVaults,
                    AdminAndOwner, TimeLockAdmin, FloorOracleRoles
  <1>5. /\ Script[6] = Grant("ASSET_LISTING_ADMIN", admins.paraSpaceAdmin)
        /\ Script[7] = Revoke("ASSET_LISTING_ADMIN", old)
        /\ Script[8] = Grant("RISK_ADMIN", admins.riskAdmin)
        /\ Script[9] = Revoke("RISK_ADMIN", old)
    BY DEF Script
  <1>6. \A i \in 6 .. 9 : Calls[i] = << >> => AchievedIn(Script[i], rights, potential)
    BY <1>4, <1>5 DEF GrantUnlessHeld, RevokeIfHeld, AchievedIn, Grant, Revoke, Call
  <1>. QED
    BY <1>1, <1>2, <1>3, <1>6

-----------------------------------------------------------------------------
\* The inductive invariant of the runs.

\* Kept roles have members, and everything that has an owner has one.
Governed ==
    /\ \A r \in Kept : rights[r] # {}
    /\ \A r \in Owned : \E x \in Accounts : rights[r] = {x}

\* A run is not about its own owner, and everything before its next call is settled.
Progress ==
    pc \in {"run", "complete"} =>
      /\ old # admins.paraSpaceAdmin
      /\ \A i \in Places : (pc = "run" => i < call) => Settled(i)

IInv == HandoverTypeOK /\ Governed /\ Progress

\* What a step of a run is about: the t-th transaction.
Sending(t) ==
    /\ t \in Places /\ call <= t /\ Wanted(t)
    /\ \A i \in Places : i < t => Settled(i)
    /\ \A i \in Places : call <= i /\ i < t /\ Wanted(i) => i \in 6 .. 9

Sent(t) ==
    /\ Accepts(Script[t]) /\ Effect(Script[t]) /\ call' = t + 1
    /\ UNCHANGED <<pc, interrupted, present, signer, admins, old, faults, handedTo>>

Refused(t) ==
    /\ ~ Accepts(Script[t]) /\ pc' = "aborted"
    /\ interrupted' = IF call > 1 THEN interrupted \union {old} ELSE interrupted
    /\ UNCHANGED <<rights, potential, call, present, signer, admins, old, faults, handedTo>>

\* What is left of a run is among the twenty-seven places.
LEMMA LeftShape ==
    ASSUME HandoverTypeOK
    PROVE  \A i : i \in Left(Calls) <=> i \in Places /\ call <= i /\ Calls[i] # << >>
  <1>1. Len(Calls) = 27 /\ call \in Nat \ {0}
    BY CallsAndScript DEF HandoverTypeOK
  <1>2. \A i : i \in Left(Calls) <=> i \in call .. 27 /\ Calls[i] # << >>
    BY <1>1 DEF Left
  <1>3. \A i : i \in call .. 27 <=> i \in 1 .. 27 /\ call <= i
    BY <1>1
  <1>. QED
    BY <1>2, <1>3 DEF Places

\* A step sends the first transaction that is left, or has it refused.
LEMMA StepSends ==
    ASSUME IInv, Step
    PROVE  pc = "run" /\ \E t : Sending(t) /\ (Sent(t) \/ Refused(t))
  <1>1. HandoverTypeOK
    BY DEF IInv
  <1>2. PICK t \in Left(Calls) :
           /\ \A i \in Left(Calls) : t <= i
           /\ IF Accepts(Calls[t][1])
              THEN Effect(Calls[t][1]) /\ call' = t + 1 /\ UNCHANGED <<pc, interrupted>>
              ELSE /\ pc' = "aborted"
                   /\ interrupted' = IF call > 1 THEN interrupted \union {old} ELSE interrupted
                   /\ UNCHANGED <<rights, potential, call>>
    BY DEF Step
  <1>3. pc = "run" /\ UNCHANGED <<present, signer, admins, old, faults, handedTo>>
    BY DEF Step
  <1>4. t \in Places /\ call <= t /\ Calls[t] # << >> /\ call \in Nat
    BY <1>1, LeftShape DEF HandoverTypeOK
  <1>5. Wanted(t) /\ Calls[t][1] = Script[t]
    BY <1>1, <1>4, CallsAndScript
  <1>6. \A i \in Places : call <= i /\ i < t => Calls[i] = << >>
    <2>1. \A i, j \in Places : i < j => ~ (j <= i)
      BY DEF Places
    <2>. QED
      BY <1>1, <1>2, <1>4, <2>1, LeftShape
  <1>7. \A i \in Places : call <= i /\ i < t /\ Wanted(i)
           => i \in 6 .. 9 /\ AchievedIn(Script[i], rights, potential)
    BY <1>1, <1>6, CallsAndScript
  <1>8. \A i \in Places : i < t => Settled(i)
    <2>1. \A i \in Places : i < call => Settled(i)
      BY <1>3 DEF IInv, Progress
    <2>2. \A i \in Places : call <= i /\ i < t => Settled(i)
      BY <1>7 DEF Settled
    <2>3. \A i \in Places : i < call \/ call <= i
      <3>1. call \in Nat
        BY <1>4
      <3>. QED
        BY <3>1 DEF Places
    <2>. QED
      BY <2>1, <2>2, <2>3
  <1>9. Sending(t)
    BY <1>4, <1>5, <1>7, <1>8 DEF Sending
  <1>10. Sent(t) \/ Refused(t)
    BY <1>2, <1>3, <1>5 DEF Sent, Refused
  <1>. QED
    BY <1>3, <1>9, <1>10

\* When nothing is left everything is settled.
LEMMA NothingLeft ==
    ASSUME IInv, pc = "run", Left(Calls) = {}
    PROVE  \A i \in Places : Settled(i)
  <1>1. HandoverTypeOK /\ call \in Nat
    BY DEF IInv, HandoverTypeOK
  <1>2. \A i \in Places : i < call => Settled(i)
    BY DEF IInv, Progress
  <1>3. \A i \in Places : call <= i => Settled(i)
    BY <1>1, LeftShape, CallsAndScript DEF Settled
  <1>. QED
    BY <1>1, <1>2, <1>3 DEF Places

\* What a transaction does to the rights and to the potential owners.
LEMMA EffectOn ==
    ASSUME NEW c \in Transactions, HandoverTypeOK, Effect(c)
    PROVE  /\ rights' \in [Rights -> SUBSET Accounts]
           /\ potential' \in [Accepted -> Accounts \union {NoAccount}]
           /\ \A r \in Rights : r # c.right => rights'[r] = rights[r]
           /\ c.kind = "move" => rights'[c.right] = {c.account}
           /\ c.kind = "grant" => rights'[c.right] = rights[c.right] \union {c.account}
           /\ c.kind = "revoke" => rights'[c.right] = rights[c.right] \ {c.account}
           /\ c.kind = "propose" => rights'[c.right] = rights[c.right]
           /\ \A x \in Accepted : potential'[x] = IF c.kind = "propose" /\ c.right = OwnerOf(x)
                                                  THEN c.account ELSE potential[x]
           /\ AchievedIn(c, rights', potential')
  <1>1. /\ c.right \in Rights /\ c.account \in Accounts
        /\ c.kind \in {"move", "grant", "revoke", "propose"}
        /\ c.kind = "propose" => \E x \in Accepted : c.right = OwnerOf(x)
    BY DEF Transactions
  <1>2. /\ rights \in [Rights -> SUBSET Accounts]
        /\ potential \in [Accepted -> Accounts \union {NoAccount}]
    BY DEF HandoverTypeOK, Rights
  <1>3. /\ c.kind = "move" => rights' = [rights EXCEPT ![c.right] = {c.account}]
        /\ c.kind = "grant" => rights' = [rights EXCEPT ![c.right] = rights[c.right] \union {c.account}]
        /\ c.kind = "revoke" => rights' = [rights EXCEPT ![c.right] = rights[c.right] \ {c.account}]
        /\ c.kind = "propose" => rights' = rights
    BY <1>1, <1>2 DEF Effect
  <1>4. /\ rights' \in [Rights -> SUBSET Accounts]
        /\ \A r \in Rights : r # c.right => rights'[r] = rights[r]
        /\ c.kind = "move" => rights'[c.right] = {c.account}
        /\ c.kind = "grant" => rights'[c.right] = rights[c.right] \union {c.account}
        /\ c.kind = "revoke" => rights'[c.right] = rights[c.right] \ {c.account}
        /\ c.kind = "propose" => rights'[c.right] = rights[c.right]
    BY <1>1, <1>2, <1>3
  <1>5. \A x : OwnerOf(x)[2] = x
    BY DEF OwnerOf
  <1>6. /\ potential' \in [Accepted -> Accounts \union {NoAccount}]
        /\ \A x \in Accepted : potential'[x] = IF c.kind = "propose" /\ c.right = OwnerOf(x)
                                               THEN c.account ELSE potential[x]
    <2>1. CASE c.kind = "propose"
      <3>1. PICK y \in Accepted : c.right = OwnerOf(y)
        BY <1>1, <2>1
      <3>2. potential' = [potential EXCEPT ![y] = c.account]
        BY <1>5, <2>1, <3>1 DEF Effect
      <3>3. \A x \in Accepted : c.right = OwnerOf(x) <=> x = y
        BY <1>5, <3>1
      <3>. QED
        BY <1>1, <1>2, <2>1, <3>2, <3>3
    <2>2. CASE c.kind # "propose"
      BY <1>2, <2>2 DEF Effect
    <2>. QED
      BY <2>1, <2>2
  <1>7. AchievedIn(c, rights', potential')
    BY <1>1, <1>4, <1>5, <1>6 DEF AchievedIn
  <1>. QED
    BY <1>4, <1>6, <1>7

\* A transaction undoes nothing that another one has achieved, unless it takes a role from the
\* account that it was given to.
LEMMA AchievedStays ==
    ASSUME NEW c \in Transactions, NEW d \in Transactions, HandoverTypeOK, Effect(d),
           AchievedIn(c, rights, potential),
           c.right = d.right => c.kind = "grant" /\ d.kind = "revoke" /\ c.account # d.account
    PROVE  AchievedIn(c, rights', potential')
  <1>1. CASE c.right # d.right
    <2>1. c.right \in Rights /\ rights'[c.right] = rights[c.right]
      BY <1>1, EffectOn DEF Transactions
    <2>2. c.kind = "propose" => potential'[c.right[2]] = potential[c.right[2]]
      <3>1. \A x : OwnerOf(x)[2] = x
        BY DEF OwnerOf
      <3>2. c.kind = "propose" => \E x \in Accepted : c.right = OwnerOf(x)
        BY DEF Transactions
      <3>. QED
        BY <1>1, <3>1, <3>2, EffectOn
    <2>. QED
      BY <2>1, <2>2 DEF AchievedIn
  <1>2. CASE c.right = d.right
    BY <1>2, EffectOn DEF AchievedIn
  <1>. QED
    BY <1>1, <1>2

\* What is settled stays so until the run is over.
LEMMA SentSettles ==
    ASSUME IInv, NEW t, Sending(t), Sent(t)
    PROVE  \A i \in Places : i < t + 1 => Settled(i)'
  <1>1. HandoverTypeOK /\ \A i \in Places : Script[i] \in Transactions
    BY ScriptTransactions DEF IInv
  <1>2. t \in Places /\ Effect(Script[t]) /\ \A i \in Places : i < t => Settled(i)
    BY DEF Sending, Sent
  <1>3. /\ Script' = Script /\ old' = old
        /\ \A i \in Places : Wanted(i)' <=> Wanted(i)
    BY ScriptStays DEF Sent
  <1>4. ASSUME NEW i \in Places, i < t + 1, Wanted(i), Script[i].kind = "grant" => Script[i].account # old
        PROVE  AchievedIn(Script[i], rights', potential')
    <2>1. CASE i = t
      BY <1>1, <1>2, <2>1, EffectOn
    <2>2. CASE i # t
      <3>1. i < t
        BY <1>2, <1>4, <2>2 DEF Places
      <3>2. AchievedIn(Script[i], rights, potential)
        BY <1>2, <1>4, <3>1 DEF Settled
      <3>3. Script[i].right = Script[t].right
              => Script[i].kind = "grant" /\ Script[t].kind = "revoke" /\ Script[t].account = old
        BY <1>2, <3>1, ScriptOrder, ScriptAccounts
      <3>. QED
        BY <1>1, <1>2, <1>4, <3>2, <3>3, AchievedStays
    <2>. QED
      BY <2>1, <2>2
  <1>. QED
    BY <1>3, <1>4 DEF Settled

\* The deployment leaves everything to the deployer.
LEMMA InitIInv == Init => IInv
  <1>. SUFFICES ASSUME Init PROVE IInv
    OBVIOUS
  <1>1. PICK a \in Admins : rights = InitialRights(a) /\ admins = a
    BY DEF Init
  <1>2. /\ Deployer \in Accounts /\ a.paraSpaceAdmin \in Accounts
        /\ a.riskAdmin \in Accounts /\ a.emergencyAdmin \in Accounts
    BY HandoverAssumption, AdminsAreAccounts
  <1>3. \A r \in Owned \union Roles :
           rights[r] \in {{a.paraSpaceAdmin}, {a.riskAdmin}, {a.emergencyAdmin}, {Deployer}}
    BY <1>1 DEF InitialRights
  <1>4. rights \in [Owned \union Roles -> SUBSET Accounts]
    BY <1>1, <1>2, <1>3 DEF InitialRights
  <1>5. HandoverTypeOK
    BY <1>1, <1>2, <1>4, HandoverAssumption DEF Init, HandoverTypeOK
  <1>6. Kept \subseteq Roles
    BY DEF Kept, Roles, Role, OracleRoles, ACLRoles
  <1>7. Governed
    BY <1>2, <1>3, <1>6 DEF Governed
  <1>8. Progress
    BY DEF Init, Progress
  <1>. QED
    BY <1>5, <1>7, <1>8 DEF IInv

\* A run begins with its first call, and is over at once when it is about its own owner.
LEMMA StartKeepsIInv ==
    ASSUME NEW s \in Accounts, NEW a \in Admins, IInv, Start(s, a)
    PROVE  IInv'
  <1>1. PICK o \in rights[Provider] :
           old' = o /\ pc' = IF o = a.paraSpaceAdmin THEN "early" ELSE "run"
    BY DEF Start
  <1>2. Provider \in Owned
    BY DEF Owned, Provider, OwnerOf
  <1>3. o \in Accounts
    BY <1>2 DEF IInv, HandoverTypeOK
  <1>4. HandoverTypeOK'
    BY <1>1, <1>3 DEF IInv, HandoverTypeOK, Start
  <1>5. Governed'
    BY DEF IInv, Governed, Start
  <1>6. Progress'
    <2>1. call' = 1 /\ admins' = a
      BY DEF Start
    <2>2. \A i \in Places : ~ (i < 1)
      BY DEF Places
    <2>. QED
      BY <1>1, <2>1, <2>2 DEF Progress
  <1>. QED
    BY <1>4, <1>5, <1>6 DEF IInv

\* One transaction, sent.
LEMMA SentKeepsIInv ==
    ASSUME IInv, pc = "run", NEW t, Sending(t), Sent(t)
    PROVE  IInv'
  <1>1. HandoverTypeOK /\ Script[t] \in Transactions /\ Effect(Script[t]) /\ t \in Places
    BY ScriptTransactions DEF IInv, Sending, Sent
  <1>2. HandoverTypeOK'
    <2>1. /\ rights' \in [Rights -> SUBSET Accounts]
          /\ potential' \in [Accepted -> Accounts \union {NoAccount}]
      BY <1>1, EffectOn
    <2>. QED
      BY <1>1, <2>1 DEF HandoverTypeOK, Sent, Rights, Places
  <1>3. Governed'
    <2>1. \A r \in Owned : \E x \in Accounts : rights'[r] = {x}
      <3>. SUFFICES ASSUME NEW r \in Owned PROVE \E x \in Accounts : rights'[r] = {x}
        OBVIOUS
      <3>1. r \in Rights /\ r \notin Roles /\ \E x \in Accounts : rights[r] = {x}
        BY OwnedNoRole DEF Rights, IInv, Governed
      <3>2. /\ Script[t].kind \in {"move", "grant", "revoke", "propose"} /\ Script[t].account \in Accounts
            /\ Script[t].kind \in {"grant", "revoke"} => Script[t].right \in Roles
        BY <1>1 DEF Transactions
      <3>. QED
        BY <1>1, <3>1, <3>2, EffectOn
    <2>2. ASSUME NEW r \in Kept PROVE rights'[r] # {}
      <3>1. r \in Roles /\ r \in Rights /\ r \notin Owned /\ rights[r] # {}
        BY OwnedNoRole DEF Kept, Roles, Role, OracleRoles, ACLRoles, Rights, IInv, Governed
      <3>2. /\ Script[t].kind \in {"move", "grant", "revoke", "propose"}
            /\ Script[t].kind = "move" => Script[t].right \in Owned
        BY <1>1 DEF Transactions
      <3>3. CASE r = Script[t].right /\ Script[t].kind = "revoke"
        <4>1. /\ t - 1 \in Places /\ t - 1 < t /\ Script[t - 1].right = r
              /\ Script[t - 1].kind = "grant" /\ Script[t - 1].account = admins.paraSpaceAdmin
              /\ Wanted(t) => Wanted(t - 1)
          BY <1>1, <3>3, SMTT(60)
             DEF Kept, Role, Places, Script, Move, Grant, Revoke, Propose, Call, Wanted, Present
        <4>2. Settled(t - 1) /\ Wanted(t - 1) /\ Script[t].account = old
              /\ admins.paraSpaceAdmin # old
          BY <1>1, <3>3, <4>1, ScriptAccounts DEF Sending, IInv, Progress
        <4>3. admins.paraSpaceAdmin \in rights[r]
          BY <4>1, <4>2 DEF Settled, AchievedIn
        <4>. QED
          BY <1>1, <3>3, <4>2, <4>3, EffectOn
      <3>4. CASE ~ (r = Script[t].right /\ Script[t].kind = "revoke")
        BY <1>1, <3>1, <3>2, <3>4, EffectOn
      <3>. QED
        BY <3>3, <3>4
    <2>. QED
      BY <2>1, <2>2 DEF Governed
  <1>4. Progress'
    <2>1. \A i \in Places : i < t + 1 => Settled(i)'
      BY SentSettles
    <2>2. pc' = "run" /\ call' = t + 1 /\ old' = old /\ admins' = admins
      BY DEF Sent
    <2>. QED
      BY <2>1, <2>2 DEF Progress, IInv
  <1>. QED
    BY <1>2, <1>3, <1>4 DEF IInv

\* A run that is over has its rights untouched by the end, whichever it is.
LEMMA EndKeepsIInv ==
    ASSUME IInv, pc = "run", Finish \/ Crash \/ \E t : Refused(t)
    PROVE  IInv'
  <1>1. /\ UNCHANGED <<rights, potential, present, call, signer, admins, old>>
        /\ pc' \in {"complete", "aborted"} /\ interrupted' \subseteq Accounts
        /\ handedTo' \subseteq Admins
    BY DEF IInv, HandoverTypeOK, Finish, Crash, Refused
  <1>2. faults' \in 0 .. MaxFaults
    BY HandoverAssumption DEF IInv, HandoverTypeOK, Finish, Crash, Refused
  <1>3. HandoverTypeOK' /\ Governed'
    BY <1>1, <1>2 DEF IInv, HandoverTypeOK, Governed
  <1>4. Progress'
    <2>1. pc' = "complete" => \A i \in Places : Settled(i)
      BY <1>1, NothingLeft DEF Finish, Crash, Refused
    <2>2. \A i \in Places : Settled(i)' <=> Settled(i)
      BY <1>1, ScriptStays DEF Settled
    <2>. QED
      BY <1>1, <2>1, <2>2 DEF Progress, IInv
  <1>. QED
    BY <1>3, <1>4 DEF IInv

\* Whoever accepts takes the place of the only owner, and settles what was only proposed.
LEMMA AcceptOwnershipKeepsIInv ==
    ASSUME NEW x \in Accepted, IInv, AcceptOwnership(x)
    PROVE  IInv'
  <1>1. /\ rights \in [Rights -> SUBSET Accounts]
        /\ potential \in [Accepted -> Accounts \union {NoAccount}]
        /\ potential[x] \in Accounts
        /\ rights' = [rights EXCEPT ![OwnerOf(x)] = {potential[x]}]
        /\ potential' = [potential EXCEPT ![x] = NoAccount]
        /\ UNCHANGED <<present, pc, call, signer, admins, old, faults, interrupted, handedTo>>
    BY DEF IInv, HandoverTypeOK, Rights, AcceptOwnership, run
  <1>2. OwnerOf(x) \in Owned /\ OwnerOf(x) \in Rights /\ OwnerOf(x) \notin Roles
    BY OwnedNoRole DEF Owned, OwnerOf, Rights
  <1>3. /\ rights'[OwnerOf(x)] = {potential[x]} /\ potential'[x] = NoAccount
        /\ \A r \in Rights : r # OwnerOf(x) => rights'[r] = rights[r]
        /\ \A y \in Accepted : y # x => potential'[y] = potential[y]
    BY <1>1, <1>2
  <1>4. HandoverTypeOK'
    <2>1. rights' \in [Owned \union Roles -> SUBSET Accounts]
      BY <1>1 DEF Rights
    <2>. QED
      BY <1>1, <2>1 DEF IInv, HandoverTypeOK
  <1>5. Governed'
    <2>1. \A r \in Kept : r \in Roles /\ r \in Rights
      BY DEF Kept, Roles, Role, OracleRoles, ACLRoles, Rights
    <2>2. \A r \in Owned : r \in Rights
      BY DEF Rights
    <2>. QED
      BY <1>1, <1>2, <1>3, <2>1, <2>2 DEF IInv, Governed
  <1>6. Progress'
    <2>1. ASSUME NEW i \in Places, AchievedIn(Script[i], rights, potential)
          PROVE  AchievedIn(Script[i], rights', potential')
      <3>1. Script[i] \in Transactions
        BY ScriptTransactions DEF IInv
      <3>2. \A y : OwnerOf(y)[2] = y
        BY DEF OwnerOf
      <3>3. CASE Script[i].right = OwnerOf(x)
        <4>1. Script[i].kind = "propose"
          BY <3>3, SMTT(60) DEF Places, Script, Move, Grant, Revoke, Propose, Call, OwnerOf,
                                AdminOf, Accepted
        <4>. QED
          BY <1>1, <1>3, <2>1, <3>2, <3>3, <4>1, HandoverAssumption DEF AchievedIn
      <3>4. CASE Script[i].right # OwnerOf(x)
        <4>1. Script[i].right \in Rights /\ rights'[Script[i].right] = rights[Script[i].right]
          BY <1>3, <3>1, <3>4 DEF Transactions
        <4>2. Script[i].kind = "propose" => potential'[Script[i].right[2]] = potential[Script[i].right[2]]
          BY <1>3, <3>1, <3>2, <3>4 DEF Transactions
        <4>. QED
          BY <2>1, <4>1, <4>2 DEF AchievedIn
      <3>. QED
        BY <3>3, <3>4
    <2>2. Script' = Script /\ \A i \in Places : Wanted(i)' <=> Wanted(i)
      BY <1>1, ScriptStays
    <2>3. \A i \in Places : Settled(i) => Settled(i)'
      BY <1>1, <2>1, <2>2 DEF Settled
    <2>. QED
      BY <1>1, <2>3 DEF Progress, IInv
  <1>. QED
    BY <1>4, <1>5, <1>6 DEF IInv

\* What a step does.
LEMMA Steps ==
    ASSUME IInv, Next
    PROVE  \/ \E s \in Accounts, a \in Admins : Start(s, a)
           \/ pc = "run" /\ \E t : Sending(t) /\ Sent(t)
           \/ pc = "run" /\ \E t : Sending(t) /\ Refused(t)
           \/ pc = "run" /\ (Finish \/ Crash)
           \/ \E x \in Accepted : AcceptOwnership(x)
  BY StepSends DEF Next, Finish, Crash

\* Every step of the handover preserves the invariant.
LEMMA NextIInv == IInv /\ [Next]_vars => IInv'
  <1>. SUFFICES ASSUME IInv, [Next]_vars PROVE IInv'
    OBVIOUS
  <1>1. CASE Next
    BY <1>1, Steps, StartKeepsIInv, SentKeepsIInv, EndKeepsIInv, AcceptOwnershipKeepsIInv
  <1>2. CASE UNCHANGED vars
    <2>1. \A i \in Places : Settled(i)' <=> Settled(i)
      BY <1>2, ScriptStays DEF Settled, vars, run
    <2>. QED
      BY <1>2, <2>1 DEF vars, run, IInv, HandoverTypeOK, Governed, Progress
  <1>. QED
    BY <1>1, <1>2

\* The rights, the potential owners and the run have values of their types, whoever runs the
\* step how often, and wherever it is interrupted.
THEOREM HandoverTypeCorrect == Spec => []HandoverTypeOK
  <1>1. IInv => HandoverTypeOK
    BY DEF IInv
  <1>. QED
    BY <1>1, InitIInv, NextIInv, PTL DEF Spec

\* There is never a moment without a pool admin, without an account that can grant the roles of
\* the ACLManager and of the floor oracle, or with a contract that has no owner or no admin: for
\* any accounts, administrators and deployments, and any number of interruptions.
THEOREM AlwaysGovernedHolds == Spec => []AlwaysGoverned
  <1>1. IInv => AlwaysGoverned
    <2>1. \A x : Cardinality({x}) = 1
      BY FS_Singleton
    <2>. QED
      BY <2>1 DEF IInv, Governed, AlwaysGoverned, Kept
  <1>. QED
    BY <1>1, InitIInv, NextIInv, PTL DEF Spec

-----------------------------------------------------------------------------
\* A run that comes to its end.

\* The main administrator of one set of administrators has no place in another one: who runs
\* the script for others is not among them.
NoSharedAdmins ==
    \A a, b \in Admins : a # b =>
       a.paraSpaceAdmin \notin {b.paraSpaceAdmin, b.emergencyAdmin, b.gatewayAdmin, b.riskAdmin}

\* Where the owners come from that a run finds, and those it leaves behind the proxies.
Provenance ==
    /\ rights[Provider] \subseteq {Deployer} \union {a.paraSpaceAdmin : a \in Admins}
    /\ old \in {Deployer} \union {a.paraSpaceAdmin : a \in Admins}
    /\ \A x \in {"P2PPairStaking", "HelperContract"} :
          \A p \in rights[OwnerOf(x)] :
             \/ p = Deployer
             \/ \E a \in Admins : p = a.gatewayAdmin /\ a.gatewayAdmin # a.paraSpaceAdmin
    /\ rights[OwnerOf("cAPE")] \subseteq {Deployer}

\* The rights whose owners Provenance is about.
Traced == {Provider, OwnerOf("P2PPairStaking"), OwnerOf("HelperContract"), OwnerOf("cAPE")}

\* They are rights of other things than the conduit and the zone controller.
LEMMA TracedRights == Traced \subseteq Rights /\ \A x \in Accepted : OwnerOf(x) \notin Traced
  BY DEF Traced, Provider, OwnerOf, Accepted, Owned, Rights

\* The three transactions that move one of them.
LEMMA TracedPlaces ==
    /\ \A i \in Places : Script[i].right \in Traced => i \in {3, 20, 22}
    /\ \A i \in {3, 20, 22} : Script[i].kind = "move"
    /\ Script[3].right = Provider /\ Script[3].account = admins.paraSpaceAdmin
    /\ Script[20].right = OwnerOf("P2PPairStaking") /\ Script[20].account = admins.gatewayAdmin
    /\ Script[22].right = OwnerOf("HelperContract") /\ Script[22].account = admins.gatewayAdmin
  <1>1. \A i \in Places : Script[i].right \in Traced => i \in {3, 20, 22}
    BY SMTT(60) DEF Traced, Provider, Places, Script, Move, Grant, Revoke, Propose, Call, OwnerOf,
                    AdminOf
  <1>2. /\ Script[3] = Move(OwnerOf("provider"), admins.paraSpaceAdmin)
        /\ Script[20] = Move(OwnerOf("P2PPairStaking"), admins.gatewayAdmin)
        /\ Script[22] = Move(OwnerOf("HelperContract"), admins.gatewayAdmin)
    BY SMTT(60) DEF Script
  <1>. QED
    BY <1>1, <1>2 DEF Move, Call, Provider

\* Of the deployer, or of the administrators.
LEMMA NextProvenance == IInv /\ Provenance /\ [Next]_vars => Provenance'
  <1>. SUFFICES ASSUME IInv, Provenance, [Next]_vars PROVE Provenance'
    OBVIOUS
  <1>1. ASSUME \A r \in Traced : rights'[r] = rights[r], old' = old \/ old' \in rights[Provider]
        PROVE  Provenance'
    BY <1>1 DEF Provenance, Traced, Provider, OwnerOf
  <1>2. ASSUME NEW s \in Accounts, NEW a \in Admins, Start(s, a) PROVE Provenance'
    BY <1>1, <1>2 DEF Start
  <1>3. ASSUME UNCHANGED <<rights, old>> PROVE Provenance'
    BY <1>1, <1>3
  <1>4. ASSUME NEW x \in Accepted, AcceptOwnership(x) PROVE Provenance'
    <2>1. \A r \in Traced : rights'[r] = rights[r]
      BY <1>4, TracedRights DEF AcceptOwnership, IInv, HandoverTypeOK, Rights
    <2>2. old' = old
      BY <1>4 DEF AcceptOwnership, run
    <2>. QED
      BY <1>1, <2>1, <2>2
  <1>5. ASSUME NEW t, Sending(t), Sent(t) PROVE Provenance'
    <2>1. /\ HandoverTypeOK /\ Script[t] \in Transactions /\ Effect(Script[t]) /\ t \in Places
          /\ old' = old /\ admins \in Admins /\ Wanted(t)
      BY <1>5, ScriptTransactions DEF IInv, HandoverTypeOK, Sending, Sent
    <2>2. CASE Script[t].right \notin Traced
      <3>1. \A r \in Traced : rights'[r] = rights[r]
        BY <2>1, <2>2, EffectOn, TracedRights
      <3>. QED
        BY <1>1, <2>1, <3>1
    <2>3. CASE Script[t].right \in Traced
      <3>1. /\ Script[t].kind = "move"
            /\ \/ t = 3 /\ Script[t].right = Provider /\ Script[t].account = admins.paraSpaceAdmin
               \/ t \in {20, 22} /\ Script[t].account = admins.gatewayAdmin
                   /\ Script[t].right \in {OwnerOf("P2PPairStaking"), OwnerOf("HelperContract")}
        BY <2>1, <2>3, TracedPlaces
      <3>2. /\ rights'[Script[t].right] = {Script[t].account}
            /\ \A r \in Traced : r # Script[t].right => rights'[r] = rights[r]
        BY <2>1, <3>1, EffectOn, TracedRights
      <3>3. t \in {20, 22} => admins.gatewayAdmin # admins.paraSpaceAdmin
        BY <2>1 DEF Wanted
      <3>4. /\ Provider \notin {OwnerOf("P2PPairStaking"), OwnerOf("HelperContract"), OwnerOf("cAPE")}
            /\ OwnerOf("cAPE") \notin {OwnerOf("P2PPairStaking"), OwnerOf("HelperContract")}
        BY DEF Provider, OwnerOf
      <3>. QED
        BY <2>1, <3>1, <3>2, <3>3, <3>4 DEF Provenance, Traced
    <2>. QED
      BY <2>2, <2>3
  <1>6. CASE Next
    <2>1. ASSUME Finish \/ Crash \/ \E t : Refused(t) PROVE UNCHANGED <<rights, old>>
      BY <2>1 DEF Finish, Crash, Refused
    <2>. QED
      BY <1>2, <1>3, <1>4, <1>5, <1>6, <2>1, Steps
  <1>7. CASE UNCHANGED vars
    BY <1>3, <1>7 DEF vars, run
  <1>. QED
    BY <1>6, <1>7

\* Initially everything is the deployer's.
LEMMA InitProvenance == Init => Provenance
  <1>. SUFFICES ASSUME Init PROVE Provenance
    OBVIOUS
  <1>1. \A r \in Traced : rights[r] = {Deployer}
    <2>1. \A r \in Traced : r \in Owned \union Roles /\ r[1] # "role"
      BY TracedRights DEF Traced, Provider, OwnerOf, Rights
    <2>. QED
      BY <2>1 DEF Init, InitialRights
  <1>2. old = Deployer
    BY DEF Init
  <1>. QED
    BY <1>1, <1>2 DEF Provenance, Traced

\* What the old owner does not have when everything is settled.
LEMMA OldOwnerIsOut ==
    ASSUME \A i \in Places : Wanted(i) /\ Script[i].kind \in {"move", "revoke"}
             => old \notin rights[Script[i].right]
    PROVE  /\ \A c \in {"registry", "provider", "reservesSetupHelper"} : old \notin rights[OwnerOf(c)]
           /\ old \notin rights[<<"aclAdmin", "provider">>]
           /\ \A c \in {"WETHGatewayProxy", "WPunkGatewayProxy"} \cap present :
                 old \notin rights[OwnerOf(c)]
           /\ \A c \in Proxied \cap present : old \notin rights[AdminOf(c)]
           /\ admins.gatewayAdmin # admins.paraSpaceAdmin =>
                 \A c \in {"P2PPairStaking", "HelperContract"} \cap present :
                    old \notin rights[OwnerOf(c)]
           /\ \A r \in {"POOL_ADMIN", "ASSET_LISTING_ADMIN", "RISK_ADMIN", "DEFAULT_ADMIN"} :
                 old \notin rights[Role(r)]
           /\ "NFTFloorOracle" \in present => \A r \in OracleRoles : old \notin rights[Role(r)]
  <1>1. /\ \A i \in {1, 2, 3, 12} \union 15 .. 23 : i \in Places /\ Script[i].kind = "move"
        /\ \A i \in {5, 7, 9, 11, 25, 27} : i \in Places /\ Script[i].kind = "revoke"
    BY SMTT(60) DEF Places, Script, Move, Grant, Revoke, Propose, Call
  <1>2. /\ Script[1].right = OwnerOf("registry") /\ Script[2].right = <<"aclAdmin", "provider">>
        /\ Script[3].right = OwnerOf("provider") /\ Script[12].right = OwnerOf("reservesSetupHelper")
        /\ Script[15].right = OwnerOf("WETHGatewayProxy")
        /\ Script[16].right = OwnerOf("WPunkGatewayProxy")
        /\ Script[17].right = AdminOf("yAPE") /\ Script[18].right = AdminOf("cAPE")
        /\ Script[19].right = AdminOf("P2PPairStaking") /\ Script[20].right = OwnerOf("P2PPairStaking")
        /\ Script[21].right = AdminOf("HelperContract") /\ Script[22].right = OwnerOf("HelperContract")
        /\ Script[23].right = AdminOf("TimeLockProxy")
    BY SMTT(60) DEF Script, Move, Propose, Call
  <1>3. /\ Script[5].right = Role("POOL_ADMIN") /\ Script[7].right = Role("ASSET_LISTING_ADMIN")
        /\ Script[9].right = Role("RISK_ADMIN") /\ Script[11].right = Role("DEFAULT_ADMIN")
        /\ Script[25].right = Role("UPDATER") /\ Script[27].right = Role("NFTFloorOracle")
    BY SMTT(60) DEF Script, Revoke, Call, Role
  <1>4. /\ \A i \in {1, 2, 3, 5, 7, 9, 11, 12} : Wanted(i)
        /\ "WETHGatewayProxy" \in present => Wanted(15)
        /\ "WPunkGatewayProxy" \in present => Wanted(16)
        /\ "yAPE" \in present => Wanted(17)
        /\ "cAPE" \in present => Wanted(18)
        /\ "P2PPairStaking" \in present
             => Wanted(19) /\ (admins.gatewayAdmin # admins.paraSpaceAdmin => Wanted(20))
        /\ "HelperContract" \in present
             => Wanted(21) /\ (admins.gatewayAdmin # admins.paraSpaceAdmin => Wanted(22))
        /\ "TimeLockProxy" \in present => Wanted(23)
        /\ "NFTFloorOracle" \in present => Wanted(25) /\ Wanted(27)
    BY SMTT(60) DEF Wanted, Present
  <1>. QED
    BY <1>1, <1>2, <1>3, <1>4, SMTT(60) DEF Proxied, OracleRoles

\* Where everything is settled, and nobody is in two sets of administrators, the old owner has
\* nothing but the leftovers and the administrators have what the run is for.
LEMMA CompleteIsComplete == IInv /\ Provenance /\ NoSharedAdmins => CompleteHandover
  <1>. SUFFICES ASSUME IInv, Provenance, NoSharedAdmins, pc = "complete" PROVE CompleteHandover
    BY DEF CompleteHandover
  <1>1. admins \in Admins /\ old # admins.paraSpaceAdmin /\ HandoverTypeOK
    BY DEF IInv, HandoverTypeOK, Progress
  <1>2. old \notin {admins.paraSpaceAdmin, admins.emergencyAdmin, admins.gatewayAdmin, admins.riskAdmin}
    BY <1>1, AdminsAreAccounts DEF Provenance, NoSharedAdmins
  <1>3. \A i \in Places : Wanted(i) => AchievedIn(Script[i], rights, potential)
    <2>1. \A i \in Places : Script[i].kind = "grant" => Script[i].account # old
      BY <1>2, ScriptAccounts
    <2>. QED
      BY <2>1 DEF IInv, Progress, Settled
  <1>4. \A i \in Places : Wanted(i) /\ Script[i].kind \in {"move", "revoke"}
           => old \notin rights[Script[i].right]
    BY <1>2, <1>3, ScriptAccounts DEF AchievedIn
  <1>5. \A r \in Owned \union Roles : Deployed(r) /\ old \in rights[r] => r \in Leftovers
    <2>. SUFFICES ASSUME NEW r \in Owned \union Roles, Deployed(r), old \in rights[r]
                  PROVE  r \in Leftovers
      OBVIOUS
    <2>1. CASE \E c \in {"registry", "provider", "reservesSetupHelper"} : r = OwnerOf(c)
      BY <1>4, <2>1, OldOwnerIsOut
    <2>2. CASE \E c \in {"WETHGatewayProxy", "WPunkGatewayProxy"} : r = OwnerOf(c)
      BY <1>4, <2>2, OldOwnerIsOut DEF Deployed, OwnerOf, Accepted
    <2>3. CASE \E c \in {"P2PPairStaking", "HelperContract"} : r = OwnerOf(c)
      BY <1>4, <2>3, OldOwnerIsOut DEF Deployed, OwnerOf, Accepted, Leftovers
    <2>4. CASE \E c \in Accepted \union {"cAPE"} : r = OwnerOf(c)
      BY <2>4 DEF Leftovers
    <2>5. CASE r = <<"aclAdmin", "provider">>
      BY <1>4, <2>5, OldOwnerIsOut
    <2>6. CASE \E c \in Proxied : r = AdminOf(c)
      BY <1>4, <2>6, OldOwnerIsOut DEF Deployed, AdminOf, Accepted, Proxied
    <2>7. CASE \E x \in {"POOL_ADMIN", "ASSET_LISTING_ADMIN", "RISK_ADMIN", "DEFAULT_ADMIN"} : r = Role(x)
      BY <1>4, <2>7, OldOwnerIsOut
    <2>8. CASE r = Role("EMERGENCY_ADMIN")
      BY <2>8 DEF Leftovers, Role
    <2>9. CASE \E x \in OracleRoles : r = Role(x)
      <3>1. r[1] = "role" /\ r[2] \in OracleRoles
        BY <2>9 DEF Role
      <3>2. "NFTFloorOracle" \in present
        BY <3>1, <1>1, FloorOracleAssumption DEF HandoverTypeOK
      <3>. QED
        BY <1>4, <2>9, <3>2, OldOwnerIsOut
    <2>. QED
      BY <2>1, <2>2, <2>3, <2>4, <2>5, <2>6, <2>7, <2>8, <2>9
         DEF Owned, Roles, Role, Accepted, ACLRoles, OracleRoles
  <1>6. \A c \in Accepted : admins.paraSpaceAdmin \in rights[OwnerOf(c)] \union {potential[c]}
    <2>1. /\ AchievedIn(Propose("conduit", admins.paraSpaceAdmin), rights, potential)
          /\ AchievedIn(Propose("zoneController", admins.paraSpaceAdmin), rights, potential)
      <3>1. 13 \in Places /\ 14 \in Places /\ Wanted(13) /\ Wanted(14)
        BY DEF Places, Wanted, Present
      <3>2. /\ Script[13] = Propose("conduit", admins.paraSpaceAdmin)
            /\ Script[14] = Propose("zoneController", admins.paraSpaceAdmin)
        BY DEF Script
      <3>. QED
        BY <1>3, <3>1, <3>2
    <2>. QED
      BY <2>1 DEF AchievedIn, Propose, Call, OwnerOf, Accepted
  <1>7. /\ \A r \in {"DEFAULT_ADMIN", "POOL_ADMIN", "ASSET_LISTING_ADMIN"} :
              admins.paraSpaceAdmin \in rights[Role(r)]
        /\ admins.riskAdmin \in rights[Role("RISK_ADMIN")]
    <2>1. \A i \in {4, 6, 8, 10} : i \in Places /\ Wanted(i)
      BY DEF Places, Wanted, Present
    <2>2. /\ Script[4] = Grant("POOL_ADMIN", admins.paraSpaceAdmin)
          /\ Script[6] = Grant("ASSET_LISTING_ADMIN", admins.paraSpaceAdmin)
          /\ Script[8] = Grant("RISK_ADMIN", admins.riskAdmin)
          /\ Script[10] = Grant("DEFAULT_ADMIN", admins.paraSpaceAdmin)
      BY DEF Script
    <2>3. /\ AchievedIn(Grant("POOL_ADMIN", admins.paraSpaceAdmin), rights, potential)
          /\ AchievedIn(Grant("ASSET_LISTING_ADMIN", admins.paraSpaceAdmin), rights, potential)
          /\ AchievedIn(Grant("RISK_ADMIN", admins.riskAdmin), rights, potential)
          /\ AchievedIn(Grant("DEFAULT_ADMIN", admins.paraSpaceAdmin), rights, potential)
      BY <1>3, <2>1, <2>2
    <2>. QED
      BY <2>3 DEF AchievedIn, Grant, Call, Role
  <1>8. \A c \in {"cAPE", "P2PPairStaking", "HelperContract"} \cap present :
           rights[OwnerOf(c)] \cap rights[AdminOf(c)] = {}
    <2>1. /\ "cAPE" \in present => rights[AdminOf("cAPE")] = {admins.emergencyAdmin}
          /\ "P2PPairStaking" \in present =>
                /\ rights[AdminOf("P2PPairStaking")] = {admins.paraSpaceAdmin}
                /\ admins.gatewayAdmin # admins.paraSpaceAdmin
                     => rights[OwnerOf("P2PPairStaking")] = {admins.gatewayAdmin}
          /\ "HelperContract" \in present =>
                /\ rights[AdminOf("HelperContract")] = {admins.paraSpaceAdmin}
                /\ admins.gatewayAdmin # admins.paraSpaceAdmin
                     => rights[OwnerOf("HelperContract")] = {admins.gatewayAdmin}
      <3>1. /\ Script[18] = Move(AdminOf("cAPE"), admins.emergencyAdmin)
            /\ Script[19] = Move(AdminOf("P2PPairStaking"), admins.paraSpaceAdmin)
            /\ Script[20] = Move(OwnerOf("P2PPairStaking"), admins.gatewayAdmin)
            /\ Script[21] = Move(AdminOf("HelperContract"), admins.paraSpaceAdmin)
            /\ Script[22] = Move(OwnerOf("HelperContract"), admins.gatewayAdmin)
        BY DEF Script
      <3>2. /\ \A i \in {18, 19, 20, 21, 22} : i \in Places
            /\ "cAPE" \in present => Wanted(18)
            /\ "P2PPairStaking" \in present
                 => Wanted(19) /\ (admins.gatewayAdmin # admins.paraSpaceAdmin => Wanted(20))
            /\ "HelperContract" \in present
                 => Wanted(21) /\ (admins.gatewayAdmin # admins.paraSpaceAdmin => Wanted(22))
        BY DEF Places, Wanted, Present
      <3>3. \A r, a : AchievedIn(Move(r, a), rights, potential) => rights[r] = {a}
        BY DEF AchievedIn, Move, Call
      <3>. QED
        BY <1>3, <3>1, <3>2, <3>3
    <2>2. ASSUME NEW x \in {"P2PPairStaking", "HelperContract"},
                 admins.gatewayAdmin = admins.paraSpaceAdmin
          PROVE  admins.paraSpaceAdmin \notin rights[OwnerOf(x)]
      BY <1>1, <2>2, AdminsAreAccounts DEF Provenance, NoSharedAdmins
    <2>3. admins.emergencyAdmin \notin rights[OwnerOf("cAPE")]
      BY <1>1, AdminsAreAccounts DEF Provenance
    <2>. QED
      BY <2>1, <2>2, <2>3
  <1>. QED
    BY <1>5, <1>6, <1>7, <1>8 DEF CompleteHandover

\* A run that comes to its end has moved everything but what is listed: for any number of
\* administrators and interruptions before it, provided that nobody who ran the script for
\* others is among them.
THEOREM CompleteHandoverHolds ==
    ASSUME NoSharedAdmins
    PROVE  Spec => []CompleteHandover
  <1>1. IInv /\ Provenance => CompleteHandover
    BY CompleteIsComplete
  <1>. QED
    BY <1>1, InitIInv, NextIInv, InitProvenance, NextProvenance, PTL DEF Spec

-----------------------------------------------------------------------------
\* A run that is interrupted.

Registry == OwnerOf("registry")
Oracle == Role("NFTFloorOracle")

\* The deployer has the role of the floor oracle until the last transaction of a run that
\* started from it.  If that run does not get there, the address book's registry has gone to
\* another account, and no later run that starts from the deployer gets beyond it.
Unrepaired ==
    /\ pc = "run" /\ call <= 3 => rights[Provider] = {old}
    /\ Deployer \in interrupted => Deployer \in rights[Oracle] /\ Deployer \notin rights[Registry]
    /\ Deployer \in rights[Provider] => Deployer \in rights[Oracle]
    /\ pc = "run" /\ old = Deployer =>
          /\ call <= 27 => Deployer \in rights[Oracle]
          /\ Deployer \in interrupted => call = 1 \/ (call = 2 /\ signer # Deployer)

\* The three rights are different ones, of neither the conduit nor the zone controller.
LEMMA UnrepairedRights ==
    /\ {Provider, Registry, Oracle} \subseteq Rights
    /\ \A x \in Accepted : OwnerOf(x) \notin {Provider, Registry, Oracle}
    /\ Provider # Registry /\ Provider # Oracle /\ Registry # Oracle
    /\ Provider \in Owned /\ Registry \in Owned
  BY DEF Provider, Registry, Oracle, Role, OwnerOf, Accepted, Owned, Roles, OracleRoles, Rights

\* Which transactions are about them.
LEMMA UnrepairedScript ==
    \A i \in Places :
       /\ Script[i].right = Registry <=> i = 1
       /\ Script[i].right = Provider <=> i = 3
       /\ Script[i].right = Oracle <=> i \in {26, 27}
       /\ i = 27 <=> Script[i].right = Oracle /\ Script[i].kind = "revoke"
       /\ i = 26 => Script[i].kind = "grant"
       /\ i \in {1, 3} => Script[i].kind = "move" /\ Script[i].account = admins.paraSpaceAdmin
       /\ i = 1 => Script[i].by = Registry
       /\ i = 2 => Script[i].by = Provider
  <1>1. \A i \in Places : Script[i].right = Registry <=> i = 1
    BY SMTT(60) DEF Places, Script, Move, Grant, Revoke, Propose, Call, OwnerOf, AdminOf,
                    Registry, Provider, Oracle, Role
  <1>2. \A i \in Places : Script[i].right = Provider <=> i = 3
    BY SMTT(60) DEF Places, Script, Move, Grant, Revoke, Propose, Call, OwnerOf, AdminOf,
                    Registry, Provider, Oracle, Role
  <1>3. \A i \in Places : Script[i].right = Oracle <=> i \in {26, 27}
    BY SMTT(60) DEF Places, Script, Move, Grant, Revoke, Propose, Call, OwnerOf, AdminOf,
                    Registry, Provider, Oracle, Role
  <1>4. /\ Script[26].kind = "grant" /\ Script[27].kind = "revoke"
        /\ \A i \in {1, 3} : Script[i].kind = "move" /\ Script[i].account = admins.paraSpaceAdmin
        /\ Script[1].by = Registry /\ Script[2].by = Provider
    BY SMTT(60) DEF Places, Script, Move, Grant, Revoke, Propose, Call, OwnerOf, AdminOf,
                    Registry, Provider, Oracle, Role
  <1>. QED
    BY <1>1, <1>2, <1>3, <1>4 DEF Places

\* One transaction, sent.
LEMMA SentKeepsUnrepaired ==
    ASSUME IInv, Unrepaired, pc = "run", NEW t, Sending(t), Sent(t)
    PROVE  Unrepaired'
  <1>1. /\ HandoverTypeOK /\ Script[t] \in Transactions /\ Effect(Script[t]) /\ t \in Places
        /\ Accepts(Script[t]) /\ call' = t + 1 /\ call <= t /\ call \in Nat \ {0}
        /\ UNCHANGED <<pc, interrupted, signer, admins, old>>
    BY ScriptTransactions DEF IInv, HandoverTypeOK, Sending, Sent
  <1>2. /\ t = 1 => rights'[Registry] = {admins.paraSpaceAdmin}
        /\ t # 1 => rights'[Registry] = rights[Registry]
        /\ t = 3 => rights'[Provider] = {admins.paraSpaceAdmin}
        /\ t # 3 => rights'[Provider] = rights[Provider]
        /\ t \notin {26, 27} => rights'[Oracle] = rights[Oracle]
        /\ t = 26 => rights[Oracle] \subseteq rights'[Oracle]
        /\ t = 27 => rights'[Oracle] = rights[Oracle] \ {old}
    BY <1>1, EffectOn, UnrepairedRights, UnrepairedScript, ScriptAccounts
  <1>3. admins.paraSpaceAdmin # Deployer
    BY AdminsAreAccounts DEF IInv, HandoverTypeOK
  <1>4. call \in {1, 2} => t = call
    <2>1. \A i \in {1, 2} : Wanted(i) /\ i \in Places /\ i \notin 6 .. 9
      BY DEF Wanted, Present, Places
    <2>2. call \in {1, 2} => ~ (call < t)
      BY <1>1, <2>1 DEF Sending
    <2>. QED
      BY <1>1, <2>2 DEF Places
  <1>5. signer \in rights[Script[t].by]
    BY <1>1 DEF Accepts
  <1>6. t > 3 => rights[Provider] = {admins.paraSpaceAdmin}
    <2>1. SUFFICES ASSUME t > 3 PROVE rights[Provider] = {admins.paraSpaceAdmin}
      OBVIOUS
    <2>2. 3 \in Places /\ 3 < t /\ Wanted(3)
      BY <1>1, <2>1 DEF Places, Wanted, Present
    <2>3. Settled(3)
      BY <2>2 DEF Sending
    <2>4. AchievedIn(Script[3], rights, potential)
      BY <2>2, <2>3, UnrepairedScript DEF Settled
    <2>. QED
      BY <2>2, <2>4, UnrepairedScript DEF AchievedIn
  <1>7. old = Deployer /\ Deployer \in interrupted => t = 1 /\ signer # Deployer
    <2>1. SUFFICES ASSUME old = Deployer, Deployer \in interrupted PROVE t = 1 /\ signer # Deployer
      OBVIOUS
    <2>2. t \in {1, 2} /\ t = call
      BY <1>1, <1>4, <2>1 DEF Unrepaired
    <2>3. CASE t = 1
      BY <1>1, <1>5, <2>1, <2>3, UnrepairedScript DEF Unrepaired
    <2>4. CASE t = 2
      BY <1>1, <1>5, <2>1, <2>2, <2>4, UnrepairedScript DEF Unrepaired
    <2>. QED
      BY <2>2, <2>3, <2>4
  <1>8. call' <= 3 => rights'[Provider] = {old}
    <2>1. call' <= 3 => t \in {1, 2} /\ call <= 3
      BY <1>1 DEF Places
    <2>. QED
      BY <1>2, <2>1 DEF Unrepaired
  <1>9. Deployer \in interrupted => Deployer \in rights'[Oracle] /\ Deployer \notin rights'[Registry]
    BY <1>1, <1>2, <1>3, <1>7 DEF Unrepaired
  <1>10. Deployer \in rights'[Provider] => Deployer \in rights'[Oracle]
    BY <1>1, <1>2, <1>3, <1>6 DEF Unrepaired
  <1>11. old = Deployer /\ call' <= 27 => Deployer \in rights'[Oracle]
    <2>1. call' <= 27 => t # 27 /\ call <= 27
      BY <1>1 DEF Places
    <2>. QED
      BY <1>1, <1>2, <2>1 DEF Unrepaired
  <1>12. old = Deployer /\ Deployer \in interrupted => call' = 2 /\ signer # Deployer
    BY <1>1, <1>7
  <1>. QED
    BY <1>1, <1>8, <1>9, <1>10, <1>11, <1>12 DEF Unrepaired

\* An end before the last transaction.
LEMMA BrokenOffKeepsUnrepaired ==
    ASSUME IInv, Unrepaired, pc = "run", Crash \/ \E t : Sending(t) /\ Refused(t)
    PROVE  Unrepaired'
  <1>1. /\ UNCHANGED <<rights, potential, call, signer, admins, old>> /\ pc' = "aborted"
        /\ interrupted' = IF call > 1 THEN interrupted \union {old} ELSE interrupted
    BY DEF Crash, Refused
  <1>2. call \in Nat /\ call <= 27 /\ admins \in Admins
    <2>1. call \in Nat /\ HandoverTypeOK
      BY DEF IInv, HandoverTypeOK
    <2>2. \E t \in Places : call <= t
      BY <2>1, LeftShape DEF Crash, Sending
    <2>. QED
      BY <2>1, <2>2 DEF Places, HandoverTypeOK
  <1>3. call > 1 => Deployer \notin rights[Registry]
    <2>1. SUFFICES ASSUME call > 1 PROVE Deployer \notin rights[Registry]
      OBVIOUS
    <2>2. 1 \in Places /\ 1 < call /\ Wanted(1)
      BY <1>2, <2>1 DEF Places, Wanted, Present
    <2>3. Settled(1)
      BY <2>2 DEF IInv, Progress
    <2>4. AchievedIn(Script[1], rights, potential)
      BY <2>2, <2>3, UnrepairedScript DEF Settled
    <2>5. rights[Registry] = {admins.paraSpaceAdmin}
      BY <2>2, <2>4, UnrepairedScript DEF AchievedIn
    <2>. QED
      BY <1>2, <2>5, AdminsAreAccounts
  <1>. QED
    BY <1>1, <1>2, <1>3 DEF Unrepaired

\* Every step.
LEMMA NextUnrepaired == IInv /\ Unrepaired /\ [Next]_vars => Unrepaired'
  <1>. SUFFICES ASSUME IInv, Unrepaired, [Next]_vars PROVE Unrepaired'
    OBVIOUS
  <1>1. ASSUME NEW s \in Accounts, NEW a \in Admins, Start(s, a) PROVE Unrepaired'
    <2>1. /\ call' = 1 /\ old' \in rights[Provider]
          /\ UNCHANGED <<rights, interrupted>>
      BY <1>1 DEF Start
    <2>2. rights[Provider] = {old'}
      BY <2>1, UnrepairedRights DEF IInv, Governed
    <2>. QED
      BY <2>1, <2>2 DEF Unrepaired
  <1>2. ASSUME NEW x \in Accepted, AcceptOwnership(x) PROVE Unrepaired'
    <2>1. \A r \in {Provider, Registry, Oracle} : rights'[r] = rights[r]
      BY <1>2, UnrepairedRights DEF AcceptOwnership, IInv, HandoverTypeOK, Rights
    <2>2. UNCHANGED <<pc, call, signer, old, interrupted>>
      BY <1>2 DEF AcceptOwnership, run
    <2>. QED
      BY <2>1, <2>2 DEF Unrepaired
  <1>3. ASSUME Finish PROVE Unrepaired'
    BY <1>3 DEF Finish, Unrepaired
  <1>4. CASE Next
    BY <1>1, <1>2, <1>3, <1>4, Steps, SentKeepsUnrepaired, BrokenOffKeepsUnrepaired
  <1>5. CASE UNCHANGED vars
    BY <1>5 DEF vars, run, Unrepaired
  <1>. QED
    BY <1>4, <1>5

\* Initially nothing is interrupted and everything is the deployer's.
LEMMA InitUnrepaired == Init => Unrepaired
  <1>. SUFFICES ASSUME Init PROVE Unrepaired
    OBVIOUS
  <1>1. Oracle \in Owned \union Roles
    BY UnrepairedRights DEF Rights
  <1>2. rights[Oracle] = {Deployer}
    BY <1>1 DEF Init, InitialRights, Oracle, Role
  <1>. QED
    BY <1>2 DEF Init, Unrepaired

\* A deployer whose run was interrupted keeps the role of the floor oracle, whoever runs the
\* script again, for whom and how often: the script cannot repair what it left half done.
THEOREM InterruptedIsNeverRepairedHolds == Spec => []InterruptedIsNeverRepaired
  <1>1. IInv /\ Unrepaired => InterruptedIsNeverRepaired
    <2>1. SUFFICES ASSUME IInv, Unrepaired, Deployer \in interrupted
                   PROVE  Oracle \in OfParaSpaceAdmin /\ Deployer \in rights[Oracle]
      BY DEF InterruptedIsNeverRepaired
    <2>2. "NFTFloorOracle" \in present
      BY <2>1, FloorOracleAssumption DEF IInv, HandoverTypeOK
    <2>. QED
      BY <2>1, <2>2 DEF OfParaSpaceAdmin, Oracle, OracleRoles, Unrepaired
  <1>. QED
    BY <1>1, InitIInv, NextIInv, InitUnrepaired, NextUnrepaired, PTL DEF Spec

-----------------------------------------------------------------------------
\* A transaction that is refused.

\* What RefusalHasCause names as causes.
Cause ==
    \E a \in handedTo :
       \/ \E x \in {a.gatewayAdmin, a.emergencyAdmin} : x # a.paraSpaceAdmin
       \/ \E c \in Accepted : potential[c] # NoAccount
       \/ admins.gatewayAdmin # admins.paraSpaceAdmin

\* All that was handed over went to one account each time.
OneHanded == \A a \in handedTo : a.gatewayAdmin = a.paraSpaceAdmin /\ a.emergencyAdmin = a.paraSpaceAdmin

\* The account o has what the i-th transaction needs, but for what it has been offered and not
\* accepted, and for the owners behind proxies, which the first run leaves alone when all goes
\* to one account.
Entitled(o, i) ==
    \/ o \in rights[Script[i].by]
    \/ i = 13 /\ handedTo # {} /\ potential["conduit"] # NoAccount
    \/ i = 14 /\ handedTo # {} /\ potential["zoneController"] # NoAccount
    \/ i \in {20, 22} /\ handedTo # {}

\* As long as nothing was interrupted, one account has it all: the owner between two runs, and
\* during a run the account it started from has what is needed for the rest.
EntitledBetween ==
    \A o \in rights[Provider] :
       /\ \A x \in Accepted : potential[x] \in {NoAccount, o}
       /\ handedTo = {} => potential["conduit"] = NoAccount
       /\ \A i \in Places : Present(i) => Entitled(o, i)

EntitledDuring ==
    /\ signer = old
    /\ call <= 13 => /\ potential["conduit"] \in {NoAccount, old}
                     /\ handedTo = {} => potential["conduit"] = NoAccount
    /\ call <= 14 => potential["zoneController"] \in {NoAccount, old}
    /\ \A i \in Places : call <= i /\ Present(i) => Entitled(old, i)

Unbroken ==
    interrupted = {} /\ OneHanded => IF pc = "run" THEN EntitledDuring ELSE EntitledBetween

\* Who may send a transaction does not depend on the run.
LEMMA PowersFixed == \A i \in Places : Script'[i].by = Script[i].by
  BY SMTT(60) DEF Places, Script, Move, Grant, Revoke, Propose, Call

\* What is needed for the conduit and the zone controller is to be their owner.
LEMMA AcceptedPowers ==
    /\ "conduit" \in Accepted /\ "zoneController" \in Accepted
    /\ \A x \in Accepted : x \in {"conduit", "zoneController"}
    /\ \A i \in Places : /\ Script[i].by = OwnerOf("conduit") <=> i = 13
                         /\ Script[i].by = OwnerOf("zoneController") <=> i = 14
                         /\ Script[i].right = OwnerOf("conduit") <=> i = 13
                         /\ Script[i].right = OwnerOf("zoneController") <=> i = 14
  <1>1. \A i \in Places : Script[i].by = OwnerOf("conduit") <=> i = 13
    BY SMTT(60) DEF Places, Script, Move, Grant, Revoke, Propose, Call, OwnerOf, AdminOf, RoleAdmin
  <1>2. \A i \in Places : Script[i].by = OwnerOf("zoneController") <=> i = 14
    BY SMTT(60) DEF Places, Script, Move, Grant, Revoke, Propose, Call, OwnerOf, AdminOf, RoleAdmin
  <1>3. \A i \in Places : Script[i].right = OwnerOf("conduit") <=> i = 13
    BY SMTT(60) DEF Places, Script, Move, Grant, Revoke, Propose, Call, OwnerOf, AdminOf
  <1>4. \A i \in Places : Script[i].right = OwnerOf("zoneController") <=> i = 14
    BY SMTT(60) DEF Places, Script, Move, Grant, Revoke, Propose, Call, OwnerOf, AdminOf
  <1>. QED
    BY <1>1, <1>2, <1>3, <1>4 DEF Accepted

\* The transaction that gives the new administrator what the i-th transaction needs.
Source(i) ==
    IF i \in {2, 3} THEN 3 ELSE IF i \in 4 .. 11 THEN 10 ELSE IF i \in 24 .. 27 THEN 26 ELSE i

\* It is wanted where the i-th one is possible.
LEMMA Sources ==
    \A i \in Places : i \notin {13, 14, 20, 22} =>
       /\ Source(i) \in Places /\ Script[Source(i)].right = Script[i].by
       /\ Script[Source(i)].kind \in {"move", "grant"}
       /\ Present(i) => Wanted(Source(i))
       /\ Script[Source(i)].account
            \in {admins.paraSpaceAdmin, admins.gatewayAdmin, admins.emergencyAdmin}
  <1>1. \A i \in Places : i \notin {13, 14, 20, 22} =>
           /\ Source(i) \in Places /\ Script[Source(i)].right = Script[i].by
           /\ Script[Source(i)].kind \in {"move", "grant"}
    <2>1. /\ \A i \in {2, 3} : Script[i].by = Script[3].right
          /\ \A i \in 4 .. 11 : Script[i].by = Script[10].right
          /\ \A i \in 24 .. 27 : Script[i].by = Script[26].right
          /\ \A i \in {1, 12, 15, 16, 17, 18, 19, 21, 23} :
                Script[i].by = Script[i].right /\ Script[i].kind = "move"
          /\ Script[3].kind = "move" /\ Script[10].kind = "grant" /\ Script[26].kind = "grant"
      BY SMTT(60) DEF Script, Move, Grant, Revoke, Propose, Call, RoleAdmin, OracleRoles
    <2>2. \A i \in Places : i \notin {13, 14, 20, 22} =>
             \/ i \in {2, 3} /\ Source(i) = 3
             \/ i \in 4 .. 11 /\ Source(i) = 10
             \/ i \in 24 .. 27 /\ Source(i) = 26
             \/ i \in {1, 12, 15, 16, 17, 18, 19, 21, 23} /\ Source(i) = i
      BY DEF Source, Places
    <2>3. 3 \in Places /\ 10 \in Places /\ 26 \in Places
      BY DEF Places
    <2>. QED
      BY <2>1, <2>2, <2>3
  <1>2. \A i \in Places : i \notin {13, 14, 20, 22} /\ Present(i) => Wanted(Source(i))
    BY SMTT(60) DEF Source, Places, Present, Wanted
  <1>3. \A i \in Places : i \notin {13, 14, 20, 22} =>
           /\ Source(i) \notin {8, 13, 14, 20, 22}
           /\ Script[Source(i)].account
                \in {admins.paraSpaceAdmin, admins.gatewayAdmin, admins.emergencyAdmin}
    <2>1. \A i \in Places : i \notin {13, 14, 20, 22} => Source(i) \notin {8, 13, 14, 20, 22}
      BY DEF Source, Places
    <2>. QED
      BY <1>1, <2>1, ScriptAccounts
  <1>. QED
    BY <1>1, <1>2, <1>3

\* Initially everything is the deployer's.
LEMMA InitUnbroken == Init => Unbroken
  <1>. SUFFICES ASSUME Init PROVE Unbroken
    OBVIOUS
  <1>1. HandoverTypeOK
    BY InitIInv DEF IInv
  <1>2. \A i \in Places : Script[i].by \notin {<<"role", "ASSET_LISTING_ADMIN">>, <<"role", "RISK_ADMIN">>,
                                              <<"role", "EMERGENCY_ADMIN">>}
    BY SMTT(60) DEF Places, Script, Move, Grant, Revoke, Propose, Call, OwnerOf, AdminOf, RoleAdmin,
                    OracleRoles
  <1>3. Provider \notin {<<"role", "ASSET_LISTING_ADMIN">>, <<"role", "RISK_ADMIN">>,
                         <<"role", "EMERGENCY_ADMIN">>}
    BY DEF Provider, OwnerOf
  <1>4. \A r \in Owned \union Roles :
           r \notin {<<"role", "ASSET_LISTING_ADMIN">>, <<"role", "RISK_ADMIN">>,
                     <<"role", "EMERGENCY_ADMIN">>} => rights[r] = {Deployer}
    BY DEF Init, InitialRights
  <1>5. rights[Provider] = {Deployer} /\ \A i \in Places : Deployer \in rights[Script[i].by]
    BY <1>2, <1>3, <1>4, ScriptRights, UnrepairedRights DEF Rights
  <1>6. \A x \in Accepted : potential[x] = NoAccount
    BY DEF Init
  <1>. QED
    BY <1>5, <1>6, AcceptedPowers DEF Init, Unbroken, EntitledBetween, Entitled

\* A run is started by the owner, from its own account.
LEMMA StartKeepsUnbroken ==
    ASSUME IInv, Unbroken, NEW s \in Accounts, NEW a \in Admins, Start(s, a)
    PROVE  Unbroken'
  <1>. SUFFICES ASSUME interrupted = {}, OneHanded
                PROVE  IF pc' = "run" THEN EntitledDuring' ELSE EntitledBetween'
    BY DEF Start, Unbroken, OneHanded
  <1>1. /\ pc # "run" /\ s \in rights[Registry] \union rights[Provider] /\ signer' = s /\ call' = 1
        /\ old' \in rights[Provider]
        /\ UNCHANGED <<rights, potential, present, handedTo>>
    BY DEF Start, Registry
  <1>2. EntitledBetween
    BY <1>1 DEF Unbroken
  <1>3. PICK o \in Accounts : rights[Provider] = {o}
    BY UnrepairedRights DEF IInv, Governed
  <1>4. rights[Registry] = {o}
    <2>1. 1 \in Places /\ Present(1) /\ Script[1].by = Registry
      BY UnrepairedScript DEF Places, Present
    <2>2. o \in rights[Registry]
      BY <1>2, <1>3, <2>1 DEF EntitledBetween, Entitled
    <2>. QED
      BY <2>2, UnrepairedRights DEF IInv, Governed
  <1>5. s = o /\ old' = o
    BY <1>1, <1>3, <1>4
  <1>6. \A i \in Places : (Present(i)' <=> Present(i)) /\ (Entitled(o, i) => Entitled(o, i)')
    <2>1. \A i \in Places : Present(i)' <=> Present(i)
      BY <1>1 DEF Present
    <2>. QED
      BY <1>1, <2>1, PowersFixed DEF Entitled
  <1>7. EntitledBetween'
    BY <1>1, <1>2, <1>6, <1>3 DEF EntitledBetween
  <1>8. EntitledDuring'
    <2>1. \A i \in Places : Present(i)' => Entitled(old, i)'
      BY <1>2, <1>3, <1>5, <1>6 DEF EntitledBetween, Entitled
    <2>. QED
      BY <1>1, <1>2, <1>3, <1>5, <2>1, AcceptedPowers DEF EntitledBetween, EntitledDuring
  <1>. QED
    BY <1>7, <1>8

\* A transaction, sent, takes nothing that is needed later.
LEMMA SentKeepsUnbroken ==
    ASSUME IInv, Unbroken, pc = "run", NEW t, Sending(t), Sent(t)
    PROVE  Unbroken'
  <1>. SUFFICES ASSUME interrupted = {}, OneHanded PROVE EntitledDuring'
    BY DEF Sent, Unbroken, OneHanded
  <1>1. /\ HandoverTypeOK /\ Script[t] \in Transactions /\ Effect(Script[t]) /\ t \in Places
        /\ call' = t + 1 /\ call <= t /\ call \in Nat \ {0}
        /\ UNCHANGED <<signer, admins, old, present, handedTo>>
    BY ScriptTransactions DEF IInv, HandoverTypeOK, Sending, Sent
  <1>2. EntitledDuring
    BY DEF Unbroken
  <1>3. Script' = Script /\ \A i \in Places : Present(i)' <=> Present(i)
    BY <1>1, ScriptStays
  <1>4. /\ t # 13 => potential'["conduit"] = potential["conduit"]
        /\ t # 14 => potential'["zoneController"] = potential["zoneController"]
    BY <1>1, EffectOn, AcceptedPowers
  <1>5. ASSUME NEW i \in Places, t < i, old \in rights[Script[i].by]
        PROVE  old \in rights'[Script[i].by]
    <2>1. Script[i].by \in Rights
      BY ScriptRights
    <2>2. CASE Script[t].right = Script[i].by
      <3>1. Script[t].kind = "grant"
        BY <1>1, <1>5, <2>2, ScriptPowers
      <3>. QED
        BY <1>1, <1>5, <2>2, <3>1, EffectOn
    <2>3. CASE Script[t].right # Script[i].by
      BY <1>1, <1>5, <2>1, <2>3, EffectOn
    <2>. QED
      BY <2>2, <2>3
  <1>6. ASSUME NEW i \in Places, t < i, Entitled(old, i) PROVE Entitled(old, i)'
    <2>1. i = 13 => t # 13
      BY <1>1, <1>6 DEF Places
    <2>2. i = 14 => t # 14
      BY <1>1, <1>6 DEF Places
    <2>. QED
      BY <1>1, <1>3, <1>4, <1>5, <1>6, <2>1, <2>2 DEF Entitled
  <1>7. \A i \in Places : call' <= i => call <= i /\ t < i
    BY <1>1 DEF Places
  <1>8. /\ call' <= 13 => call <= 13 /\ t # 13
        /\ call' <= 14 => call <= 14 /\ t # 14
    BY <1>1 DEF Places
  <1>. QED
    BY <1>1, <1>2, <1>3, <1>4, <1>6, <1>7, <1>8 DEF EntitledDuring

\* A run that comes to its end, all for one account, has given it all.
LEMMA FinishKeepsUnbroken ==
    ASSUME IInv, Unbroken, Finish
    PROVE  Unbroken'
  <1>. SUFFICES ASSUME interrupted = {}, OneHanded' PROVE EntitledBetween'
    BY DEF Finish, Unbroken
  <1>1. /\ pc = "run" /\ handedTo' # {} /\ admins \in Admins /\ HandoverTypeOK
        /\ UNCHANGED <<rights, potential, present, admins, old>>
        /\ admins.gatewayAdmin = admins.paraSpaceAdmin /\ admins.emergencyAdmin = admins.paraSpaceAdmin
    BY DEF Finish, OneHanded, IInv, HandoverTypeOK
  <1>2. Script' = Script /\ \A i \in Places : Present(i)' <=> Present(i)
    BY <1>1, ScriptStays
  <1>3. admins.paraSpaceAdmin # old /\ admins.paraSpaceAdmin # NoAccount
    BY <1>1, AdminsAreAccounts DEF IInv, Progress
  <1>4. ASSUME NEW i \in Places, Wanted(i), Script[i].account # old
        PROVE  AchievedIn(Script[i], rights, potential)
    BY <1>1, <1>4, NothingLeft DEF Finish, Settled
  <1>5. \A x \in Accepted : /\ potential[x] \in {NoAccount, admins.paraSpaceAdmin}
                            /\ potential[x] = NoAccount => admins.paraSpaceAdmin \in rights[OwnerOf(x)]
    <2>1. 13 \in Places /\ 14 \in Places /\ Wanted(13) /\ Wanted(14)
      BY DEF Places, Wanted, Present
    <2>2. /\ Script[13] = Propose("conduit", admins.paraSpaceAdmin)
          /\ Script[14] = Propose("zoneController", admins.paraSpaceAdmin)
      BY DEF Script
    <2>3. \A x : Propose(x, admins.paraSpaceAdmin).account = admins.paraSpaceAdmin
      BY DEF Propose, Call
    <2>4. /\ AchievedIn(Propose("conduit", admins.paraSpaceAdmin), rights, potential)
          /\ AchievedIn(Propose("zoneController", admins.paraSpaceAdmin), rights, potential)
      BY <1>3, <1>4, <2>1, <2>2, <2>3
    <2>5. \A x : AchievedIn(Propose(x, admins.paraSpaceAdmin), rights, potential) =>
             \/ potential[x] = admins.paraSpaceAdmin
             \/ potential[x] = NoAccount /\ admins.paraSpaceAdmin \in rights[OwnerOf(x)]
      BY DEF AchievedIn, Propose, Call, OwnerOf
    <2>. QED
      BY <1>3, <2>4, <2>5, AcceptedPowers
  <1>6. ASSUME NEW i \in Places, Present(i) PROVE Entitled(admins.paraSpaceAdmin, i)'
    <2>1. CASE i \in {20, 22}
      BY <1>1, <2>1 DEF Entitled
    <2>2. CASE i \in {13, 14}
      BY <1>1, <1>2, <1>5, <2>2, AcceptedPowers DEF Entitled
    <2>3. CASE i \notin {13, 14, 20, 22}
      <3>1. /\ Source(i) \in Places /\ Script[Source(i)].right = Script[i].by
            /\ Script[Source(i)].kind \in {"move", "grant"} /\ Wanted(Source(i))
            /\ Script[Source(i)].account = admins.paraSpaceAdmin
        BY <1>1, <1>6, <2>3, Sources
      <3>2. AchievedIn(Script[Source(i)], rights, potential)
        BY <1>3, <1>4, <3>1
      <3>3. admins.paraSpaceAdmin \in rights[Script[i].by]
        BY <3>1, <3>2 DEF AchievedIn
      <3>. QED
        BY <1>1, <1>2, <3>3 DEF Entitled
    <2>. QED
      BY <2>1, <2>2, <2>3
  <1>7. rights[Provider] = {admins.paraSpaceAdmin}
    <2>1. 3 \in Places /\ Wanted(3)
      BY DEF Places, Wanted, Present
    <2>. QED
      BY <1>3, <1>4, <2>1, UnrepairedScript DEF AchievedIn
  <1>. QED
    BY <1>1, <1>2, <1>5, <1>6, <1>7 DEF EntitledBetween, Entitled

\* A run that ends before its first transaction has changed nothing.
LEMMA BrokenOffKeepsUnbroken ==
    ASSUME IInv, Unrepaired, Unbroken, pc = "run", Crash \/ \E t : Refused(t)
    PROVE  Unbroken'
  <1>1. /\ UNCHANGED <<rights, potential, present, call, signer, admins, old, handedTo>>
        /\ pc' = "aborted"
        /\ interrupted' = IF call > 1 THEN interrupted \union {old} ELSE interrupted
    BY DEF Crash, Refused
  <1>. SUFFICES ASSUME interrupted' = {}, OneHanded PROVE EntitledBetween'
    BY <1>1 DEF Unbroken, OneHanded
  <1>2. call = 1 /\ interrupted = {}
    <2>1. call \in Nat \ {0}
      BY DEF IInv, HandoverTypeOK
    <2>. QED
      BY <1>1, <2>1
  <1>3. EntitledDuring /\ rights[Provider] = {old}
    BY <1>2 DEF Unbroken, Unrepaired
  <1>4. \A i \in Places : 1 <= i
    BY DEF Places
  <1>5. EntitledBetween
    BY <1>2, <1>3, <1>4, AcceptedPowers DEF EntitledBetween, EntitledDuring
  <1>6. \A i \in Places : Present(i)' <=> Present(i)
    BY <1>1 DEF Present
  <1>7. Script' = Script
    BY <1>1, ScriptStays
  <1>. QED
    BY <1>1, <1>5, <1>6, <1>7 DEF EntitledBetween, Entitled

\* Whoever accepts is the one that needs it next.
LEMMA AcceptOwnershipKeepsUnbroken ==
    ASSUME IInv, Unbroken, NEW x \in Accepted, AcceptOwnership(x)
    PROVE  Unbroken'
  <1>1. /\ potential[x] # NoAccount
        /\ rights' = [rights EXCEPT ![OwnerOf(x)] = {potential[x]}]
        /\ potential' = [potential EXCEPT ![x] = NoAccount]
        /\ UNCHANGED <<present, pc, call, signer, admins, old, faults, interrupted, handedTo>>
    BY DEF AcceptOwnership, run
  <1>. SUFFICES ASSUME interrupted = {}, OneHanded
                PROVE  IF pc = "run" THEN EntitledDuring' ELSE EntitledBetween'
    BY <1>1 DEF Unbroken, OneHanded
  <1>2. /\ rights'[OwnerOf(x)] = {potential[x]} /\ potential'[x] = NoAccount
        /\ \A r \in Rights : r # OwnerOf(x) => rights'[r] = rights[r]
        /\ \A y \in Accepted : y # x => potential'[y] = potential[y]
    <2>1. OwnerOf(x) \in Rights
      BY DEF Owned, OwnerOf, Rights
    <2>. QED
      BY <1>1, <2>1 DEF IInv, HandoverTypeOK, Rights
  <1>3. Script' = Script /\ \A i \in Places : Present(i)' <=> Present(i)
    BY <1>1, ScriptStays
  <1>4. ASSUME NEW o, NEW i \in Places, Entitled(o, i), Script[i].by = OwnerOf(x) => potential[x] = o
        PROVE  Entitled(o, i)'
    <2>1. CASE Script[i].by = OwnerOf(x)
      BY <1>2, <1>3, <1>4, <2>1 DEF Entitled
    <2>2. CASE Script[i].by # OwnerOf(x)
      <3>1. Script[i].by \in Rights
        BY ScriptRights
      <3>2. (i = 13 => x # "conduit") /\ (i = 14 => x # "zoneController")
        BY <2>2, AcceptedPowers
      <3>. QED
        BY <1>1, <1>2, <1>3, <1>4, <2>2, <3>1, <3>2, AcceptedPowers DEF Entitled
    <2>. QED
      BY <2>1, <2>2
  <1>5. CASE pc = "run"
    <2>1. EntitledDuring
      BY <1>5 DEF Unbroken
    <2>2. ASSUME NEW i \in Places, call <= i, Present(i) PROVE Entitled(old, i)'
      <3>1. Script[i].by = OwnerOf(x) => potential[x] = old
        BY <1>1, <2>1, <2>2, AcceptedPowers DEF EntitledDuring
      <3>2. PICK o : o = old
        OBVIOUS
      <3>3. Entitled(o, i)
        BY <2>1, <2>2, <3>2 DEF EntitledDuring
      <3>4. Entitled(o, i)'
        BY <1>4, <3>1, <3>2, <3>3
      <3>5. old' = old
        BY <1>1
      <3>. QED
        BY <3>2, <3>4, <3>5 DEF Entitled
    <2>3. \A i \in Places : call' <= i /\ Present(i)' => Entitled(old, i)'
      BY <1>1, <1>3, <2>2
    <2>. QED
      BY <1>1, <1>2, <1>5, <2>1, <2>3, AcceptedPowers DEF EntitledDuring
  <1>6. CASE pc # "run"
    <2>1. EntitledBetween
      BY <1>6 DEF Unbroken
    <2>2. rights'[Provider] = rights[Provider]
      BY <1>2, UnrepairedRights
    <2>3. ASSUME NEW o \in rights[Provider], NEW i \in Places, Present(i) PROVE Entitled(o, i)'
      BY <1>1, <1>4, <2>1, <2>3 DEF EntitledBetween
    <2>. QED
      BY <1>1, <1>2, <1>3, <1>6, <2>1, <2>2, <2>3, AcceptedPowers DEF EntitledBetween
  <1>. QED
    BY <1>5, <1>6

\* Every step.
LEMMA NextUnbroken == IInv /\ Unrepaired /\ Unbroken /\ [Next]_vars => Unbroken'
  <1>. SUFFICES ASSUME IInv, Unrepaired, Unbroken, [Next]_vars PROVE Unbroken'
    OBVIOUS
  <1>1. CASE Next
    BY <1>1, Steps, StartKeepsUnbroken, SentKeepsUnbroken, FinishKeepsUnbroken, BrokenOffKeepsUnbroken,
       AcceptOwnershipKeepsUnbroken
  <1>2. CASE UNCHANGED vars
    <2>1. Script' = Script /\ \A i \in Places : Present(i)' <=> Present(i)
      BY <1>2, ScriptStays DEF vars, run
    <2>. QED
      BY <1>2, <2>1 DEF vars, run, Unbroken, OneHanded, EntitledDuring, EntitledBetween, Entitled
  <1>. QED
    BY <1>1, <1>2

\* Without a cause, the account that runs the script has what the next transaction needs.
LEMMA RefusedForACause ==
    ASSUME IInv, Unbroken, pc = "run", interrupted = {}, NEW t, Sending(t), Refused(t)
    PROVE  Cause
  <1>. SUFFICES ASSUME ~ Cause PROVE FALSE
    OBVIOUS
  <1>1. \/ handedTo = {}
        \/ /\ \A c \in Accepted : potential[c] = NoAccount
           /\ admins.gatewayAdmin = admins.paraSpaceAdmin
    BY DEF Cause
  <1>2. OneHanded
    BY DEF Cause, OneHanded
  <1>3. EntitledDuring
    BY <1>2 DEF Unbroken
  <1>4. t \in Places /\ call <= t /\ Wanted(t) /\ HandoverTypeOK /\ admins \in Admins
    BY DEF Sending, IInv, HandoverTypeOK
  <1>5. signer \in rights[Script[t].by]
    <2>1. Entitled(old, t)
      BY <1>3, <1>4 DEF EntitledDuring, Wanted
    <2>2. t \in {20, 22} => admins.gatewayAdmin # admins.paraSpaceAdmin
      BY <1>4 DEF Wanted
    <2>. QED
      BY <1>1, <1>3, <2>1, <2>2, AcceptedPowers DEF Entitled, EntitledDuring
  <1>6. Behind(Script[t].right) => signer \notin rights[AdminOf(Script[t].right[2])]
    <2>1. Behind(Script[t].right) =>
             /\ t \in {20, 22} /\ t - 1 \in Places /\ t - 1 < t
             /\ Script[t - 1].right = AdminOf(Script[t].right[2])
             /\ Script[t - 1].kind = "move" /\ Script[t - 1].account = admins.paraSpaceAdmin
      BY <1>4, SMTT(60) DEF Behind, Proxied, Places, Script, Move, Grant, Revoke, Propose, Call,
                            OwnerOf, AdminOf
    <2>2. t \in {20, 22} => Wanted(t - 1)
      BY <1>4 DEF Wanted, Present
    <2>3. \A i \in Places : i < t => Settled(i)
      BY DEF Sending
    <2>4. Behind(Script[t].right) => AchievedIn(Script[t - 1], rights, potential)
      BY <2>1, <2>2, <2>3 DEF Settled
    <2>5. admins.paraSpaceAdmin # old /\ signer = old
      BY <1>3 DEF IInv, Progress, EntitledDuring
    <2>. QED
      BY <2>1, <2>4, <2>5 DEF AchievedIn
  <1>7. Script[t].right = OwnerOf("conduit") => Script[t].account # potential["conduit"]
    <2>1. SUFFICES ASSUME t = 13 PROVE Script[t].account # potential["conduit"]
      BY <1>4, AcceptedPowers
    <2>2. Script[t].account \in Accounts
      BY <1>4, ScriptTransactions DEF Transactions
    <2>3. call <= 13
      BY <1>4, <2>1
    <2>4. potential["conduit"] = NoAccount
      BY <1>1, <1>3, <2>3, AcceptedPowers DEF EntitledDuring
    <2>. QED
      BY <2>2, <2>4, HandoverAssumption
  <1>8. Accepts(Script[t])
    BY <1>5, <1>6, <1>7 DEF Accepts
  <1>. QED
    BY <1>8 DEF Refused

\* The step that RefusalHasCause allows.
Causes == interrupted = {} /\ pc = "run" /\ pc' = "aborted" /\ faults' = faults => Cause

\* If no run was interrupted, a transaction is refused only for one of the causes: the first
\* run, whatever the deployment, is never refused anything.
THEOREM RefusalHasCauseHolds == Spec => RefusalHasCause
  <1>1. IInv /\ Unbroken /\ [Next]_vars => [Causes]_vars
    <2>1. SUFFICES ASSUME IInv, Unbroken, Next, interrupted = {}, pc = "run", pc' = "aborted",
                          faults' = faults
                   PROVE  Cause
      BY DEF Causes
    <2>2. /\ \A s \in Accounts, a \in Admins : ~ Start(s, a)
          /\ ~ Finish
          /\ \A x \in Accepted : ~ AcceptOwnership(x)
          /\ \A t : ~ Sent(t)
      BY <2>1 DEF Start, Finish, AcceptOwnership, run, Sent
    <2>3. ~ Crash
      <3>1. faults \in Nat
        BY <2>1, HandoverAssumption DEF IInv, HandoverTypeOK
      <3>. QED
        BY <2>1, <3>1 DEF Crash
    <2>. QED
      BY <2>1, <2>2, <2>3, Steps, RefusedForACause
  <1>2. RefusalHasCause <=> [][Causes]_vars
    BY PTL DEF RefusalHasCause, Causes, Cause
  <1>. QED
    BY <1>1, <1>2, InitIInv, NextIInv, InitUnrepaired, NextUnrepaired, InitUnbroken, NextUnbroken, PTL
       DEF Spec
====
