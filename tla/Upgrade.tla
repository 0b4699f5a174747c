------------------------------- MODULE Upgrade -------------------------------
(***************************************************************************)
(* Upgrades of the pool.  A script compares the functions of a new facet   *)
(* with those that the proxy has for the old one and turns the difference  *)
(* into cuts.  As long as the signer owns the address book the cuts are    *)
(* applied at once; afterwards (DRY_RUN) they are noted, and whoever owns  *)
(* the address book carries them out later: in any order, again after they *)
(* were renewed, or never, on a table that may have changed in between.    *)
(* Delays and hashes of the executor only restrict this further.           *)
(***************************************************************************)
EXTENDS ParaProxy, FiniteSets

CONSTANTS
    Components,            \* the facets of the pool, in the order of their deployment
    Releases, Interface,   \* Interface[release][component]: the selectors of its contract
    MaxRuns                \* how many upgrades deploy facets after the deployment of the pool

Selectors == UNION {ToSet(Interface[r][Components[i]]) : r \in Releases, i \in 1 .. Len(Components)}
Facets == ToSet(Components) \X (1 .. MaxRuns + 1)

ASSUME UpgradeAssumption ==
    /\ MaxRuns \in Nat
    /\ NoFacet \notin Facets
    /\ Components \in Seq(ToSet(Components))
    /\ \A r \in Releases, i \in 1 .. Len(Components) :
           /\ Interface[r][Components[i]] \in Seq(Selectors) \ {<< >>}
           /\ IsInjective(Interface[r][Components[i]])

VARIABLES
    ds,          \* the routing table of the proxy
    owner,       \* of the address book: "signer", later "governance"
    releaseOf,   \* the release each run deployed; facet <<c, n>> was deployed by run n
    noted,       \* the updates handed to governance
    resetting,   \* whether reset:pool has sent its removals and not yet its additions
    latest,      \* the cuts applied last
    orderly      \* whether all updates came from the table they were applied to

table == <<ds, latest, orderly>>
vars == <<table, owner, releaseOf, noted, resetting>>

FacetSelectors(f) == Interface[releaseOf[f[2]]][f[1]]

\* The facets of a component that were deployed at some time.
Deployed(c) == {f \in Facets : f[1] = c /\ f[2] <= Len(releaseOf)}
\* The facets that the proxy lists for a component.
Serving(c) == {f \in ToSet(FacetAddresses(ds)) : f[1] = c}

-----------------------------------------------------------------------------
\* getPoolSignatures throws if two facets of a release have a selector in common.
Compiles(r) ==
    \A i, j \in 1 .. Len(Components) :
        i # j => ToSet(Interface[r][Components[i]]) \intersect ToSet(Interface[r][Components[j]]) = {}

\* The elements of a sequence that are in S, in their order.
Kept(seq, S) ==
    LET kept[n \in 0 .. Len(seq)] ==
            IF n = 0 THEN << >>
            ELSE IF seq[n] \in S THEN Append(kept[n - 1], seq[n]) ELSE kept[n - 1]
    IN  kept[Len(seq)]

CutIfAny(f, action, selectors) ==
    IF selectors = << >> THEN << >> ELSE << Cut(f, action, selectors) >>

\* (mutant: what the new facet lacks stays with the old one)
NothingRemoved(f, new, old) ==
    CutIfAny(f, "replace", Kept(new, ToSet(old)))
    \o CutIfAny(f, "add", Kept(new, ToSet(new) \ ToSet(old)))

CutsFor(f, new, old) ==
    CutIfAny(NoFacet, "remove", Kept(old, ToSet(old) \ ToSet(new)))
    \o CutIfAny(f, "replace", Kept(new, ToSet(old)))
    \o CutIfAny(f, "add", Kept(new, ToSet(new) \ ToSet(old)))

\* The cuts for the components cs; old names the facet that each of them replaces.
UpgradeProxyImplementations(r, run, cs, old) ==
    FlattenSeq([i \in DOMAIN cs |->
        CutsFor(<<cs[i], run>>, Interface[r][cs[i]], FacetFunctionSelectors(ds, old[cs[i]]))])

\* One transaction: if a cut fails nothing is changed.
UpdatePoolImpl(u) ==
    LET after == UpdateImplementation(ds, u.cuts)
    IN  IF ~ after.ok THEN UNCHANGED table
        ELSE /\ ds' = after /\ latest' = u.cuts
             /\ orderly' = (orderly /\ u.named /\ u.basis = ds.route)

\* The signer sends an update as long as it owns the address book; then it is noted (dryRunEncodedData).
\* For the properties an update has the routes it was computed for, and whether it names the right facets.
Submit(u) ==
    IF owner = "signer" THEN UpdatePoolImpl(u) /\ UNCHANGED noted
    ELSE noted' = noted \union {u} /\ UNCHANGED table

Update(cuts, basis, named) == [cuts |-> cuts, basis |-> basis, named |-> named]

Deploy(r) == Len(releaseOf) <= MaxRuns /\ Compiles(r) /\ releaseOf' = Append(releaseOf, r)

\* Whether the operator names the facets that serve the components now.
Current(cs, old) == \A i \in DOMAIN cs : Serving(cs[i]) \subseteq {old[cs[i]]}

UpgradeComponents(r, cs, old) ==
    /\ Deploy(r)
    /\ Submit(Update(UpgradeProxyImplementations(r, Len(releaseOf) + 1, cs, old),
                     ds.route, Current(cs, old)))
    /\ UNCHANGED <<owner, resetting>>

PoolComponents ==
    Kept(<<"PoolCore", "PoolMarketplace", "PoolParameters", "PoolApeStaking">>, ToSet(Components))

\* upgrade:pool
UpgradePool(r) ==
    \E old \in [ToSet(PoolComponents) -> Facets] :
        /\ \A c \in ToSet(PoolComponents) : old[c] \in Deployed(c)
        /\ UpgradeComponents(r, PoolComponents, old)

\* upgrade:pool-core and its siblings; only the borrow-and-stake facet may have no predecessor.
UpgradeComponent(r, c) ==
    \E f \in Deployed(c) \union (IF c = "PoolBorrowAndStake" THEN {NoFacet} ELSE {}) :
        UpgradeComponents(r, << c >>, [x \in {c} |-> f])

\* reset:pool removes all but the facet of facets() ...
ResetSelectors ==
    /\ ~ resetting /\ resetting' = TRUE
    /\ LET others == Kept(FacetAddresses(ds), {f \in Facets : f[1] # "ParaProxyInterfaces"})
       IN  Submit(Update([i \in DOMAIN others |-> Cut(NoFacet, "remove", ds.list[others[i]])],
                         ds.route, TRUE))
    /\ UNCHANGED <<owner, releaseOf>>

\* ... and then adds the components of the release, as if nothing else were there.
ResetPool(r) ==
    /\ resetting /\ resetting' = FALSE
    /\ Deploy(r)
    /\ LET nothing == [c \in ToSet(PoolComponents) |-> NoFacet]
           emptied == [s \in Selectors |-> IF ds.route[s] \in Deployed("ParaProxyInterfaces")
                                           THEN ds.route[s] ELSE NoFacet]
       IN  Submit(Update(UpgradeProxyImplementations(r, Len(releaseOf) + 1, PoolComponents, nothing),
                         emptied, TRUE))
    /\ UNCHANGED owner

\* The process dies, or the components cannot be deployed.
ResetFails ==
    /\ resetting /\ resetting' = FALSE
    /\ UNCHANGED <<table, owner, releaseOf, noted>>

\* The address book changes hands (23_renounceOwnership).
HandOver ==
    /\ owner = "signer" /\ owner' = "governance"
    /\ UNCHANGED <<table, releaseOf, noted, resetting>>

\* An update that was noted is carried out.
Execute ==
    /\ \E u \in noted : UpdatePoolImpl(u)
    /\ UNCHANGED <<owner, releaseOf, noted, resetting>>

-----------------------------------------------------------------------------
\* One transaction for each component.
InitialTable(r) ==
    LET after[n \in 0 .. Len(Components)] ==
            IF n = 0 THEN EmptyTable(Facets, Selectors)
            ELSE UpdateImplementation(after[n - 1],
                     << Cut(<<Components[n], 1>>, "add", Interface[r][Components[n]]) >>)
    IN  after[Len(Components)]

Init ==
    /\ \E r \in Releases : Compiles(r) /\ ds = InitialTable(r) /\ releaseOf = << r >>
    /\ owner = "signer" /\ noted = {} /\ resetting = FALSE
    /\ latest = << >> /\ orderly = TRUE

Next ==
    \/ \E r \in Releases : UpgradePool(r) \/ ResetPool(r)
    \/ \E r \in Releases, i \in DOMAIN Components :
           Components[i] # "ParaProxyInterfaces" /\ UpgradeComponent(r, Components[i])
    \/ ResetSelectors \/ ResetFails \/ HandOver \/ Execute

Spec == Init /\ [][Next]_vars

-----------------------------------------------------------------------------
(***************************************************************************)
(* The three parts of the table agree after every update, however plans    *)
(* were mixed, delayed or repeated: the facets listed are those that serve *)
(* a function, each once, and the lists and the positions are inverse.     *)
(***************************************************************************)
TableExact ==
    /\ ds.ok
    /\ IsInjective(ds.impls)
    /\ ToSet(ds.impls) = {ds.route[s] : s \in Selectors} \ {NoFacet}
    /\ \A i \in DOMAIN ds.impls : ds.at[ds.impls[i]] = i - 1
    /\ \A f \in Facets :
           /\ IsInjective(ds.list[f])
           /\ ToSet(ds.list[f]) = {s \in Selectors : ds.route[s] = f}
           /\ \A i \in DOMAIN ds.list[f] : ds.pos[ds.list[f][i]] = i - 1

(***************************************************************************)
(* As long as every update is applied to the table it was computed from,   *)
(* and names the facets that served then, no superseded facet serves a     *)
(* function: each component has one facet at most, with the functions of   *)
(* its release and no other.  A plan made before another one was executed, *)
(* a repeated plan and a wrong address are what can break it.              *)
(***************************************************************************)
ServedAsReleased ==
    orderly => \A i \in DOMAIN Components :
                   /\ Cardinality(Serving(Components[i])) <= 1
                   /\ \A f \in Serving(Components[i]) :
                          ToSet(ds.list[f]) = ToSet(FacetSelectors(f))

(***************************************************************************)
(* An update that is sent twice in a row, because its first transaction    *)
(* was thought lost, reverts the second time or leaves the table as it is: *)
(* what it added is there, what it removed is gone, and a facet may not    *)
(* replace itself.                                                         *)
(***************************************************************************)
RepeatedUpdateReverts == [][latest' = latest => ds' = ds]_vars
=============================================================================
