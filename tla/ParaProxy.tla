------------------------------ MODULE ParaProxy ------------------------------
(***************************************************************************)
(* The routing table of the pool's proxy (ParaProxyLib): for every         *)
(* selector the facet that serves it and its position in the facet's list, *)
(* for every facet its list and its position in the list of facets.  The   *)
(* three are kept inverse of each other by hand, with swap and pop, while  *)
(* functions are added, replaced and removed.  A cut that reverts is a     *)
(* table that is not ok.                                                   *)
(***************************************************************************)
EXTENDS Naturals, Sequences, SequencesExt

CONSTANT NoFacet    \* address(0)

EmptyTable(facets, selectors) ==
    [ok    |-> TRUE,
     impls |-> << >>,                              \* implementationAddresses
     at    |-> [f \in facets |-> 0],               \* implementationAddressPosition
     list  |-> [f \in facets |-> << >>],           \* functionSelectors
     route |-> [s \in selectors |-> NoFacet],      \* selectorToImplAndPosition: implAddress
     pos   |-> [s \in selectors |-> 0]]            \* and functionSelectorPosition

Revert(ds) == [ds EXCEPT !.ok = FALSE]

AddFacet(ds, f) ==
    [ds EXCEPT !.at[f] = Len(ds.impls), !.impls = Append(@, f)]

AddFacetIfNew(ds, f) == IF ds.list[f] = << >> THEN AddFacet(ds, f) ELSE ds

AddFunction(ds, s, f) ==
    [ds EXCEPT !.pos[s] = Len(ds.list[f]), !.list[f] = Append(@, s), !.route[s] = f]

\* The last facet takes the place of the facet that has no function left.
RemoveFacet(ds, f) ==
    LET moved == Last(ds.impls)
    IN  [ds EXCEPT !.impls = Front([@ EXCEPT ![ds.at[f] + 1] = moved]),
                   !.at[moved] = ds.at[f], !.at[f] = 0]

\* (mutant: the selector that takes the place keeps its old position)
MovedSelectorForgotten(ds, s) ==
    LET f == ds.route[s]
        moved == Last(ds.list[f])
        out == [ds EXCEPT !.list[f] = Front([@ EXCEPT ![ds.pos[s] + 1] = moved]),
                          !.pos[s] = 0, !.route[s] = NoFacet]
    IN  IF f = NoFacet THEN Revert(ds)
        ELSE IF out.list[f] = << >> THEN RemoveFacet(out, f) ELSE out

\* The last selector of the facet takes the place of the removed one.
RemoveFunction(ds, s) ==
    LET f == ds.route[s]
        moved == Last(ds.list[f])
        out == [ds EXCEPT !.list[f] = Front([@ EXCEPT ![ds.pos[s] + 1] = moved]),
                          !.pos[moved] = ds.pos[s],
                          !.pos[s] = 0, !.route[s] = NoFacet]
    IN  IF f = NoFacet THEN Revert(ds)
        ELSE IF out.list[f] = << >> THEN RemoveFacet(out, f) ELSE out

-----------------------------------------------------------------------------
\* What a cut does to one of its functions.
AddOne(ds, s, f) == IF ds.route[s] # NoFacet THEN Revert(ds) ELSE AddFunction(ds, s, f)

\* (mutant: a facet may replace itself)
SameFunctionReplaced(ds, s, f) ==
    LET without == RemoveFunction(ds, s)
    IN  IF ~ without.ok THEN Revert(ds) ELSE AddFunction(without, s, f)

ReplaceOne(ds, s, f) ==
    LET without == RemoveFunction(ds, s)
    IN  IF ds.route[s] = f \/ ~ without.ok THEN Revert(ds) ELSE AddFunction(without, s, f)

CutOne(ds, action, s, f) ==
    CASE action = "add"     -> AddOne(ds, s, f)
      [] action = "replace" -> ReplaceOne(ds, s, f)
      [] action = "remove"  -> RemoveFunction(ds, s)

\* The functions of a cut in their order, until one of them reverts.
CutAll(ds, action, selectors, f) ==
    LET after[n \in 0 .. Len(selectors)] ==
            IF n = 0 THEN ds
            ELSE LET before == after[n - 1]
                 IN  IF before.ok THEN CutOne(before, action, selectors[n], f) ELSE before
    IN  after[Len(selectors)]

AddFunctions(ds, f, selectors) ==
    IF selectors = << >> \/ f = NoFacet THEN Revert(ds)
    ELSE CutAll(AddFacetIfNew(ds, f), "add", selectors, f)

ReplaceFunctions(ds, f, selectors) ==
    IF selectors = << >> \/ f = NoFacet THEN Revert(ds)
    ELSE CutAll(AddFacetIfNew(ds, f), "replace", selectors, f)

RemoveFunctions(ds, f, selectors) ==
    IF selectors = << >> \/ f # NoFacet THEN Revert(ds)
    ELSE CutAll(ds, "remove", selectors, f)

Cut(f, action, selectors) == [implAddress |-> f, action |-> action, selectors |-> selectors]

Apply(ds, cut) ==
    CASE cut.action = "add"     -> AddFunctions(ds, cut.implAddress, cut.selectors)
      [] cut.action = "replace" -> ReplaceFunctions(ds, cut.implAddress, cut.selectors)
      [] cut.action = "remove"  -> RemoveFunctions(ds, cut.implAddress, cut.selectors)

\* One transaction: the cuts in their order, all of them or none.
UpdateImplementation(ds, cuts) ==
    LET after[n \in 0 .. Len(cuts)] ==
            IF n = 0 THEN ds
            ELSE LET before == after[n - 1]
                 IN  IF before.ok THEN Apply(before, cuts[n]) ELSE before
    IN  after[Len(cuts)]

-----------------------------------------------------------------------------
\* facetFunctionSelectors and facets of ParaProxyInterfaces.
FacetFunctionSelectors(ds, f) == IF f = NoFacet THEN << >> ELSE ds.list[f]
FacetAddresses(ds) == ds.impls
=============================================================================
