------------------------------ MODULE MCUpgrade ------------------------------
(***************************************************************************)
(* Two facets that are upgraded and the one that stays.  One release moves *)
(* a function from the core to the parameters, or back.                    *)
(***************************************************************************)
EXTENDS Upgrade

MCComponents == <<"PoolCore", "PoolParameters", "ParaProxyInterfaces">>
MCInterface ==
    [first |-> [PoolCore |-> <<"borrow", "supply">>, PoolParameters |-> <<"setAuction">>,
                ParaProxyInterfaces |-> <<"facets">>],
     moved |-> [PoolCore |-> <<"supply">>, PoolParameters |-> <<"setAuction", "borrow">>,
                ParaProxyInterfaces |-> <<"facets">>]]
MCReleases == DOMAIN MCInterface
=============================================================================
