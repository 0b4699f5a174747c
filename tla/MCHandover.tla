------------------------------ MODULE MCHandover ------------------------------
EXTENDS Handover

CONSTANTS deployer, p, e, g, k, safe

OneAdmin(a) == [paraSpaceAdmin |-> a, emergencyAdmin |-> a, gatewayAdmin |-> a, riskAdmin |-> a]

\* Four signers of a test network, and one account that is everything, as on main networks.
MCAdmins ==
    {[paraSpaceAdmin |-> p, emergencyAdmin |-> e, gatewayAdmin |-> g, riskAdmin |-> k],
     OneAdmin(safe)}

Gated == {"WETHGatewayProxy", "WPunkGatewayProxy"}

\* Everything, and a market without punks and ApeCoin.
MCDeployments ==
    {Proxied \union Gated \union {"NFTFloorOracle"},
     {"WETHGatewayProxy", "TimeLockProxy", "NFTFloorOracle"}}
===============================================================================
