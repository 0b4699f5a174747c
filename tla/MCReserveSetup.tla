--------------------------- MODULE MCReserveSetup ---------------------------
EXTENDS ReserveSetup

\* Every network there is a configuration for.
AllNetworks == DOMAIN ParaSpaceConfigs
=============================================================================
