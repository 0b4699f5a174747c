---------------------------- MODULE MCDeployment ----------------------------
EXTENDS Deployment

\* Every network there is a configuration for.
AllNetworks == DOMAIN ParaSpaceConfigs
=============================================================================
