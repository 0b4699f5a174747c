SPECIFICATION FairSpec
CONSTANTS
    Networks <- AllNetworks
    MaxFaults = 1
INVARIANTS
    AbortHasCause
    CoherentSystem
    NothingElseSkipped
    GettersFindTheirContracts
PROPERTIES
    EventuallyDeployed
CHECK_DEADLOCK FALSE
