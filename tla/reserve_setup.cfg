SPECIFICATION FairSpec
CONSTANTS
    Networks <- AllNetworks
    MaxFaults = 2
INVARIANTS
    CompleteRunSetsUpAll
    AbortHasCause
    ListedReservesHavePrices
    StrategiesFit
PROPERTIES
    EventuallySetUp
CHECK_DEADLOCK FALSE
