SPECIFICATION Spec
CONSTANTS
    NoFacet = NoFacet
    Components <- MCComponents
    Releases <- MCReleases
    Interface <- MCInterface
    MaxRuns = 2
INVARIANTS TableExact ServedAsReleased
PROPERTIES RepeatedUpdateReverts
CHECK_DEADLOCK FALSE
