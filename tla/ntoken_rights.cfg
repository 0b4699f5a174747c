\* Two users, two tokens, two delegates.
CONSTANTS
    Users = {alice, bob}
    Tokens = {t1, t2}
    Delegates = {d1, d2}
    NoOwner = NoOwner
    MaxTime = 1
SYMMETRY MCSymmetry
SPECIFICATION RightsSpec
INVARIANTS
    RecordedDelegationIsActive
PROPERTIES
    ApprovalEndsWithOwnership
    OnlyHoldersOrphan
