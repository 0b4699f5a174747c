\* One delegate revoked by the name of another.
CONSTANTS
    Users = {alice, bob}
    Tokens = {t1, t2}
    Delegates = {d1, d2}
    NoOwner = NoOwner
    MaxTime = 1
SYMMETRY MCSymmetry
SPECIFICATION RightsSpec
PROPERTY DelegationEndsWithOwnership
