\* Two users, three tokens, batches of up to three, two timestamps.
CONSTANTS
    Users = {alice, bob}
    Tokens = {t1, t2, t3}
    NoOwner = NoOwner
    NoToken = NoToken
    MaxBatch = 3
    MaxTime = 2
SYMMETRY MCSymmetry
SPECIFICATION LedgerSpec
INVARIANTS
    EnumerationsExact
    CountersExact
PROPERTY ImplementsNToken
