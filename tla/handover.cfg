\* Six accounts, two sets of administrators, two deployments.
CONSTANTS
    deployer = deployer
    p = p
    e = e
    g = g
    k = k
    safe = safe
    Accounts = {deployer, p, e, g, k, safe}
    Deployer = deployer
    NoAccount = NoAccount
    Admins <- MCAdmins
    Deployments <- MCDeployments
    MaxFaults = 1
SPECIFICATION Spec
INVARIANTS
    AlwaysGoverned
    CompleteHandover
    InterruptedIsNeverRepaired
PROPERTIES
    RefusalHasCause
CHECK_DEADLOCK FALSE
