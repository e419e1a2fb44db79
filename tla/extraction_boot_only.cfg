SPECIFICATION Spec
CONSTANTS
    v1 = v1  v2 = v2  v3 = v3  f1 = f1  f2 = f2
    w1 = w1  w2 = w2  r1 = r1  r2 = r2
    NoVersion = NoVersion
    Versions = {v1, v2, v3}
    Families = {f1, f2}
    FamilyOf <- TwoFamilies
    Requests = {r1, r2}
    Workers = {w1, w2}
    QueueSize = 1
    Modes = {TRUE, FALSE}
    PeriodicRecovery = FALSE
    Administration = FALSE
    CatalogFaults = TRUE
SYMMETRY ThreadSymmetry
INVARIANTS
    TypeOK
    SoleExtractor
    NoDoubleEnqueue
    QueueBounded
PROPERTIES
    ReviewGateHolds
    ImplementsLifecycle
