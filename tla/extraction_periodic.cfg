SPECIFICATION Spec
CONSTANTS
    v1 = v1  v2 = v2  v3 = v3  f1 = f1  f2 = f2
    w1 = w1  w2 = w2  r1 = r1  r2 = r2
    NoVersion = NoVersion
    Versions = {v1, v2}
    Families = {f1}
    FamilyOf <- OneFamily
    Requests = {r1}
    Workers = {w1}
    QueueSize = 1
    Modes = {FALSE}
    PeriodicRecovery = TRUE
    Administration = TRUE
    CatalogFaults = TRUE
INVARIANTS
    InFlightAccounted
    ProvenanceStored
