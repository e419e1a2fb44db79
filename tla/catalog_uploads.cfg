SPECIFICATION CasesSpec
CONSTANTS
    d1 = d1  d2 = d2
    v1 = v1  v2 = v2  v3 = v3
    h1 = h1  h2 = h2
    k1 = k1
    a1 = a1  a2 = a2
    None = None
    Documents = {d1, d2}
    Versions = {v1, v2, v3}
    Hashes = {h1}
    Keys = {k1}
    Requests <- PlainSinglesKeyedBatches
    Admins = {a1, a2}
    Failures = TRUE
    Crashes = TRUE
    MaxStray = 1
    Cases = {"versions", "purges"}
SYMMETRY IdSymmetry
INVARIANTS
    TypeOK
    DuplicatesPointAtOriginals
    LatestIsNewest
    BytesFollowRows
PROPERTIES
    AnsweredOnce
    ImplementsRegistry
CHECK_DEADLOCK FALSE
