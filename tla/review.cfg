SPECIFICATION CasesSpec
CONSTANTS
    v1 = v1  v2 = v2  v3 = v3
    t1 = t1  t2 = t2
    m1 = m1  m2 = m2
    None = None
    Versions = {v1, v2, v3}
    Number <- NumberOf
    Threads = {t1, t2}
    Methods = {m1, m2}
    AutoPromotion = TRUE
    Crashes = TRUE
    Cases = {"serial", "concurrent"}
SYMMETRY ThreadSymmetry
INVARIANTS
    TypeOK
    SerialReviewsAgree
    ReviewedHasContent
PROPERTIES
    SerialFollowsTable
