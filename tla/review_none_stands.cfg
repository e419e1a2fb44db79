SPECIFICATION CasesSpec
CONSTANTS
    v1 = v1  v2 = v2  v3 = v3
    t1 = t1  t2 = t2
    m1 = m1  m2 = m2
    None = None
    Versions = {v1, v2}
    Number <- TwoNumbers
    Threads = {t1, t2}
    Methods = {m1}
    AutoPromotion = TRUE
    Crashes = FALSE
    Cases = {"concurrent"}
INVARIANTS
    SomeVersionStands
