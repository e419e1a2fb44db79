SPECIFICATION Spec
CONSTANTS
    d1 = d1  d2 = d2
    v1 = v1  v2 = v2
    s1 = s1
    e1 = e1  e2 = e2
    t1 = t1  t2 = t2
    None = None
    Documents = {d1, d2}
    Versions = {v1, v2}
    Sections = {s1}
    Entities = {e1, e2}
    DocumentOf <- TwoDocuments
    SectionsOf <- OneSection
    Triples <- OneTriple
    Tasks = {t1}
    Backends = {"in-memory", "neo4j"}
    Purges = {}
    Failures = FALSE
    Crashes = FALSE
    MaxCut = 1
INVARIANT ChunksAreTheVersions
