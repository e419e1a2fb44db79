SPECIFICATION ServicesSpec
CONSTANTS
  d1 = d1
  d2 = d2
  k1 = k1
  k2 = k2
  s1 = s1
  s2 = s2
  s3 = s3
  u1 = u1
  u2 = u2
  c1 = c1
  c2 = c2
  c3 = c3
  Parts = {"taxonomy", "publication", "routing", "enrichment", "cascade", "listing", "relations", "reads", "model", "search", "graph", "topics", "keyed", "audit", "schema"}
  Administrators = {d1, d2}
  MaxVersion = 2
  Concepts = {c1}
  NoVersion = NoVersion
  Files <- SampleFiles
  CategoryIds = {c1, c2, c3}
  MaxTaxonomyDepth = 2
  MaxPublications = 2
  Missing = Missing
  TopLevel = TopLevel
  NotConfigured = NotConfigured
  ScoredVersions = {d1, d2}
  ContentTypeOf <- TypeOfScored
  BaselineRate = 50
  RampFactor = 200
  DriftThreshold = 60
  MaxSamples = 2
  Unscored = Unscored
  Projections = {d1, d2}
  Hooks <- HookSets
  MaxItems = 3
  PageLimit = 1
  Documents = {doc}
  Scopes = {s1, s2, s3}
  Cascades = {k1, k2}
  NoScope = NoScope
  DocumentCount = 5
  Callers = {u1, u2}
  OwnerOf <- Owners
  FixedUser = u1
  AuthModes <- Modes
  StatusFilters <- Asking
  VersionLists <- Histories
  PageSize = 2
  MaxChanges = 1
  Refused = Refused
  EveryScope = EveryScope
  Related = {d1, d2}
  EdgeRanks = {1, 2}
  CacheTopN = 1
  Projecting = {w1}
  Reading = {u1}
  NoEvidence = NoEvidence
  AccessModes = {"enforced", "disabled"}
  Sections <- CitedSections
  BatchSizes = {1, 2}
  TokenBudget = 2
  AnswerCosts = {1, 2}
  MaxRetries = 1
  MaxConcurrent = 1
  BackoffCap = 2
  ChunkOwner <- OwnersOfChunks
  ChunkTopic <- TopicsOfChunks
  Previewed = {1, 3}
  Orders <- Findings
  WordOrders <- WordFindings
  SearchLimit = 2
  CandidatePool = 2
  RrfK = 60
  Scale = 238266
  NodeOwner <- OwnersOfNodes
  EdgeEnds <- EndsOfEdges
  EdgeWriter <- WritersOfEdges
  EdgeScore <- ScoresOfEdges
  EdgeKeywords <- KeywordsOfEdges
  NotScored = 101
  Roots = {1}
  Depths = {2}
  EdgeLimits = {1, 3}
  Floors = {0, 50}
  NodesPerPage = 2
  MaxGraphChanges = 1
  Words = {1, 2, 3}
  Texts <- SampleTexts
  ChunkOrder <- OrderOfChunks
  KeywordLimit = 2
  TopicKeywordLimit = 2
  NearDuplicate = 60
  SameTopicKeywords = 2
  SameTopicJaccard = 50
  ClusterKeywords = 2
  Clients = {d1, d2}
  Keys = {key, NoKey}
  NoKey = NoKey
  Generators = {structure_first, semantic_intelligence}
  DefaultMethod = structure_first
  NoMethod = NoMethod
  MaxRuns = 2
  LoggingThreads = {d1, d2}
  MaxEvents = 3
  LastTime = 1
  AuditLimit = 1
  NoRecord = NoRecord
  Openers = {d1, d2}
  Releases = {0, 1, 2, 3, 14, 15}
  Lacks <- LegacyHoles
SYMMETRY Symmetry
INVARIANTS
  ServicesTypeOK
  OneTaxonomyValidated
  TaxonomyAsAuthored
  RoutingsAreCounted
  BatchesNeverMix
  OrphansAreArchived
  PagedWalksAreComplete
  CachedIsCurrent
  AnswersAreTrue
  ModelIsUsedWell
  AnswersAreGrounded
  ReadingsAddUp
  TopicsAreComponents
  KeysKeepTheirPromise
  SchemaFollowsStamps
PROPERTIES
  ReviewedTreeStands
CHECK_DEADLOCK FALSE
