SPECIFICATION Spec
CHECK_DEADLOCK FALSE
CONSTANTS
    Proposals = {"p"}
    MaxWaiting = 2
    MaxPending = 1
    MaxVersion = 2
    MaxRetentionFaults = 2
    Titles = {"a", "b", "B"}
    Lookalikes = {"b", "B"}
    Exchanges = {"e"}
    Statements = {"s"}
    MaxEpisodes = 3
    MaxHypotheses = 1
    MaxParents = 1
    MaxOpens = 1
    HunchPages = {"p", "q"}
    MaxHunchRevisions = 4
    MaxHunchMessages = 1
    MaxHunchFaults = 1
    SourceEvents = 2
    BundleSize = 3
    Sizes = {1, 2}
    MaxMessages = 3
    MaxEdits = 2
    MaxMaintenanceFaults = 1
    MigrationBatch = 1
    MaxEntries = 4
    MaxTranscriptFaults = 1
    HistoryPage = 1
    LiveLimit = 2
    MaxSaid = 3
    MaxRestarts = 1
    Kinds <- MCKinds
    Spaces = {"v1", "v2"}
    IndexBatch = 1
    MaxClusters = 2
    ContextSide = 1
    MaxShown = 2
    MaxRows = 2
    MaxSearchFaults = 1
    Remembered <- MCRemembered
    MaxPcp = 1
    MaxLocal = 1
    MaxProfile = 1
    RecallSize = 4
    FinalSize = 2
    MaxDepth = 2
    BridgeTopics <- MCTopics
    BridgeSaid <- MCSaid
    BridgeDocuments <- MCDocuments
    BridgePictures <- MCPictures
    TopicLimit = 1
    EvidenceLimit = 2
    EvidenceChars = 2
    PageLimit = 1
    RelatedLimit = 1
    EvidenceBudget = 3
    ExpandLimit = 2
    MaxRead = 3
    MaxSources = 1
    MaxPictures = 1
    MaxPictureReads = 1
    MaxRetractions = 1
    Workers = {"exploration", "maintenance"}
    TokenLimit = 1
    ReflectionLimit = 1
    InterruptLimit = 1
    NoteLimit = 1
    Retained = 2
    MaxCompleted = 3
    MaxDay = 1
    MaxRestores = 1
    MaxUsageFaults = 1
    RuleTopics = {"a"}
    MaxPolicies = 2
    MaxPolicyEdits = 2
    MaxPolicyFaults = 1
    Inventory <- MCInventory
    Cited <- MCCited
    Quotable = {1, 2}
    ReviewBatch = 1
    MaxPages = 1
    MaxRepairRevisions = 2
    MaxRepairFaults = 1
INVARIANT RetentionIsExact
 
INVARIANT HunchesStayWhole
 
INVARIANT TokensStopAtTheLimit
 
PROPERTY MessagesArrive
PROPERTY RepairsAreSound
 
