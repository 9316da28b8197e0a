SPECIFICATION Spec
CONSTANTS
    Providers = {p1, p2}
    Workers = {w1}
    Callers = {c1, c2}
    NoProvider = NoProvider
    SpanQueueSize = 1
    ErrorCodes = {"TAKEN", "CONFLICT"}
    MaxRegistrations = 2
    MaxTags = 2
    MaxBaseName = 2
    MaxGiven = 2
    HalfWord = 6
    MaxLimit = 2
    MaxRowId = 4
    InstanceNames <- MCNames
    MaxInstances = 2
    Payloads = {"picture"}
    MaxUploads = 2
INVARIANTS
    TypeOK
    TracesHoldTogether
    ShutdownIsHonest
    AnswersAreRegistered
    SetupIsAsGiven
    PagesHoldTheTable
    ConnectionsAreOnesOwn
    UrlsNameTheirObjects
SYMMETRY TracerSymmetry
CHECK_DEADLOCK FALSE
