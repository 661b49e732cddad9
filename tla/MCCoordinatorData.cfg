SPECIFICATION CoordinatorDataSpec
CONSTANTS
    NONE = NONE
    s1 = s1
    s2 = s2
    Fixed <- FixedSections
    Fragile = {"vms"}
    OTHER_CLUSTER_CALLS = 1
    SLOTS = 2
    TASK_TIMEOUT = 2
    CLUSTER_TIMEOUT = 3
    OUTER_TIMEOUT = 4
    Stores = {s1, s2}
    StoreLists <- Lists
    CLUSTER_OUTER_TIMEOUT = 2
    NoTime = NoTime
    g1 = g1
    g2 = g2
    Guests = {g1, g2}
    Jobs <- SomeJobs
    WINDOW = 1
    DAY = 1
    HORIZON = 3
    MAX_TASKS = 2
    Never = Never
    Datastores = {s1}
    OtherStores = {s2}
    SameButCase <- Capitals
    BeginsWith <- Itself
    NamedKinds = {"verify", "prune"}
    LATEST_TIME = 3
    MAX_JOBS = 2
    MAX_BACKUPS = 1
INVARIANTS
    TypeOK
    EarlyCallsAreServed
    HealthyMeansRecent
    ErrorIsCounted
    MaintenanceIsTrue
PROPERTIES
    SnapshotIsWhole
    ImplementsLastGood
    PbsSnapshotIsWhole
    ClusterImplementsLastGood
