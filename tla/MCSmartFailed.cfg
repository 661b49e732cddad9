SPECIFICATION SidecarDataSpec
CONSTANTS
    Endpoints = {"sensors", "smart", "memory"}
    PATIENCE <- Patience
    WORK <- QuickWork
    SLOW_WORK = 5
    PERIOD = 4
    BACKLOG = 5
    NoValue = NoValue
    Racks <- SomeRacks
    Counts = {0, 11, 101}
    Temps = {40, 61}
    MAX_WEAR = 2
    NoReading = NoReading
    Boards <- SomeBoards
    Levels <- SomeLevels
    NVME_LIMIT = 80
    NvmeDisks = {"disk1", "disk2"}
    SmartTemps = {41}
INVARIANT FailedDiskIsReported
