SPECIFICATION Spec
CONSTANTS
    NONE = NONE
    Fixed <- OnlyVms
    Fragile = {"vms"}
    OTHER_CLUSTER_CALLS = 1
    SLOTS = 2
    TASK_TIMEOUT = 2
    CLUSTER_TIMEOUT = 3
    OUTER_TIMEOUT = 4
PROPERTY DownHostPublishesNothing
