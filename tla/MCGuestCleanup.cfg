SPECIFICATION Spec
CONSTANTS
    v1 = v1
    ct1 = ct1
    n1 = n1
    n2 = n2
    NONE = NONE
    VMs = {v1}
    CTs = {ct1}
    Movers = {v1}
    Keyed = {v1}
    Nodes = {n1, n2}
    Own = n1
PROPERTY CleanupSparesKnownGuests
