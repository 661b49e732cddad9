SPECIFICATION Spec
CONSTANTS
    h1 = h1
    v1 = v1
    v2 = v2
    ct1 = ct1
    Handlers = {h1}
    VMs = {v1, v2}
    CTs = {ct1}
    MAX_CONCURRENT = 2
    MAX_GUESTS = 3
PROPERTY SuccessMeansStarted
