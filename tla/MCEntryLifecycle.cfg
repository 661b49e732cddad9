SPECIFICATION Spec
CONSTANTS
    p1 = p1
    p2 = p2
    b1 = b1
    k1 = k1
    k2 = k2
    t1 = t1
    t2 = t2
    NONE = NONE
    PVEs = {p1, p2}
    PBSs = {}
    Clusters = {k1, k2}
    Tasks = {t1, t2}
SYMMETRY Alike
INVARIANTS
    TypeOK
    DataIsLoaded
    ServicesFollowEntries
PROPERTY OnlyItsParentRemoves
