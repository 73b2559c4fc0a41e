SPECIFICATION Spec
CONSTANTS
    t1 = t1
    t2 = t2
    b1 = b1
    b2 = b2
    None = None
    Tenants <- TwoTenants
    Buildings <- TwoBuildings
    MaxUploads = 2
    MaxRequests = 6
SYMMETRY Symmetry
INVARIANTS OrphansWereInFlight DeletionsAtomic TwinsFromOverlap
CHECK_DEADLOCK FALSE
