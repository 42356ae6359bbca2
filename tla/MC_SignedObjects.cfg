SPECIFICATION Spec
CONSTANTS
    a1 = a1  b1 = b1
    Asn = {a1, a2}
    Prefix = {p1, p2}
    Provider = {q1}
    Router = {b1, b2}
    RouterAsn <- MCRouterAsn
    Aggregate = 2
    Deaggregate = 2
    MaxKeys = 2
    MaxCrashes = 1
    MaxClasses = 2
    Keep = Keep  Drop = Drop  None = None
SYMMETRY MCSymmetry
INVARIANTS RoasFollowRoutes  PublishedIsSigned 
