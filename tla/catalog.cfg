SPECIFICATION Spec
CONSTANTS
    a = a  b = b  s1 = s1  s2 = s2  s3 = s3  c1 = c1  c2 = c2
    Name = {a, b}
    Cluster = {c1, c2}
    Namespace = {n1}
    Slot = {s1, s2, s3}
    LoPort = 1
    HiPort = 2
    Templates <- Catalog
    Orders <- Asks
    MaxRequests = 3
    None = None
    n1 = n1
SYMMETRY Symmetry
CHECK_DEADLOCK FALSE

    
    
PROPERTIES
    PruneSparesEarlier
