SPECIFICATION FairSpec
CONSTANTS
    p1 = p1  p2 = p2  k1 = k1  k2 = k2  k3 = k3  t1 = t1  t2 = t2
    Cluster = {1, 2}
    Path = {p1, p2}
    Machine = {k1, k2, k3}
    Content <- Files
    Token = {t1, t2}
    Minted = {t1}
    TokenOf <- TokensOf
    Configured = {1}
    SeedPath = p1
    MaxProbes = 2
    MaxChanges = 3
    None = None
    Down = Down
INVARIANTS
    KubeconfigIsItsOwn
PROPERTIES
    CapabilitiesConverge
