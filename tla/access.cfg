SPECIFICATION AccessSpec
CONSTANTS
    Tabs = {t1, t2}
    Tokens = {"ci"}
    Hooks = {"push"}
    Services = {"api", "web"}
    Clusters = {"c1", "c2"}
    Where <- MCWhere
    Grants <- MCGrants
    MaxLogins = 2
    MaxRows = 3
    MaxTime = 2
    MaxEvents = 4
    Ttl = 1
    Window = 1
    Limit = 1
    Page = 1
    Keep = 2
    Every = 3
SYMMETRY Symm
CHECK_DEADLOCK FALSE
INVARIANTS
    FreshTabsMayAct
    PagesAreComplete
