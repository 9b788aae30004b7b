SPECIFICATION SourceSpec
CONSTANTS
    n1 = n1  n2 = n2
    LastVersion = 2
    Node = {n1, n2}
    Home = n1
    Unpinned = Unpinned
    MaxAttempts = 2
    MaxEvents = 2
CHECK_DEADLOCK FALSE
INVARIANTS
    ImageOnEveryNode
PROPERTIES
    AutoDeployConverges
