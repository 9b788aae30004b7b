SPECIFICATION Spec
CONSTANTS
    v0 = v0  v1 = v1  flaky = flaky  broken = broken
    Tag = {v0, v1, flaky, broken}
    First = v1
    Older = v0
    Flaky = {flaky}
    Broken = {broken}
    Mode = {"rolling", "recreate", "canary", "blue-green"}
    Attempts = 4
    Threshold = 2
    CanaryTicks = 2
    AutoRollback = TRUE
    MayExpose = TRUE
    MaxStarts = 2
    MaxRestarts = 2
    None = None
CHECK_DEADLOCK FALSE
INVARIANTS
    FlippedHasReplicas
    CanaryIsTornDown
    
PROPERTIES
    NoTrafficBeforeFlip
    
