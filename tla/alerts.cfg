SPECIFICATION Spec
CONSTANTS
    pod = pod  job = job  Unreadable = Unreadable
    Condition = {pod, Unreadable}
    Event = {job}
    Critical = {job}
    MaxPerCycle = 1
    Cooldown = 1
    ResolveAfter = 0
    Retention = 0
    Oldest = 1
    Cap = 1
    Never = Never
INVARIANTS
    QueuedHasTimer
PROPERTIES
    ClosedWasGone
    GoneIsClosed
