SPECIFICATION Spec
CONSTANTS
    v0 = v0
    v1 = v1
    bad = bad
    Revision = Revision
    None = None
    Tag = {v0, v1, bad}
    Asked = {v0, bad}
    AskedHelm = {v0}
    Notices <- Posts
    ImageRef <- Image
    Bad = {bad}
    Adopted = {TRUE, FALSE}
    First = v1
    Older = v0
    MaxId = 5
    MaxAttempts = 2
    MidCrash = TRUE
CHECK_DEADLOCK FALSE
INVARIANTS
    OneAutoRollback
PROPERTIES
    RecordedIsLive
    BadImageNotReapplied
    
