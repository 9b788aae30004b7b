SPECIFICATION Spec
CONSTANTS
    s1 = s1  s2 = s2
    Val <- Values
    Raw <- Texts
    None = None  Bad = Bad  Missing = Missing  Failed = Failed
    Slot = {s1, s2}
    Modes = {"warn", "block"}
    MaxEvents = 4
SYMMETRY Symmetry
CHECK_DEADLOCK FALSE
INVARIANTS
    EditsReachTheCluster
    PodsFollow
PROPERTIES
    KeepsOutsideEdits
    SavesReadBack
