SPECIFICATION ConsoleFairSpec
CONSTANTS
    MaxRows = 2
    MaxStreams = 2
    MaxShells = 2
    ShellCap = 1
    MaxPolls = 2
    MaxEvents = 3
CHECK_DEADLOCK FALSE
INVARIANTS
    NoShellBehindAClosedTerminal
PROPERTIES
    NoKubectlWithoutClient
    SheetCatchesUp
