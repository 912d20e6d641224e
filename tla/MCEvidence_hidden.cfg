CONSTANTS
    Servers = {s}
    Operators = {o}
    Destinations = {d}
    None = None
    RotateSize = 2
    LegacyRecords = 2
    MaxSegments = 3
    MaxCalls = 0
    MaxCommands = 4
    MaxFaults = 1
SPECIFICATION Spec
SYMMETRY Symmetry
INVARIANT
    OpenRedactionsAreShown
CHECK_DEADLOCK FALSE
