CONSTANTS
    Servers = {s}
    Operators = {o}
    Destinations = {d}
    None = None
    RotateSize = 2
    LegacyRecords = 2
    MaxSegments = 3
    MaxCalls = 1
    MaxCommands = 5
    MaxFaults = 1
SPECIFICATION Spec
SYMMETRY Symmetry
INVARIANTS
    ArchivesHoldWhatWasPlanned
    RedactionsAreOnRecord
PROPERTY
    RecordsAreKept
CHECK_DEADLOCK FALSE
