CONSTANTS
    a = a
    b = b
    c = c
    l1 = l1
    l2 = l2
    None = None
    Generations <- WithLegacy
    Legacy <- LegacyPair
    MaxFaults = 3
SPECIFICATION FairSpec
INVARIANT
    SettledMapIsWhole
    ActiveReadbackWasPublished
PROPERTY
    ImplementsSwitch
    JournalSettles
CHECK_DEADLOCK FALSE
