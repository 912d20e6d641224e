CONSTANTS
    p = p
    q = q
    v = v
    r1 = r1
    Opener <- TwoOpeners
    Row <- OneRow
    FirstVersions <- OldVersions
    MaxOpens = 1
    MaxCrashes = 1
SYMMETRY SameOpeners
SPECIFICATION Spec
INVARIANT
    OpenedIsWhole
    MarksAreKept
PROPERTY
    OpenersLoseNothing
CHECK_DEADLOCK FALSE
