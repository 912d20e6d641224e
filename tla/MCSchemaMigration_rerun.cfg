CONSTANTS
    p = p
    q = q
    v = v
    r1 = r1
    Opener <- OneOpener
    Row <- OneRow
    FirstVersions <- AtCollapse
    MaxOpens = 2
    MaxCrashes = 1
SPECIFICATION Spec
INVARIANT
    InterruptedCollapseConverges
CHECK_DEADLOCK FALSE
