CONSTANTS
    p = p
    q = q
    v = v
    r1 = r1
    Opener <- ThreeOpeners
    Row <- OneRow
    FirstVersions <- AtCollapse
    MaxOpens = 1
    MaxCrashes = 0
SYMMETRY SameThree
SPECIFICATION Spec
INVARIANT
    CollapseIsBackedUp
CHECK_DEADLOCK FALSE
