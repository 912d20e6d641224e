CONSTANTS
    a = a
    b = b
    c = c
    l1 = l1
    l2 = l2
    None = None
    Generations <- TwoGenerations
    Legacy = {}
    MaxFaults = 0
SPECIFICATION Spec
INVARIANT
    ActiveGenerationIsNotDrained
CHECK_DEADLOCK FALSE
