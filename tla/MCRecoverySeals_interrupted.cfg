CONSTANTS
    Processes = {p, q}
    Batches = {b}
    None = None
    OldContents <- BeforeMigration
    MaxWrites = 2
    MaxBundles = 3
    MaxFaults = 1
SPECIFICATION FairSpec
PROPERTY
    InterruptedSealCanEnd
CHECK_DEADLOCK FALSE
