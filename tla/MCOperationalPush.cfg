SPECIFICATION FairSpec
CONSTANTS
    N = 3
    MaxBatch = 2
    Requests = {r1, r2}
    r1 = r1
    r2 = r2
    None = None
    MaxFaults = 1
INVARIANTS
    SettledIsStored
    
    StoredInOrder

    
