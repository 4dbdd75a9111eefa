\* A thread that moves between two CPUs captures three chunks.
SPECIFICATION FairSpec
CONSTANTS
    Cpus = {c1, c2}
    Window = 2
    Jitter = 1
    Retention = 3
    Settle = 2
    MaxSeq = 3
    None = None
INVARIANTS SkipsOnlyTheLost GapsAreExact 
PROPERTY EntriesExpire
CHECK_DEADLOCK FALSE
