\* The smallest configuration that validate() accepts.
CONSTANTS
    Sbs = {s1, s2}
    MaxSb = 1
    Quota = 1
    QueueCap = 1
    IdSpace = 2
    MaxFrames = 2
    MaxLinks = 2
    NoItem = NoItem
SPECIFICATION Safety
INVARIANT QueueCoversQuota
CHECK_DEADLOCK FALSE
