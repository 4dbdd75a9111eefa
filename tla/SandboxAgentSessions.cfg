\* Requests that time out, overtake and supersede one another, workers that
\* sample before and enqueue after a reconnect.
SPECIFICATION Safety
CONSTANTS
    Requests = {r1, r2}
    Endpoints = {e1}
    Grants = {TRUE, FALSE}
    Workers = {"io", "workload"}
    QueueCap = 1
    BatchMax = 1
    MaxGen = 2
    None = None
SYMMETRY Symmetry
INVARIANTS
    PendingBelongsToSession
    TimedOutNeverPublishes
    GateMatchesSession
CHECK_DEADLOCK FALSE
