\* Liveness: no symmetry.
SPECIFICATION Spec
CONSTANTS
    Requests = {r1, r2}
    Endpoints = {e1}
    Grants = {FALSE}
    Workers = {"io"}
    QueueCap = 1
    BatchMax = 1
    MaxGen = 1
    None = None
PROPERTIES
    RequestsAnswered
    ShutdownReturns
CHECK_DEADLOCK FALSE
