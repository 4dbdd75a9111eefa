\* A server with one connection thread slot fewer than sockets: the owner has
\* to refuse sockets, reap threads and reuse slots.  The id space is exhausted
\* by the third connection.
CONSTANTS
    Openers = {w1, w2, w3}
    MaxConnections = 2
    IdLimit = 2
    MaxChunk = 1
SPECIFICATION ServerSpec
PROPERTY AdmitsOneAtATime
PROPERTY ShutdownReturns
CHECK_DEADLOCK FALSE
