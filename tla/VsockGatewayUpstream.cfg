\* One session slot served in turn by two SBs, with two upstream connections:
\* a downgrade, frames kept over a reconnect, and shutdown at any moment.
CONSTANTS
    Sbs = {s1, s2}
    MaxSb = 1
    Quota = 2
    QueueCap = 2
    IdSpace = 2
    MaxFrames = 2
    MaxLinks = 2
    NoItem = NoItem
SPECIFICATION Spec
INVARIANT PermitsExact
 
INVARIANT ForwardedOnceInOrder
INVARIANT AtMostOneFrameAfterClose
PROPERTY ShutdownReturns
CHECK_DEADLOCK FALSE
