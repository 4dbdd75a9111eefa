\* Two connections of one daemon; alerts, heartbeats and the proxy's end in
\* every order.
SPECIFICATION Spec
CONSTANTS
    Publishers = {sandbox}
    MaxGen = 2
    MaxAlerts = 1
    MaxBeats = 1
    QueueCap = 1
    BroadcastCap = 1
INVARIANTS FlagsAgree LateEndHarmless AcksMatch
PROPERTIES OldLinkSilent LinkEnds
CHECK_DEADLOCK FALSE
