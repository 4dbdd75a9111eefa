\* Two processes and a plugin; every event may be lost, late or overtaken, and
\* ended traces have to be forgotten all the same.
SPECIFICATION FairSpec
CONSTANTS
    p1 = p1
    p2 = p2
    i1 = i1
    Processes = {p1, p2}
    MaxTraces = 1
    Plugins = {i1}
    MaxInFlight = 1
    PerCycle = 1
    MaxLost = 1
    MaxData = 1
    MaxFaults = 0
    Outcomes = {"leaked", "failed", "unbound", "bound", "failedUnbound",
                "failedBound", "scoped"}
PROPERTIES ForgottenSettled LossCharged EndedTraceForgotten
