\* Two traces that end and share the post-trace capacity; storage failures.
SPECIFICATION Spec
CONSTANTS
    p1 = p1
    i1 = i1
    i2 = i2
    Processes = {p1}
    MaxTraces = 2
    Plugins = {i1, i2}
    MaxInFlight = 2
    PerCycle = 1
    MaxLost = 0
    MaxData = 0
    MaxFaults = 1
    Outcomes = {"bound", "failed"}
SYMMETRY PluginSymmetry
INVARIANT TasksKeepTrace
PROPERTIES  RetentionSpares
