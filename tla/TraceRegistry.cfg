\* One root and two descendants; two traces may share processes.
CONSTANTS
    Processes = {p1, p2, p3}
    MaxTraces = 2
SPECIFICATION Spec
SYMMETRY ProcessSymmetry
INVARIANT EndedRootClosed
PROPERTY EndsCleanOrDegraded
CHECK_DEADLOCK FALSE
