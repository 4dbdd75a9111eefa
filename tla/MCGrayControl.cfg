SPECIFICATION Spec
CONSTANTS
    p = p
    q = q
    s1 = s1
    Services = {"command", "network"}
    Notifs = {n1, n2}
    Traces = {t1, t2}
    Subjects = {s1}
    Instances = {p, q}
    Loaded <- MCLoaded
    PolicyOwners = {q}
    Static = Static
    RuleIds = {"r"}
    StaticRules <- MCStaticRules
    Verdicts <- MCVerdicts
    PendingMax = 2
    RuleLimit = 2
    InstanceLimit <- MCInstanceLimit
    Running <- MCRunning
    CacheMax = 1
    GrayFallback = "allow"
    DefaultDecision = "allow"
    FailureDecision = "deny"
    MaxRevision = 2
    MaxIndex = 3
SYMMETRY MCSymmetry
INVARIANTS
    InFlightExact
    
    ForgottenTraceNotCached
    NoLostWake
PROPERTIES
    AllowNeedsLiveTarget
