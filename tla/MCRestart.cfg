SPECIFICATION MCSpec
CONSTANTS
    u1 = u1
    u2 = u2
    u3 = u3
    u4 = u4
    u5 = u5
    u6 = u6
    Pods <- MCPods
    Want = 2
    Stateful = FALSE
    Since = TRUE
    MaxCalls = 2
    MaxCrashes = 1
CHECK_DEADLOCK FALSE
INVARIANTS TypeOK ReturnMeansRestarted
PROPERTIES FreshPodsStay CallEnds KeepsContract
