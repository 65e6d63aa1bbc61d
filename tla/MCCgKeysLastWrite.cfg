SPECIFICATION Spec
CONSTANTS
    None = None
    Kids = {k1, k2, k3, k4}
    Replicas = {r1, r2}
    Propagate = 1
    TokenLife = 1
    PromoteWait = 2
    RetireWait = 3
    Lifetime = 4
    MaxFailures = 1
    FailAnywhere = TRUE
    DrillAnytime = FALSE
INVARIANTS TokensVerify
