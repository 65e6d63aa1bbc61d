SPECIFICATION FairSpec
CONSTANTS
    None = None
    Kids = {k1, k2, k3}
    Replicas = {r1, r2}
    Propagate = 1
    TokenLife = 2
    PromoteWait = 2
    RetireWait = 4
    Lifetime = 4
    MaxFailures = 1
    FailAnywhere = FALSE
    DrillAnytime = FALSE
INVARIANTS TokensVerify SignersKnown CurrentLoads
PROPERTIES KidsRotate
