SPECIFICATION FairSpec
CONSTANTS
    Keys = {p1, p2, p3, p4}
    Lifetime = 4
    RefreshWait = 3
    OperatorLag = 2
    TrustLag = 2
    DrillAnytime = FALSE
INVARIANTS OperatorTrusted
PROPERTIES KeysRotate OldKeyRefused
