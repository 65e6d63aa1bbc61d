SPECIFICATION FairSpec
CONSTANTS
    None = None
    Tokens = {t1, t2, t3, t4}
    Lifetime = 2
    Grace = 4
    Period = 4
    RenewBelow = 2
    Lag = 1
    MaxFailures = 1
    MaxStops = 1
    MaxDown = 1
INVARIANTS ConsumerLive
PROPERTIES TokensEnd
