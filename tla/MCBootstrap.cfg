SPECIFICATION FairSpec
CONSTANTS
    Jobs = {j1}
    SeedKeys = {s1, s2}
    MaxFailures = 2
    MaxRestarts = 2
INVARIANTS LegacyUnused
PROPERTIES RevokedReplaced SelfHeals
