SPECIFICATION Spec
CHECK_DEADLOCK FALSE
CONSTANTS
    Networks <- HubbleNetworks
    Pods <- HubblePods
    Addresses = {"a1", "a2", "a3"}
    Namespace = "gibson"
    CallerPort = 50051
    MaxDials = 2
    MaxEnds = 1
    MaxStarts = 1
    HookSets <- HookFixtures
    DEADLINE = 2
    LimitedEdges <- RateFixtures
    Senders = {{"a"}, {"a", "b"}}
    LoginTokens = {1, 2, 3, 4, 5, 6}
    TOKEN_LIFETIME_S = 1
    PG_LEASE_MAX_S = 4
    DAY = 1
    LEASE_TTL = 2
    MaxFailures = 1
    MaxDown = 1
    SealKeys = {"k1", "k2", "k3"}
    Entries = {"barrier-unseal-keys", "recovery-key"}
    Uids = {1, 2}
    Attempts = {1, 2}
    MaxPurges = 2
INVARIANTS GrantsSuffice OwnerReadersFound IsolationHolds DropsJudged EdgeShielded LimitsHold ReleaseHolds ShellGuardsHold GateHolds OperationsHold
