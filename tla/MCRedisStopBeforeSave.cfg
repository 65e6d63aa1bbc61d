SPECIFICATION FairSpec
CONSTANTS
    Clients = {"daemon", "ext-authz"}
    Order <- ClientOrder
    MaxVersion = 3
    MaxStops = 1
    MaxPodRestarts = 0
    MaxOomRestarts = 0
    ClientRestarts = FALSE
    KubeletLag = FALSE
    EarlyChange = FALSE
CHECK_DEADLOCK FALSE
PROPERTIES Converges
