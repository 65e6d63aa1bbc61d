SPECIFICATION FairSpec
CONSTANTS
    Clients = {"daemon", "ext-authz"}
    Order <- ClientOrder
    MaxVersion = 3
    MaxStops = 2
    MaxPodRestarts = 1
    MaxOomRestarts = 1
    ClientRestarts = TRUE
    KubeletLag = FALSE
    EarlyChange = FALSE
CHECK_DEADLOCK FALSE
INVARIANTS NoEmptyLogin TypeOK DoneMeansAccepted DoneMeansOldRefused
PROPERTIES ChangesConverge RemovalStrandsNobody
