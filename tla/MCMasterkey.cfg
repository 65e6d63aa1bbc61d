SPECIFICATION FairSpec
CONSTANTS
    None = None
    Lost = Lost
    Masterkeys = {m1, m2, m3, m4, m5}
    Rows = {e1, e2}
    MaxStops = 2
    MaxRequests = 3
    InsertWhileOld = FALSE
    DrillAnytime = FALSE
INVARIANTS TypeOK RowsOpen KeyKept
PROPERTIES LoadsClean Settles
