SPECIFICATION FairSpec
CONSTANTS
    Messages = {m1}
    Notes = {n1}
    Retractable = {m1}
    Doubtful = {m1}
    Window = 4
    BatchLimit = 1
    Aging = TRUE
    MaxFaults = 2
PROPERTY NothingIsSkipped
INVARIANT LedgerIsExact
 
CHECK_DEADLOCK FALSE
