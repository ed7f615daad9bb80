\* One caller, in a quiet environment and in one where replies are lost and sessions vanish.
SPECIFICATION FairSpec
CONSTANTS
    Tasks = {a}
    MaxCells = 7
    Environments <- MCEnvironments
    Nobody = Nobody
    NoReply = NoReply
CHECK_DEADLOCK FALSE
INVARIANTS TypeOK  HistoryCovers
PROPERTIES CallReturns
