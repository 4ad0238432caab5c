\* One decision and one run, on PostgreSQL.
CONSTANTS
    Ledger = Ledger
    Statement = Statement
    Bonds = Bonds
    NoRecord = NoRecord
    Free = "free"
    Sources = {Ledger, Statement}
    SourcePairs <- MCSourcePairs
    Periods <- MCPeriods
    Contents = {1, 2, 3, 4}
    RecordRow <- MCRecordRow
    Parsed <- MCParsed
    Identity <- MCIdentity
    References = {1, 3}
    Buckets = {Bonds}
    Times = {1, 2}
    Quantities = {100}
    BpsUnit = 10000
    AmountBps = 5
    AmountFloor = 1
    PriceBps = 5
    QtyBps = 1
    TimeTolerance = 1
    SuggestWindow = 2
    MaxBatches = 14
    MaxResolutions = 15
    MaxRuns = 12
    Requests <- MCRequestIds
    Asked <- MCAsked
    Code <- MCCode
    Engines = {"postgresql"}
    Loaded <- MCLoaded
    Decided <- MCDecided
    Together <- OneRunOneDecision
SPECIFICATION PageSpec
INVARIANT
    OlderDecisionWasApplied
CHECK_DEADLOCK FALSE
