\* Corrections of the ledger, one acceptance.
CONSTANTS
    Ledger = Ledger
    Statement = Statement
    Venue = Venue
    Bonds = Bonds
    NoRecord = NoRecord
    Sources = {Ledger, Statement}
    SourcePairs <- TwoSources
    Periods <- MCPeriods
    Contents = {1, 2, 3}
    Deliveries <- TwoDeliveries
    RecordRow <- MCRecordRow
    Parsed <- MCParsed
    Identity <- MCIdentity
    References = {1, 2, 3}
    Buckets = {Bonds}
    Times = {1, 2, 5}
    Quantities = {9999, 10000}
    BpsUnit = 10000
    AmountBps = 5
    AmountFloor = 1
    PriceBps = 5
    QtyBps = 1
    TimeTolerance = 1
    SuggestWindow = 2
    MaxBatches = 3
    MaxResolutions = 1
    MaxRuns = 2
SPECIFICATION Spec
INVARIANT AcceptedLeavesTheWorklist
CHECK_DEADLOCK FALSE
