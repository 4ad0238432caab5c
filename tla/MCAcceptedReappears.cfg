\* One delivery of each of three sources, one decision, three runs.
CONSTANTS
    Ledger = Ledger
    Statement = Statement
    Venue = Venue
    Bonds = Bonds
    NoRecord = NoRecord
    Sources = {Ledger, Statement, Venue}
    SourcePairs <- SourcesAgainstLedger
    Periods <- MCPeriods
    Contents = {1, 2, 3}
    Deliveries <- OneDeliveryEach
    RecordRow <- MCRecordRow
    Parsed <- MCParsed
    Identity <- MCIdentity
    References = {1, 2, 3}
    Buckets = {Bonds}
    Times = {1, 2, 5}
    Quantities = {9999, 10000}
    BpsUnit = 10000
    AmountBps = 5
    AmountFloor = 1
    PriceBps = 5
    QtyBps = 1
    TimeTolerance = 1
    SuggestWindow = 2
    MaxBatches = 3
    MaxResolutions = 1
    MaxRuns = 3
SPECIFICATION Spec
INVARIANT AcceptedDoesNotReappear
CHECK_DEADLOCK FALSE
