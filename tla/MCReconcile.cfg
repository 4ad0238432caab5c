\* Ledger against statement over one period: up to three deliveries, two
\* decisions and two runs, in every order.
CONSTANTS
    Ledger = Ledger
    Statement = Statement
    Venue = Venue
    Bonds = Bonds
    NoRecord = NoRecord
    Sources = {Ledger, Statement}
    SourcePairs <- TwoSources
    Periods <- MCPeriods
    Contents = {1, 2, 3}
    Deliveries <- TwoDeliveries
    RecordRow <- MCRecordRow
    Parsed <- MCParsed
    Identity <- MCIdentity
    References = {1, 2, 3}
    Buckets = {Bonds}
    Times = {1, 2, 5}
    Quantities = {9999, 10000}
    BpsUnit = 10000
    AmountBps = 5
    AmountFloor = 1
    PriceBps = 5
    QtyBps = 1
    TimeTolerance = 1
    SuggestWindow = 2
    MaxBatches = 3
    MaxResolutions = 2
    MaxRuns = 2
SPECIFICATION Spec
INVARIANTS
    TypeOK
    WithdrawnShowsLastValue
    ProvenanceIsTheDecision
    PairSurvivesCorrection
    RerunIsTheSame
    PageCoversTheWorklist
    LargestFirst
    CandidatesAgreeWithTheRun
    EarlierDecisionWasApplied
    VerdictIsFair
PROPERTIES
    SummaryAddsUp
    OnlyMistakenAcceptancesReversed
\* Every file may be loaded, every decision made and every run done.
CHECK_DEADLOCK FALSE
