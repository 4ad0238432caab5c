\* Two sources, four periods (two of them meeting a third on its boundary
\* days, one reversed), seven contents, up to four deliveries.
CONSTANTS
    Ledger = Ledger
    Statement = Statement
    Sources <- MCSources
    Periods <- MCPeriods
    Contents <- MCContents
    RecordRow <- MCRecordRow
    Parsed <- MCParsed
    StoredScale = 2
    Precision = 6
    MaxBatches = 4
SPECIFICATION Spec
INVARIANTS
    TypeOK
    VersionChain
    PeriodsNeverClash
    LoadsWhatWasMeant
PROPERTIES
    BatchesImmutable
    WithdrawalsAddUp
    ImplementsLog
\* Every content may have been delivered.
CHECK_DEADLOCK FALSE
