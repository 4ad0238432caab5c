\* A file, and two that begin like it and end in a line that is too long.
CONSTANTS
    Ledger = Ledger
    Statement = Statement
    Sources <- MCSources
    Periods <- MCPeriods
    Contents <- FirstAndTooLong
    RecordRow <- MCRecordRow
    Parsed <- MCParsed
    StoredScale = 2
    Precision = 6
    MaxBatches = 2
SPECIFICATION Spec
INVARIANT BadRowNeverCostsTheFile
CHECK_DEADLOCK FALSE
