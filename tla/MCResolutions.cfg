\* Two records of one source and one of each of two others: a decision may
\* concern a pair of sources, one source, or a source the run is not about.
\* Three rows: one decision may contradict two live ones.
CONSTANTS
    Ledger = Ledger
    Statement = Statement
    Venue = Venue
    T1 = T1
    T2 = T2
    NoRecord = NoRecord
    Sources <- MCSources
    Identity <- MCIdentity
    MaxResolutions = 3
SPECIFICATION Spec
SYMMETRY Interchangeable
INVARIANTS
    TypeOK
    NoContradiction
    GoverningIsUnique
PROPERTIES
    HistoryIsKept
    ImplementsBoard
\* The table may be full with nothing left to revoke.
CHECK_DEADLOCK FALSE
