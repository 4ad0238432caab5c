\* Two references a side, one of them shared; trades on both sides of the
\* window and of the quantity allowance; up to two decisions, which may
\* contend for a record.
CONSTANTS
    Ledger = Ledger
    Statement = Statement
    Sources = {Ledger, Statement}
    Bonds = Bonds
    Shares = Shares
    NoRecord = NoRecord
    LeftSource = Ledger
    RightSource = Statement
    References = {1, 2, 3}
    Buckets = {Bonds, Shares}
    Times = {1, 2, 4}
    Quantities = {99, 100, 101}
    BpsUnit = 100
    QtyBps = 1
    SuggestWindow = 2
    LeftReferences = {1, 2}
    RightReferences = {2, 3}
    LeftTrades <- MCLeftTrades
    RightTrades <- MCRightTrades
    MaxDecisions = 2
SPECIFICATION MCSpec
INVARIANTS
    EveryRecordOnce
    DecisionsPrevail
    NoMissedCounterpart
    SidesInterchangeable
    RerunSettles
