\* No shared reference and no decision: two suggestions for one record.
CONSTANTS
    Ledger = Ledger
    Statement = Statement
    Sources = {Ledger, Statement}
    Bonds = Bonds
    Shares = Shares
    NoRecord = NoRecord
    LeftSource = Ledger
    RightSource = Statement
    References = {1, 2, 3, 4}
    Buckets = {Bonds, Shares}
    Times = {1, 2, 4}
    Quantities = {99, 100, 101}
    BpsUnit = 100
    QtyBps = 1
    SuggestWindow = 2
    LeftReferences = {1, 2}
    RightReferences = {3, 4}
    LeftTrades <- MCLeftTrades
    RightTrades <- MCRightTrades
    MaxDecisions = 0
SPECIFICATION MCSpec
INVARIANT RankedByCloseness
