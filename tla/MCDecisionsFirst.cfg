\* A pairing made by a person against a cancellation elsewhere: one decision.
CONSTANTS
    Ledger = Ledger
    Statement = Statement
    Sources = {Ledger, Statement}
    Bonds = Bonds
    Shares = Shares
    NoRecord = NoRecord
    LeftSource = Ledger
    RightSource = Statement
    References = {1, 2, 3}
    Buckets = {Bonds, Shares}
    Times = {1, 2, 4}
    Quantities = {99, 100, 101}
    BpsUnit = 100
    QtyBps = 1
    SuggestWindow = 2
    LeftReferences = {1, 2}
    RightReferences = {2, 3}
    LeftTrades <- MCLeftTrades
    RightTrades <- MCRightTrades
    MaxDecisions = 1
SPECIFICATION MCSpec
INVARIANT DecisionsComeFirst
