----------------------------- MODULE MCMatching -----------------------------
(* Every input of a run on a small instance.                               *)
EXTENDS MatchingRuns, Sequences

CONSTANTS Ledger, Statement, LeftSource, RightSource, Bonds, Shares,
          LeftReferences, RightReferences,   \* what each side may report
          LeftTrades, RightTrades,           \* as <<bucket, time, quantity>>
          MaxDecisions                       \* bound: decisions carried

MCLeftTrades  == {<<Bonds, 1, 100>>, <<Bonds, 4, 99>>}
MCRightTrades == {<<Bonds, 1, 101>>, <<Bonds, 2, 100>>, <<Shares, 2, 100>>}

\* Each reference is absent, cancelled or one of the trades.
SidesOf(source, references, trades) ==
    LET row(reference, cancelled, trade) ==
            [source |-> source, reference |-> reference, cancelled |-> cancelled,
             bucket |-> trade[1], time |-> trade[2], quantity |-> trade[3]]
        rows(reference) ==
            {{}} \cup {{row(reference, FALSE, trade)} : trade \in trades}
                 \cup {{row(reference, TRUE, CHOOSE trade \in trades : TRUE)}}
    IN  {UNION {choice[reference] : reference \in references} :
            choice \in {f \in [references -> UNION {rows(reference) : reference \in references}] :
                           \A reference \in references : f[reference] \in rows(reference)}}

LeftKeys  == {LeftSource} \X LeftReferences
RightKeys == {RightSource} \X RightReferences

DecisionsAbout ==
    [kind : {"manual_match", "reject_suggestion"}, left : LeftKeys, right : RightKeys] \cup
    [kind : {"accept_unmatched"}, left : LeftKeys \cup RightKeys, right : {NoRecord}]

\* Matching reads its decisions kind by kind (_resolution_index), so decisions
\* of different kinds come in one order only; a decision is carried once.
KindOrder == [manual_match |-> 1, accept_unmatched |-> 2, reject_suggestion |-> 3]

MCInit ==
    \E left \in SidesOf(LeftSource, LeftReferences, LeftTrades),
       right \in SidesOf(RightSource, RightReferences, RightTrades),
       prior \in {f \in UNION {[1..n -> DecisionsAbout] : n \in 0..MaxDecisions} :
                     \A i, j \in DOMAIN f : i < j =>
                         f[i] # f[j] /\ KindOrder[f[i].kind] <= KindOrder[f[j].kind]} :
        input = [leftSource |-> LeftSource, rightSource |-> RightSource,
                 left |-> left, right |-> right, prior |-> prior]

MCSpec == MCInit /\ [][Next]_vars

=============================================================================
