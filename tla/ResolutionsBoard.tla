-------------------------- MODULE ResolutionsBoard --------------------------
(***************************************************************************)
(* The board of decisions that the resolution table shows to its readers,  *)
(* and that the table implements it.                                       *)
(***************************************************************************)
EXTENDS Resolutions

\* A record whose fate is open: a decision about nobody.
NoDecision == [names |-> {}, from |-> NoRecord]

\* The decision a live row puts on the board.
DecisionOf(row) == [names |-> IdentitiesOf(row), from |-> row.left]

\* The board as the table shows it: resolution_for decides a record's fate,
\* a live rejection blocks its pair.
FateOf(identity) ==
    LET rows == {i \in ResolutionFor(identity) : resolution[i].kind # "reject_suggestion"}
    IN  IF rows = {} THEN NoDecision ELSE DecisionOf(resolution[CHOOSE i \in rows : TRUE])

BlockedPairs ==
    {<<resolution[i].left, resolution[i].right>> :
        i \in {j \in DOMAIN resolution :
                   Live(resolution[j]) /\ resolution[j].kind = "reject_suggestion"}}

Board == INSTANCE DecisionBoard
            WITH fate    <- [identity \in Identity |-> FateOf(identity)],
                 blocked <- BlockedPairs

\* The table implements the board: each request is one decision placed,
\* removed or blocked, whatever the table did before.
ImplementsBoard == Board!BoardSpec

=============================================================================
