--------------------------- MODULE DecisionBoard ---------------------------
(***************************************************************************)
(* What the resolution table promises (SPEC 5.7), without the table: every *)
(* record has at most one decision about its fate, shared by both records  *)
(* of a pairing, and there is a set of ordered pairs never to be suggested *)
(* again.  A new decision frees the records of the decisions it replaces.  *)
(***************************************************************************)
CONSTANTS Identity,   \* the records decisions are about
          NoDecision  \* a record whose fate is open

VARIABLES fate,       \* the decision governing each record
          blocked     \* rejected ordered pairs

boardVars == <<fate, blocked>>

Pairing(left, right) == [names |-> {left, right}, from |-> left]
Acceptance(left)     == [names |-> {left}, from |-> left]

Names(decision) == IF decision = NoDecision THEN {} ELSE decision.names

\* Put one decision on the board, releasing every record whose decision
\* names one of the same records.
Place(decision) ==
    fate' = [i \in Identity |->
                IF i \in decision.names THEN decision
                ELSE IF Names(fate[i]) \cap decision.names # {} THEN NoDecision
                ELSE fate[i]]

\* Take one decision off the board.
Remove(decision) ==
    fate' = [i \in Identity |-> IF fate[i] = decision THEN NoDecision ELSE fate[i]]

Pair(left, right) ==
    /\ left # right
    /\ Place(Pairing(left, right))
    /\ blocked' = blocked \ {<<left, right>>}

Accept(left) ==
    /\ Place(Acceptance(left))
    /\ UNCHANGED blocked

Reject(left, right) ==
    /\ left # right
    /\ Remove(Pairing(left, right))
    /\ blocked' = blocked \cup {<<left, right>>}

Undo(left) ==
    /\ fate[left] # NoDecision
    /\ Remove(fate[left])
    /\ UNCHANGED blocked

Unblock(left, right) ==
    /\ <<left, right>> \in blocked
    /\ blocked' = blocked \ {<<left, right>>}
    /\ UNCHANGED fate

BoardInit ==
    /\ fate = [i \in Identity |-> NoDecision]
    /\ blocked = {}

BoardNext ==
    \/ \E left, right \in Identity : Pair(left, right) \/ Reject(left, right)
    \/ \E left \in Identity : Accept(left) \/ Undo(left)
    \/ \E left, right \in Identity : Unblock(left, right)

BoardSpec == BoardInit /\ [][BoardNext]_boardVars

=============================================================================
