---------------------------- MODULE MatchingRuns ----------------------------
(***************************************************************************)
(* Runs over the same files, one after the other: each matches its input   *)
(* and withdraws the acceptances it revoked, and the next reads what is    *)
(* left.  What matching promises for every input, what must not change     *)
(* from one run to the next, and what must not depend on which of the two  *)
(* sources is called left.                                                 *)
(***************************************************************************)
EXTENDS Matching

VARIABLE input             \* of the next run

vars == <<input>>

NextRun == input' = AfterRun(input)

Init == IsInput(input)

Next == NextRun

Spec == Init /\ [][Next]_vars

----------------------------------------------------------------------------
(* Properties.                                                             *)

\* The input stays the input of a run.
TypeOK == IsInput(input)

\* The partition is total and disjoint and matching is one-to-one (TR-509,
\* R4.8), even when decisions contend: each record is cancelled, in a status
\* disagreement, accepted, unmatched, suggested or in one pair, and nowhere
\* else; otherwise the run would refuse to finish.
EveryRecordOnce ==
    \A r \in input.left \cup input.right :
        LET outcomes == Outcomes(input, r) IN \E outcome \in outcomes : outcomes = {outcome}

\* What people decided prevails over everything automatic, as long as the
\* decisions do not contend: a pairing of two records the run may pair is
\* applied and is never displaced by a reference; a rejected pair is not
\* proposed; an accepted record is no work for anyone, unless its own
\* reference turned up on the other side.
DecisionsPrevail ==
    Coherent(input) =>
        \A i \in DOMAIN input.prior :
            LET decision == input.prior[i] IN
            /\ decision.kind = "manual_match" =>
                  \A l \in Available(input, input.left), r \in Available(input, input.right) :
                      (Key(l) = decision.left /\ Key(r) = decision.right) =>
                          {p \in Pairs(input) : p[1] = l \/ p[2] = r} = {<<l, r>>}
            /\ decision.kind = "reject_suggestion" =>
                  \A s \in Suggestions(input) :
                      <<Key(s[1]), Key(s[2])>> # <<decision.left, decision.right>>
            /\ decision.kind = "accept_unmatched" =>
                  \A r \in Suggested(input) \cup Unmatched(input) : Key(r) # decision.left

\* No counterpart is overlooked: two unmatched records that are plausibly
\* the same trade (same instrument and side, quantities within the allowance
\* of the larger, times within the window either way) are a pair a person
\* rejected.
NoMissedCounterpart ==
    \A l \in Unmatched(input) \cap input.left, r \in Unmatched(input) \cap input.right :
        (/\ l.bucket = r.bucket
         /\ l.time - r.time \in -SuggestWindow..SuggestWindow
         /\ \/ (l.quantity - r.quantity) * BpsUnit \in -QtyBps * l.quantity..QtyBps * l.quantity
            \/ (l.quantity - r.quantity) * BpsUnit \in -QtyBps * r.quantity..QtyBps * r.quantity)
        => Blocked(input, l, r)

\* Where every record ended, and which acceptances were revoked.
Outcome(in) ==
    [manual             |-> ManualPairs(in),
     reference          |-> ReferencePairs(in),
     suggestions        |-> Suggestions(in),
     accepted_unmatched |-> AcceptedUnmatched(in),
     unmatched          |-> Unmatched(in),
     revoked            |-> Revoked(in)]

\* Running again settles: nothing is revoked twice and every record ends
\* where it ended, so an automatic reversal is reported once and not every
\* morning (_persist_revocations, TR-702).
RerunSettles ==
    Coherent(input) => Outcome(AfterRun(input)) = [Outcome(input) EXCEPT !.revoked = {}]

\* The run with the sides exchanged, given the same decisions mirrored
\* (Resolutions!OrientationBelongsToRun).
Mirror(decision) ==
    IF decision.right = NoRecord THEN decision
    ELSE [kind |-> decision.kind, left |-> decision.right, right |-> decision.left]

Reversed(in) ==
    [leftSource  |-> in.rightSource,
     rightSource |-> in.leftSource,
     left        |-> in.right,
     right       |-> in.left,
     prior       |-> [i \in DOMAIN in.prior |-> Mirror(in.prior[i])]]

Swapped(pairs) == {<<p[2], p[1]>> : p \in pairs}

\* Neither side is authoritative (D12): exchanging the two sides exchanges
\* the pairs and the suggestions and leaves every record where it was.
SidesInterchangeable ==
    Coherent(input) =>
        Outcome(Reversed(input)) =
            [manual             |-> Swapped(ManualPairs(input)),
             reference          |-> Swapped(ReferencePairs(input)),
             suggestions        |-> Swapped(Suggestions(input)),
             accepted_unmatched |-> AcceptedUnmatched(input),
             unmatched          |-> Unmatched(input),
             revoked            |-> Revoked(input)]

\* SPEC R4.1 and match.py's docstring: decisions a person made are applied
\* before anything automatic, so a pairing of two live records is applied.
DecisionsComeFirst ==
    Coherent(input) =>
        \A i \in DecisionsOf(input, "manual_match"), l \in LiveIn(input.left), r \in LiveIn(input.right) :
            (Key(l) = input.prior[i].left /\ Key(r) = input.prior[i].right) => <<l, r>> \in Pairs(input)

\* SPEC R4.3: where several counterparts exist they are all offered, ranked
\* by closeness.
RankedByCloseness ==
    \A s, t \in Suggestions(input) :
        ListedBefore(input, s, t) =>
            /\ s[1] = t[1] => ~Nearer(s[1], t[2], s[2])
            /\ s[2] = t[2] => ~Nearer(s[2], t[1], s[1])

=============================================================================
