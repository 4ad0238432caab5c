------------------------ MODULE MatchingRuns_proofs ------------------------
(***************************************************************************)
(* The properties of MatchingRuns for every input: the input of each run   *)
(* stays one, so they follow from the lemmas about the tiers.              *)
(***************************************************************************)
EXTENDS MatchingRuns, Matching_proofs

\* What people decided prevails (see DecisionsPrevail).
LEMMA DecisionsHold ==
    ASSUME TypeOK
    PROVE  DecisionsPrevail
<1> SUFFICES ASSUME Coherent(input), NEW i \in DOMAIN input.prior
             PROVE  LET decision == input.prior[i] IN
                    /\ decision.kind = "manual_match" =>
                          \A l \in Available(input, input.left), r \in Available(input, input.right) :
                              (Key(l) = decision.left /\ Key(r) = decision.right) =>
                                  {p \in Pairs(input) : p[1] = l \/ p[2] = r} = {<<l, r>>}
                    /\ decision.kind = "reject_suggestion" =>
                          \A s \in Suggestions(input) :
                              <<Key(s[1]), Key(s[2])>> # <<decision.left, decision.right>>
                    /\ decision.kind = "accept_unmatched" =>
                          \A r \in Suggested(input) \cup Unmatched(input) : Key(r) # decision.left
    BY DEF DecisionsPrevail
<1>0. IsInput(input)
    BY DEF TypeOK
<1>1. ASSUME input.prior[i].kind = "manual_match",
             NEW l \in Available(input, input.left), NEW r \in Available(input, input.right),
             Key(l) = input.prior[i].left, Key(r) = input.prior[i].right
      PROVE  {p \in Pairs(input) : p[1] = l \/ p[2] = r} = {<<l, r>>}
    <2>1. <<l, r>> \in Pairs(input)
        BY <1>0, <1>1, PairingsApplied DEF Pairs, DecisionsOf
    <2>2. \A p \in Pairs(input) : (p[1] = l \/ p[2] = r) => p = <<l, r>>
        BY <1>0, <2>1, OneToOne
    <2> QED
        BY <2>1, <2>2
<1>2. ASSUME input.prior[i].kind = "reject_suggestion", NEW s \in Suggestions(input)
      PROVE  <<Key(s[1]), Key(s[2])>> # <<input.prior[i].left, input.prior[i].right>>
    <2>1. ~Blocked(input, s[1], s[2])
        BY DEF Suggestions, Candidate
    <2> QED
        BY <1>2, <2>1 DEF Blocked, DecisionsOf
<1>3. ASSUME input.prior[i].kind = "accept_unmatched",
             NEW r \in Suggested(input) \cup Unmatched(input)
      PROVE  Key(r) # input.prior[i].left
    <2>1. input.prior[i].left \in Accepted(input)
        BY <1>3 DEF Accepted, DecisionsOf
    <2> QED
        BY <1>0, <2>1, AcceptancesApplied
<1> QED
    BY <1>1, <1>2, <1>3

\* Two open records, neither accepted, of which at least one is left
\* unmatched, were no candidates: any candidate would have been proposed.
LEMMA NoCounterpartLeft ==
    ASSUME TypeOK
    PROVE  NoMissedCounterpart
<1> SUFFICES ASSUME NEW l \in Unmatched(input) \cap input.left, NEW r \in Unmatched(input) \cap input.right,
                    l.bucket = r.bucket,
                    l.time - r.time \in -SuggestWindow..SuggestWindow,
                    \/ (l.quantity - r.quantity) * BpsUnit \in -QtyBps * l.quantity..QtyBps * l.quantity
                    \/ (l.quantity - r.quantity) * BpsUnit \in -QtyBps * r.quantity..QtyBps * r.quantity
             PROVE  Blocked(input, l, r)
    BY DEF NoMissedCounterpart
<1>1. /\ l.time \in Int /\ r.time \in Int
      /\ l.quantity \in Int /\ r.quantity \in Int
    BY SidesApart DEF TypeOK
<1>2. l \in OpenLeft(input) /\ r \in OpenRight(input)
    BY SidesApart, OpenRecords, AvailableRecords DEF TypeOK
<1>3. Key(l) \notin StillAccepted(input) /\ Key(r) \notin StillAccepted(input) /\ l \notin Suggested(input)
    BY OpenRecords
<1>4. <<l, r>> \notin Suggestions(input)
    BY <1>3 DEF Suggested, Lefts
<1>5. ~Candidate(input, l, r)
    BY <1>2, <1>3, <1>4 DEF Suggestions
<1>6. Gap(l, r) <= SuggestWindow
    BY <1>1, QtyBpsAssumption, WindowAssumption DEF Gap, Abs
<1>7. WithinBps(l.quantity, r.quantity, QtyBps)
    BY <1>1, EitherShareSuffices, QtyBpsAssumption, WindowAssumption
<1> QED
    BY <1>5, <1>6, <1>7 DEF Candidate, Plausible

----------------------------------------------------------------------------
(* The run with the sides exchanged.                                       *)

\* What is plausible does not depend on whose trade is looked at.
LEMMA PlausibleBothWays ==
    ASSUME NEW one, NEW other, one.time \in Int, other.time \in Int,
           one.quantity \in Int, other.quantity \in Int
    PROVE  Plausible(one, other) <=> Plausible(other, one)
<1>1. Gap(one, other) = Gap(other, one)
    BY DEF Gap, Abs
<1>2. \A a, b \in Int : Abs(b - a) = Abs(a - b) /\ Larger(a, b) = Larger(b, a)
    BY DEF Larger, Abs
<1>3. WithinBps(one.quantity, other.quantity, QtyBps) <=>
         WithinBps(other.quantity, one.quantity, QtyBps)
    BY <1>2 DEF WithinBps
<1> QED
    BY <1>1, <1>3 DEF Plausible

\* The decisions of the run the other way round.
LEMMA MirroredDecisions ==
    ASSUME NEW in, IsInput(in), Coherent(in)
    PROVE  /\ IsInput(Reversed(in)) /\ Coherent(Reversed(in))
           /\ Accepted(Reversed(in)) = Accepted(in)
           /\ \A l, r : Blocked(Reversed(in), r, l) <=> Blocked(in, l, r)
           /\ DecisionsOf(Reversed(in), "manual_match") = DecisionsOf(in, "manual_match")
           /\ \A i \in DecisionsOf(in, "manual_match") :
                 /\ Reversed(in).prior[i].left = in.prior[i].right
                 /\ Reversed(in).prior[i].right = in.prior[i].left
<1> DEFINE back == Reversed(in)
<1>1. /\ back.left = in.right /\ back.right = in.left
      /\ back.leftSource = in.rightSource /\ back.rightSource = in.leftSource
      /\ DOMAIN back.prior = DOMAIN in.prior
      /\ \A i \in DOMAIN in.prior :
            /\ back.prior[i].kind = in.prior[i].kind
            /\ in.prior[i].kind = "accept_unmatched" =>
                  /\ back.prior[i].left = in.prior[i].left
                  /\ back.prior[i].right = in.prior[i].right
            /\ in.prior[i].kind # "accept_unmatched" =>
                  /\ back.prior[i].left = in.prior[i].right
                  /\ back.prior[i].right = in.prior[i].left
    BY DecisionRows DEF Reversed, Mirror
<1> HIDE DEF back
<1>2. AreDecisions(back.prior)
    BY <1>1 DEF IsInput, AreDecisions
<1>3. IsInput(back)
    BY <1>1, <1>2 DEF IsInput
<1>4. Coherent(back)
    <2>1. \A i \in DOMAIN in.prior :
             {back.prior[i].left, back.prior[i].right} = {in.prior[i].left, in.prior[i].right}
        BY <1>1
    <2> QED
        BY <1>1, <2>1 DEF Coherent
<1>5. \A kind : DecisionsOf(back, kind) = DecisionsOf(in, kind)
    BY <1>1 DEF DecisionsOf
<1>6. Accepted(back) = Accepted(in)
    <2>1. \A i \in DecisionsOf(in, "accept_unmatched") : back.prior[i].left = in.prior[i].left
        BY <1>1 DEF DecisionsOf
    <2> QED
        BY <1>5, <2>1 DEF Accepted
<1>7. \A i \in DecisionsOf(in, "reject_suggestion") \cup DecisionsOf(in, "manual_match") :
         back.prior[i].left = in.prior[i].right /\ back.prior[i].right = in.prior[i].left
    BY <1>1 DEF DecisionsOf
<1>8. \A l, r : Blocked(back, r, l) <=> Blocked(in, l, r)
    BY <1>5, <1>7 DEF Blocked
<1> QED
    BY <1>3, <1>4, <1>5, <1>6, <1>7, <1>8 DEF back

\* The components of exchanged pairs.
LEMMA SwappedSides ==
    ASSUME NEW A, NEW B, NEW pairs, pairs \subseteq A \X B
    PROVE  Lefts(Swapped(pairs)) = Rights(pairs) /\ Rights(Swapped(pairs)) = Lefts(pairs)
<1>1. \A p \in pairs : <<p[2], p[1]>>[1] = p[2] /\ <<p[2], p[1]>>[2] = p[1]
    OBVIOUS
<1>2. \A q : q \in Swapped(pairs) <=> \E p \in pairs : q = <<p[2], p[1]>>
    BY DEF Swapped
<1>3. \A k : k \in Lefts(Swapped(pairs)) <=> k \in Rights(pairs)
    <2>1. \A k : k \in Lefts(Swapped(pairs)) <=> \E q \in Swapped(pairs) : k = q[1]
        BY DEF Lefts
    <2>2. \A k : k \in Rights(pairs) <=> \E p \in pairs : k = p[2]
        BY DEF Rights
    <2>3. ASSUME NEW p \in pairs PROVE \E q \in Swapped(pairs) : p[2] = q[1]
        BY <1>1, <1>2
    <2>4. ASSUME NEW q \in Swapped(pairs) PROVE \E p \in pairs : q[1] = p[2]
        BY <1>1, <1>2
    <2> QED
        BY <2>1, <2>2, <2>3, <2>4
<1>4. \A k : k \in Rights(Swapped(pairs)) <=> k \in Lefts(pairs)
    <2>1. \A k : k \in Rights(Swapped(pairs)) <=> \E q \in Swapped(pairs) : k = q[2]
        BY DEF Rights
    <2>2. \A k : k \in Lefts(pairs) <=> \E p \in pairs : k = p[1]
        BY DEF Lefts
    <2>3. ASSUME NEW p \in pairs PROVE \E q \in Swapped(pairs) : p[1] = q[2]
        BY <1>1, <1>2
    <2>4. ASSUME NEW q \in Swapped(pairs) PROVE \E p \in pairs : q[2] = p[1]
        BY <1>1, <1>2
    <2> QED
        BY <2>1, <2>2, <2>3, <2>4
<1> QED
    BY <1>3, <1>4

\* A set of pairs that relates two records when another relates them the
\* other way round.
LEMMA SameSwap ==
    ASSUME NEW A, NEW B, NEW pairs, pairs \subseteq A \X B,
           NEW other, other \subseteq B \X A,
           \A a \in A, b \in B : <<b, a>> \in other <=> <<a, b>> \in pairs
    PROVE  other = Swapped(pairs)
<1>1. ASSUME NEW q \in other PROVE q \in Swapped(pairs)
    <2>1. q[1] \in B /\ q[2] \in A /\ q = <<q[1], q[2]>>
        OBVIOUS
    <2>2. <<q[2], q[1]>> \in pairs
        BY <2>1
    <2>3. <<q[2], q[1]>>[1] = q[2] /\ <<q[2], q[1]>>[2] = q[1]
        OBVIOUS
    <2> QED
        BY <2>1, <2>2, <2>3 DEF Swapped
<1>2. ASSUME NEW p \in pairs PROVE <<p[2], p[1]>> \in other
    <2>1. p[1] \in A /\ p[2] \in B /\ p = <<p[1], p[2]>>
        OBVIOUS
    <2> QED
        BY <2>1
<1>3. Swapped(pairs) \subseteq other
    BY <1>2 DEF Swapped
<1> QED
    BY <1>1, <1>3

\* Exchanging the two sides exchanges the pairs and the suggestions.
LEMMA SidesExchanged ==
    ASSUME NEW in, IsInput(in), Coherent(in)
    PROVE  Outcome(Reversed(in)) =
              [manual             |-> Swapped(ManualPairs(in)),
               reference          |-> Swapped(ReferencePairs(in)),
               suggestions        |-> Swapped(Suggestions(in)),
               accepted_unmatched |-> AcceptedUnmatched(in),
               unmatched          |-> Unmatched(in),
               revoked            |-> Revoked(in)]
<1> DEFINE back == Reversed(in)
<1>1. back.left = in.right /\ back.right = in.left
    BY DEF Reversed
<1>2. /\ IsInput(back) /\ Coherent(back)
      /\ Accepted(back) = Accepted(in)
      /\ \A l, r : Blocked(back, r, l) <=> Blocked(in, l, r)
      /\ DecisionsOf(back, "manual_match") = DecisionsOf(in, "manual_match")
      /\ \A i \in DecisionsOf(in, "manual_match") :
            back.prior[i].left = in.prior[i].right /\ back.prior[i].right = in.prior[i].left
    BY MirroredDecisions
<1> HIDE DEF back
<1>3. StatusDisagreements(back) = StatusDisagreements(in)
    BY <1>1 DEF StatusDisagreements
<1>4. \A side : Available(back, side) = Available(in, side)
    BY <1>3 DEF Available
<1> DEFINE L == Available(in, in.left)
           R == Available(in, in.right)
<1>5. ManualPairs(back) = Swapped(ManualPairs(in))
    <2>1. ManualPairs(back) \subseteq R \X L
        BY <1>1, <1>4 DEF ManualPairs
    <2>2. ManualPairs(in) \subseteq L \X R
        BY DEF ManualPairs
    <2>3. ASSUME NEW l \in L, NEW r \in R
          PROVE  <<r, l>> \in ManualPairs(back) <=> <<l, r>> \in ManualPairs(in)
        <3>1. <<l, r>> \in ManualPairs(in) <=>
                 \E i \in DecisionsOf(in, "manual_match") :
                    in.prior[i].left = Key(l) /\ in.prior[i].right = Key(r)
            BY PairingsApplied
        <3>2. r \in Available(back, back.left) /\ l \in Available(back, back.right)
            BY <1>1, <1>4
        <3>3. <<r, l>> \in ManualPairs(back) <=>
                 \E i \in DecisionsOf(back, "manual_match") :
                    back.prior[i].left = Key(r) /\ back.prior[i].right = Key(l)
            BY <1>2, <3>2, PairingsApplied
        <3> QED
            BY <1>2, <3>1, <3>3
    <2> HIDE DEF L, R
    <2>4. PICK ours, theirs : ours = ManualPairs(in) /\ theirs = ManualPairs(back)
        OBVIOUS
    <2>5. /\ ours \subseteq L \X R /\ theirs \subseteq R \X L
          /\ \A l \in L, r \in R : <<r, l>> \in theirs <=> <<l, r>> \in ours
        BY <2>1, <2>2, <2>3, <2>4
    <2>6. theirs = Swapped(ours)
        BY <2>5, SameSwap
    <2> QED
        BY <2>4, <2>6
<1>6. Lefts(ManualPairs(back)) = Rights(ManualPairs(in)) /\ Rights(ManualPairs(back)) = Lefts(ManualPairs(in))
    <2>1. ManualPairs(in) \subseteq L \X R
        BY DEF ManualPairs
    <2> HIDE DEF L, R
    <2> QED
        BY <1>5, <2>1, SwappedSides
<1>7. ReferencePairs(back) = Swapped(ReferencePairs(in))
    <2> DEFINE RestL == L \ Lefts(ManualPairs(in))
               RestR == R \ Rights(ManualPairs(in))
    <2>1. ReferencePairs(in) = {p \in RestL \X RestR : p[1].reference = p[2].reference}
        BY DEF ReferencePairs
    <2>2. ReferencePairs(back) = {p \in RestR \X RestL : p[1].reference = p[2].reference}
        BY <1>1, <1>4, <1>6 DEF ReferencePairs
    <2> HIDE DEF RestL, RestR
    <2>3. \A l \in RestL, r \in RestR : <<r, l>> \in ReferencePairs(back) <=> <<l, r>> \in ReferencePairs(in)
        BY <2>1, <2>2
    <2>4. ReferencePairs(in) \subseteq RestL \X RestR /\ ReferencePairs(back) \subseteq RestR \X RestL
        BY <2>1, <2>2
    <2>5. PICK ours, theirs : ours = ReferencePairs(in) /\ theirs = ReferencePairs(back)
        OBVIOUS
    <2>6. /\ ours \subseteq RestL \X RestR /\ theirs \subseteq RestR \X RestL
          /\ \A l \in RestL, r \in RestR : <<r, l>> \in theirs <=> <<l, r>> \in ours
        BY <2>3, <2>4, <2>5
    <2>7. theirs = Swapped(ours)
        BY <2>6, SameSwap
    <2> QED
        BY <2>5, <2>7
<1>8. Lefts(Pairs(back)) = Rights(Pairs(in)) /\ Rights(Pairs(back)) = Lefts(Pairs(in))
    <2>1. Pairs(back) = Swapped(Pairs(in))
        BY <1>5, <1>7 DEF Pairs, Swapped
    <2>2. Pairs(in) \subseteq L \X R
        BY OneToOne
    <2> HIDE DEF L, R
    <2> QED
        BY <2>1, <2>2, SwappedSides
<1>9. Revoked(back) = Revoked(in) /\ StillAccepted(back) = StillAccepted(in)
    <2>1. \A k : (\E p \in ReferencePairs(back) : k \in {Key(p[1]), Key(p[2])}) <=>
                 (\E p \in ReferencePairs(in) : k \in {Key(p[1]), Key(p[2])})
        <3>1. \A p \in ReferencePairs(in) : <<p[2], p[1]>> \in ReferencePairs(back)
            BY <1>7 DEF Swapped
        <3>2. \A q \in ReferencePairs(back) : \E p \in ReferencePairs(in) : q[1] = p[2] /\ q[2] = p[1]
            BY <1>7 DEF Swapped
        <3> QED
            BY <3>1, <3>2
    <2> QED
        BY <1>2, <2>1 DEF Revoked, StillAccepted
<1>10. OpenLeft(back) = OpenRight(in) /\ OpenRight(back) = OpenLeft(in)
    BY <1>1, <1>4, <1>8 DEF OpenLeft, OpenRight
<1>11. \A l \in OpenLeft(in), r \in OpenRight(in) : Candidate(back, r, l) <=> Candidate(in, l, r)
    <2> SUFFICES ASSUME NEW l \in OpenLeft(in), NEW r \in OpenRight(in)
                 PROVE  Candidate(back, r, l) <=> Candidate(in, l, r)
        OBVIOUS
    <2>1. /\ l.time \in Int /\ r.time \in Int
          /\ l.quantity \in Int /\ r.quantity \in Int
        BY OpenRecords, AvailableRecords, SidesApart
    <2>2. Plausible(l, r) <=> Plausible(r, l)
        BY <2>1, PlausibleBothWays
    <2> QED
        BY <1>2, <2>2 DEF Candidate
<1>12. Suggestions(back) = Swapped(Suggestions(in))
    <2> DEFINE OpenL == OpenLeft(in)
               OpenR == OpenRight(in)
    <2>1. Suggestions(in) \subseteq OpenL \X OpenR
        BY DEF Suggestions
    <2>2. Suggestions(back) \subseteq OpenR \X OpenL
        BY <1>10 DEF Suggestions
    <2>3. ASSUME NEW l \in OpenL, NEW r \in OpenR
          PROVE  <<r, l>> \in Suggestions(back) <=> <<l, r>> \in Suggestions(in)
        BY <1>9, <1>10, <1>11 DEF Suggestions
    <2> HIDE DEF OpenL, OpenR
    <2>4. PICK ours, theirs : ours = Suggestions(in) /\ theirs = Suggestions(back)
        OBVIOUS
    <2>5. /\ ours \subseteq OpenL \X OpenR /\ theirs \subseteq OpenR \X OpenL
          /\ \A l \in OpenL, r \in OpenR : <<r, l>> \in theirs <=> <<l, r>> \in ours
        BY <2>1, <2>2, <2>3, <2>4
    <2>6. theirs = Swapped(ours)
        BY <2>5, SameSwap
    <2> QED
        BY <2>4, <2>6
<1>13. Suggested(back) = Suggested(in)
    <2>1. Suggestions(in) \subseteq OpenLeft(in) \X OpenRight(in)
        BY DEF Suggestions
    <2>2. /\ Lefts(Suggestions(back)) = Rights(Suggestions(in))
          /\ Rights(Suggestions(back)) = Lefts(Suggestions(in))
        BY <1>12, <2>1, SwappedSides
    <2> QED
        BY <2>2 DEF Suggested
<1>14. AcceptedUnmatched(back) = AcceptedUnmatched(in) /\ Unmatched(back) = Unmatched(in)
    BY <1>9, <1>10, <1>13 DEF AcceptedUnmatched, Unmatched
<1> QED
    BY <1>5, <1>7, <1>9, <1>12, <1>14 DEF Outcome, back

----------------------------------------------------------------------------

\* Withdrawing decisions leaves decisions.
LEMMA TypeNext == TypeOK /\ [Next]_vars => TypeOK'
<1> SUFFICES ASSUME TypeOK, [Next]_vars
             PROVE  TypeOK'
    OBVIOUS
<1>1. CASE Next
    <2>1. /\ input'.left = input.left /\ input'.right = input.right
          /\ input'.leftSource = input.leftSource /\ input'.rightSource = input.rightSource
          /\ input'.prior = PriorAfterRun(input)
        BY <1>1 DEF Next, NextRun, AfterRun
    <2>2. AreDecisions(input'.prior)
        BY <2>1 DEF TypeOK, IsInput, AreDecisions, PriorAfterRun
    <2> QED
        BY <2>1, <2>2 DEF TypeOK, IsInput
<1>2. CASE UNCHANGED vars
    BY <1>2 DEF TypeOK, vars
<1> QED
    BY <1>1, <1>2

\* From one run to the next the input stays the input of a run: two sides
\* without repeated references and decisions of the right shape.
THEOREM TypeCorrect == Spec => []TypeOK
<1>1. Init => TypeOK
    BY DEF Init, TypeOK
<1> QED
    BY <1>1, TypeNext, PTL DEF Spec

\* Every record of every run ends in exactly one bucket or one pair
\* (TR-509, R4.8), whatever the files, the decisions and the thresholds.
THEOREM PartitionIsTotalAndDisjoint == Spec => []EveryRecordOnce
<1>1. TypeOK => EveryRecordOnce
    BY PartitionHolds DEF TypeOK, EveryRecordOnce
<1> QED
    BY <1>1, TypeCorrect, PTL

\* In every run the decisions people made prevail over references and
\* suggestions, unless they contend for a record.
THEOREM PeopleDecide == Spec => []DecisionsPrevail
<1>1. TypeOK => DecisionsPrevail
    BY DecisionsHold
<1> QED
    BY <1>1, TypeCorrect, PTL

\* In every run, two records that are left unmatched and are plausibly the
\* same trade are a pair a person rejected (R4.3): with any quantities and
\* thresholds the allowance is one of the larger side.
THEOREM NothingIsOverlooked == Spec => []NoMissedCounterpart
<1>1. TypeOK => NoMissedCounterpart
    BY NoCounterpartLeft
<1> QED
    BY <1>1, TypeCorrect, PTL

\* A run the other way round gives the mirrored answer (D12), for any two
\* files and any decisions that do not contend.
THEOREM NeitherSideIsAuthoritative == Spec => []SidesInterchangeable
<1>1. TypeOK => SidesInterchangeable
    BY SidesExchanged DEF TypeOK, SidesInterchangeable
<1> QED
    BY <1>1, TypeCorrect, PTL

\* The run after a run that revoked acceptances gives the same answer and
\* revokes nothing (TR-702), for any two files and any decisions that do not
\* contend.
THEOREM RunningAgainSettles == Spec => []RerunSettles
<1>1. TypeOK => RerunSettles
    <2> SUFFICES ASSUME IsInput(input), Coherent(input)
                 PROVE  Outcome(AfterRun(input)) = [Outcome(input) EXCEPT !.revoked = {}]
        BY DEF TypeOK, RerunSettles
    <2> QED
        BY NextRunAgrees DEF Outcome
<1> QED
    BY <1>1, TypeCorrect, PTL

=============================================================================
