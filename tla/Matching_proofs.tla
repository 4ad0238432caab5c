-------------------------- MODULE Matching_proofs --------------------------
(***************************************************************************)
(* What the tiers of matching guarantee for every input of a run: whatever *)
(* the files, the decisions and the thresholds.                            *)
(***************************************************************************)
EXTENDS Matching, TLAPS

\* The two sides share no record, and a side repeats no reference.
LEMMA SidesApart ==
    ASSUME NEW in, IsInput(in)
    PROVE  /\ in.left \cap in.right = {}
           /\ \A r \in in.left : r.source = in.leftSource
           /\ \A r \in in.right : r.source = in.rightSource
           /\ \A r, s \in in.left : r.reference = s.reference => r = s
           /\ \A r, s \in in.right : r.reference = s.reference => r = s
           /\ \A r \in in.left \cup in.right :
                 /\ r.reference \in Nat /\ r.cancelled \in BOOLEAN
                 /\ r.time \in Int /\ r.quantity \in Int
                 /\ Key(r) \in RecordKey /\ Key(r) # NoRecord
<1>1. \A r \in in.left \cup in.right : r.source \in Sources /\ r.reference \in References
    BY DEF IsInput, IsSide
<1>2. \A r \in in.left \cup in.right : Key(r) \in RecordKey /\ Key(r) # NoRecord
    BY <1>1, NoRecordAssumption DEF Key, RecordKey
<1> QED
    BY <1>2, ReferencesAssumption, MeasuresAssumption DEF IsInput, IsSide

\* The shape of the decisions.
LEMMA DecisionRows ==
    ASSUME NEW in, IsInput(in)
    PROVE  /\ DOMAIN in.prior \subseteq Nat
           /\ \A i \in DOMAIN in.prior :
                 /\ in.prior[i].kind \in {"manual_match", "accept_unmatched", "reject_suggestion"}
                 /\ in.prior[i].left \in RecordKey /\ in.prior[i].left # NoRecord
                 /\ in.prior[i].right = NoRecord <=> in.prior[i].kind = "accept_unmatched"
BY NoRecordAssumption DEF IsInput, AreDecisions

\* What the first tiers leave for pairing are live records of each side.
LEMMA AvailableRecords ==
    ASSUME NEW in
    PROVE
    /\ Available(in, in.left) \subseteq in.left /\ Available(in, in.right) \subseteq in.right
    /\ \A r \in Available(in, in.left) \cup Available(in, in.right) :
          ~r.cancelled /\ r \notin StatusDisagreements(in)
    /\ \A r \in in.left : ~r.cancelled /\ r \notin StatusDisagreements(in) => r \in Available(in, in.left)
    /\ \A r \in in.right : ~r.cancelled /\ r \notin StatusDisagreements(in) => r \in Available(in, in.right)
    /\ \A r \in StatusDisagreements(in) : ~r.cancelled
BY DEF Available, LiveIn, StatusDisagreements, DisagreeingWith

\* A left-hand record has one pairing: the last.
LEMMA LastPairing ==
    ASSUME NEW in, IsInput(in), NEW k, NEW a, NEW b, ManuallyPaired(in, k, a), ManuallyPaired(in, k, b)
    PROVE  a = b
<1>1. PICK i \in DecisionsOf(in, "manual_match") :
          /\ in.prior[i].left = k /\ in.prior[i].right = a
          /\ \A j \in DecisionsOf(in, "manual_match") : in.prior[j].left = k => j <= i
    BY DEF ManuallyPaired
<1>2. PICK j \in DecisionsOf(in, "manual_match") :
          /\ in.prior[j].left = k /\ in.prior[j].right = b
          /\ \A m \in DecisionsOf(in, "manual_match") : in.prior[m].left = k => m <= j
    BY DEF ManuallyPaired
<1>3. i \in Nat /\ j \in Nat
    BY DEF DecisionsOf, IsInput, AreDecisions
<1>4. i <= j /\ j <= i
    BY <1>1, <1>2
<1>5. i = j
    BY <1>3, <1>4
<1> QED
    BY <1>1, <1>2, <1>5

\* Every pair takes one available record of each side, and matching is
\* one-to-one, even between decisions that contend (R4.8).
LEMMA OneToOne ==
    ASSUME NEW in, IsInput(in)
    PROVE  /\ Pairs(in) \subseteq Available(in, in.left) \X Available(in, in.right)
           /\ \A p, q \in Pairs(in) : (p[1] = q[1] \/ p[2] = q[2]) => p = q
<1> DEFINE L == Available(in, in.left)
           R == Available(in, in.right)
<1>1. ManualPairs(in) \subseteq L \X R /\ ReferencePairs(in) \subseteq L \X R
    BY DEF ManualPairs, ReferencePairs
<1>2. \A p \in L \X R : p[1] \in in.left /\ p[2] \in in.right /\ p = <<p[1], p[2]>>
    BY AvailableRecords
<1>3. ASSUME NEW p \in ManualPairs(in), NEW q \in ManualPairs(in), p[1] = q[1] \/ p[2] = q[2]
      PROVE  p = q
    <2>1. p \in L \X R /\ q \in L \X R
        BY <1>1
    <2>2. ManuallyPaired(in, Key(p[1]), Key(p[2])) /\ ManuallyPaired(in, Key(q[1]), Key(q[2]))
        BY DEF ManualPairs
    <2>3. p[2] = q[2] => p[1] = q[1]
        <3>1. p[2] = q[2] => p[1].reference <= q[1].reference /\ q[1].reference <= p[1].reference
            BY DEF ManualPairs
        <3>2. p[1].reference \in Nat /\ q[1].reference \in Nat
            BY <1>2, <2>1, SidesApart
        <3> QED
            BY <1>2, <2>1, <3>1, <3>2, SidesApart
    <2>4. p[1] = q[1] => Key(p[2]) = Key(q[2])
        BY <2>2, LastPairing
    <2>5. p[1] = q[1] => p[2] = q[2]
        BY <1>2, <2>1, <2>4, SidesApart DEF Key
    <2> QED
        BY <1>2, <1>3, <2>1, <2>3, <2>5
<1>4. ASSUME NEW p \in ReferencePairs(in), NEW q \in ReferencePairs(in), p[1] = q[1] \/ p[2] = q[2]
      PROVE  p = q
    <2>1. p \in L \X R /\ q \in L \X R
        BY <1>1
    <2>2. p[1].reference = p[2].reference /\ q[1].reference = q[2].reference
        BY DEF ReferencePairs
    <2> QED
        BY <1>2, <1>4, <2>1, <2>2, SidesApart
<1>5. ASSUME NEW p \in ManualPairs(in), NEW q \in ReferencePairs(in)
      PROVE  p[1] # q[1] /\ p[2] # q[2]
    BY DEF ReferencePairs, Lefts, Rights
<1> QED
    BY <1>1, <1>3, <1>4, <1>5 DEF Pairs

\* What a suggestion or an open record is.
LEMMA OpenRecords ==
    ASSUME NEW in
    PROVE
    /\ OpenLeft(in) \subseteq Available(in, in.left) /\ OpenRight(in) \subseteq Available(in, in.right)
    /\ \A r \in OpenLeft(in), p \in Pairs(in) : r # p[1]
    /\ \A r \in OpenRight(in), p \in Pairs(in) : r # p[2]
    /\ \A r \in Suggested(in) : r \in OpenLeft(in) \cup OpenRight(in) /\ Key(r) \notin StillAccepted(in)
    /\ \A r \in AcceptedUnmatched(in) : r \in OpenLeft(in) \cup OpenRight(in) /\ Key(r) \in StillAccepted(in)
    /\ \A r \in Unmatched(in) :
          r \in OpenLeft(in) \cup OpenRight(in) /\ Key(r) \notin StillAccepted(in) /\ r \notin Suggested(in)
    /\ \A r \in OpenLeft(in) \cup OpenRight(in) :
          r \in Suggested(in) \/ r \in AcceptedUnmatched(in) \/ r \in Unmatched(in)
BY DEF OpenLeft, OpenRight, Lefts, Rights, Suggested, Suggestions, AcceptedUnmatched, Unmatched

\* The partition is total, disjoint and one-to-one for all well-typed
\* inputs, contending decisions included: every record ends in exactly one
\* bucket, or in exactly one pair (TR-509, R4.8).
LEMMA PartitionHolds ==
    ASSUME NEW in, IsInput(in)
    PROVE  \A r \in in.left \cup in.right :
              \E outcome \in Outcomes(in, r) : Outcomes(in, r) = {outcome}
<1> SUFFICES ASSUME NEW r \in in.left \cup in.right
             PROVE  \E outcome \in Outcomes(in, r) : Outcomes(in, r) = {outcome}
    OBVIOUS
<1> DEFINE InPair == \E p \in Pairs(in) : r \in {p[1], p[2]}
<1>1. r \in Cancelled(in.left) \cup Cancelled(in.right) <=> r.cancelled
    BY DEF Cancelled
<1>2. \A p \in Pairs(in) : p[1] \in Available(in, in.left) /\ p[2] \in Available(in, in.right)
    BY OneToOne
<1>3. InPair => r \in Available(in, in.left) \cup Available(in, in.right)
    BY <1>2
<1>4. InPair <=> (/\ r \in Available(in, in.left) \cup Available(in, in.right)
                  /\ r \notin OpenLeft(in) \cup OpenRight(in))
    BY <1>2, <1>3, SidesApart, AvailableRecords DEF OpenLeft, OpenRight, Lefts, Rights
<1>5. CASE r.cancelled
    <2>1. Outcomes(in, r) = {<<"excluded", r>>}
        BY <1>1, <1>3, <1>5, AvailableRecords, OpenRecords DEF Outcomes
    <2> QED
        BY <2>1
<1>6. CASE r \in StatusDisagreements(in)
    <2>1. Outcomes(in, r) = {<<"status_disagreement", r>>}
        BY <1>1, <1>3, <1>6, AvailableRecords, OpenRecords DEF Outcomes
    <2> QED
        BY <2>1
<1>7. CASE InPair
    <2>1. PICK p \in Pairs(in) : r \in {p[1], p[2]}
        BY <1>7
    <2>2. \A q \in Pairs(in) : r \in {q[1], q[2]} => q = p
        BY <1>2, <2>1, OneToOne, SidesApart, AvailableRecords
    <2>3. {q \in Pairs(in) : r \in {q[1], q[2]}} = {p}
        BY <2>1, <2>2
    <2>4. /\ ~r.cancelled /\ r \notin StatusDisagreements(in)
          /\ r \notin OpenLeft(in) \cup OpenRight(in)
        BY <1>3, <1>4, <1>7, AvailableRecords
    <2>5. r \notin AcceptedUnmatched(in) /\ r \notin Unmatched(in) /\ r \notin Suggested(in)
        BY <2>4, OpenRecords
    <2>6. Outcomes(in, r) = {<<"paired", p>>}
        BY <1>1, <2>3, <2>4, <2>5 DEF Outcomes
    <2> QED
        BY <2>6
<1>8. CASE r \in OpenLeft(in) \cup OpenRight(in)
    <2>1. ~r.cancelled /\ r \notin StatusDisagreements(in) /\ ~InPair
        BY <1>4, <1>8, AvailableRecords, OpenRecords
    <2>2. CASE r \in AcceptedUnmatched(in)
        <3>1. Outcomes(in, r) = {<<"accepted_unmatched", r>>}
            BY <1>1, <2>1, <2>2, OpenRecords DEF Outcomes
        <3> QED
            BY <3>1
    <2>3. CASE r \in Suggested(in)
        <3>1. Outcomes(in, r) = {<<"suggested", r>>}
            BY <1>1, <2>1, <2>3, OpenRecords DEF Outcomes
        <3> QED
            BY <3>1
    <2>4. CASE r \in Unmatched(in)
        <3>1. Outcomes(in, r) = {<<"unmatched", r>>}
            BY <1>1, <2>1, <2>4, OpenRecords DEF Outcomes
        <3> QED
            BY <3>1
    <2> QED
        BY <1>8, <2>2, <2>3, <2>4, OpenRecords
<1> QED
    BY <1>4, <1>5, <1>6, <1>7, <1>8, AvailableRecords

----------------------------------------------------------------------------

\* A number of basis points of one side is at most as many of the larger.
LEMMA ShareOfLarger ==
    ASSUME NEW a \in Int, NEW b \in Int, NEW k \in Nat
    PROVE  k * a <= k * Larger(a, b) /\ k * b <= k * Larger(a, b)
<1> DEFINE m == Larger(a, b)
<1>1. m \in Int /\ a <= m /\ b <= m
    BY DEF Larger, Abs
<1>2. \A n \in Int : n <= m => k * n <= k * m
    <2> SUFFICES ASSUME NEW n \in Int, n <= m
                 PROVE  k * n <= k * m
        OBVIOUS
    <2> HIDE DEF m
    <2>1. k \in Int /\ k >= 0 /\ m - n >= 0
        BY <1>1
    <2>2. k * (m - n) >= 0
        BY <1>1, <2>1
    <2>3. k * (m - n) = k * m - k * n
        BY <1>1, <2>1
    <2> QED
        BY <1>1, <2>1, <2>2, <2>3
<1> QED
    BY <1>1, <1>2

\* Quantities within an allowance of either side are within that of the
\* larger: the predicate takes neither side as its reference.
LEMMA EitherShareSuffices ==
    ASSUME NEW a \in Int, NEW b \in Int, NEW k \in Nat,
           \/ (a - b) * BpsUnit \in -k * a..k * a
           \/ (a - b) * BpsUnit \in -k * b..k * b
    PROVE  WithinBps(a, b, k)
<1>1. k * a <= k * Larger(a, b) /\ k * b <= k * Larger(a, b)
    BY ShareOfLarger
<1>2. k * a \in Int /\ k * b \in Int /\ k * Larger(a, b) \in Int
    BY DEF Larger, Abs
<1>3. (a - b) * BpsUnit \in Int /\ (-k) * a = -(k * a) /\ (-k) * b = -(k * b)
    BY BpsUnitAssumption
<1>4. /\ (a - b) * BpsUnit <= k * Larger(a, b)
      /\ -((a - b) * BpsUnit) <= k * Larger(a, b)
    BY <1>1, <1>2, <1>3
<1>5. Abs(b - a) * BpsUnit \in {(a - b) * BpsUnit, -((a - b) * BpsUnit)}
    <2>1. CASE b - a < 0
        BY <2>1, BpsUnitAssumption DEF Abs
    <2>2. CASE b - a >= 0
        BY <2>2, BpsUnitAssumption DEF Abs
    <2> QED
        BY <2>1, <2>2
<1> QED
    BY <1>4, <1>5 DEF WithinBps

----------------------------------------------------------------------------
(* Decisions that do not contend.                                          *)

\* A pairing or acceptance shares no record with another.
LEMMA NoOtherDecision ==
    ASSUME NEW in, IsInput(in), Coherent(in), NEW i \in DOMAIN in.prior, NEW j \in DOMAIN in.prior,
           in.prior[i].kind # "reject_suggestion", in.prior[j].kind # "reject_suggestion",
           NEW key \in RecordKey,
           key \in {in.prior[i].left, in.prior[i].right},
           key \in {in.prior[j].left, in.prior[j].right}
    PROVE  i = j
BY NoRecordAssumption DEF Coherent

\* So a record is paired as any pairing of it says.
LEMMA PairingsAreLast ==
    ASSUME NEW in, IsInput(in), Coherent(in), NEW i \in DecisionsOf(in, "manual_match")
    PROVE  ManuallyPaired(in, in.prior[i].left, in.prior[i].right)
<1>1. \A j \in DecisionsOf(in, "manual_match") : in.prior[j].left = in.prior[i].left => j = i
    BY NoOtherDecision, DecisionRows DEF DecisionsOf
<1>2. i \in Nat
    BY DecisionRows DEF DecisionsOf
<1> QED
    BY <1>1, <1>2 DEF ManuallyPaired

\* A pairing of two records the run may pair is applied by the first tier,
\* which applies nothing else.
LEMMA PairingsApplied ==
    ASSUME NEW in, IsInput(in), Coherent(in),
           NEW l \in Available(in, in.left), NEW r \in Available(in, in.right)
    PROVE  <<l, r>> \in ManualPairs(in) <=>
              \E i \in DecisionsOf(in, "manual_match") :
                 in.prior[i].left = Key(l) /\ in.prior[i].right = Key(r)
<1> DEFINE named == {p \in Available(in, in.left) \X Available(in, in.right) :
                        ManuallyPaired(in, Key(p[1]), Key(p[2]))}
<1>1. ASSUME <<l, r>> \in ManualPairs(in)
      PROVE  \E i \in DecisionsOf(in, "manual_match") :
                in.prior[i].left = Key(l) /\ in.prior[i].right = Key(r)
    BY <1>1 DEF ManualPairs, ManuallyPaired
<1>2. ASSUME NEW i \in DecisionsOf(in, "manual_match"),
             in.prior[i].left = Key(l), in.prior[i].right = Key(r)
      PROVE  <<l, r>> \in ManualPairs(in)
    <2>1. <<l, r>> \in named
        BY <1>2, PairingsAreLast
    <2>2. l \in in.left /\ r \in in.right
        BY AvailableRecords
    <2>3. ASSUME NEW q \in named, q[2] = r
          PROVE  q[1] = l
        <3>1. PICK j \in DecisionsOf(in, "manual_match") :
                  in.prior[j].left = Key(q[1]) /\ in.prior[j].right = Key(r)
            BY <2>3 DEF ManuallyPaired
        <3>2. Key(r) \in RecordKey
            BY <2>2, SidesApart
        <3>3. i = j
            BY <1>2, <3>1, <3>2, NoOtherDecision DEF DecisionsOf
        <3>4. q[1] \in in.left
            BY <2>3, AvailableRecords
        <3> QED
            BY <1>2, <2>2, <3>1, <3>3, <3>4, SidesApart DEF Key
    <2>4. l.reference <= l.reference
        BY <2>2, SidesApart
    <2> HIDE DEF named
    <2>5. <<l, r>> \in {p \in named : \A q \in named : q[2] = p[2] => p[1].reference <= q[1].reference}
        BY <2>1, <2>3, <2>4
    <2> QED
        BY <2>5 DEF ManualPairs, named
<1> QED
    BY <1>1, <1>2

\* An accepted record is no work for anyone.
LEMMA AcceptancesApplied ==
    ASSUME NEW in, IsInput(in), NEW r \in Suggested(in) \cup Unmatched(in)
    PROVE  Key(r) \notin Accepted(in)
<1>1. r \in OpenLeft(in) \cup OpenRight(in) /\ Key(r) \notin StillAccepted(in)
    BY OpenRecords
<1>2. SUFFICES ASSUME Key(r) \in Revoked(in) PROVE FALSE
    BY <1>1 DEF StillAccepted
<1>3. PICK p \in ReferencePairs(in) : Key(r) \in {Key(p[1]), Key(p[2])}
    BY <1>2 DEF Revoked
<1>4. p \in Pairs(in) /\ p[1] \in in.left /\ p[2] \in in.right
    BY OneToOne, AvailableRecords DEF Pairs
<1>5. r \in in.left \cup in.right
    BY <1>1, OpenRecords, AvailableRecords
<1>6. r = p[1] \/ r = p[2]
    BY <1>3, <1>4, <1>5, SidesApart DEF Key, IsInput
<1> QED
    BY <1>1, <1>4, <1>6, OpenRecords, AvailableRecords, SidesApart

----------------------------------------------------------------------------
(* The next run over the same files.                                       *)

\* What a run withdraws is the acceptances it revoked, each found by its
\* record.
LEMMA WithdrawnRows ==
    ASSUME NEW in, IsInput(in), Coherent(in), NEW i \in DOMAIN in.prior
    PROVE  i \in UNION {GoverningRow(in, key) : key \in Revoked(in)} <=>
              in.prior[i].kind = "accept_unmatched" /\ in.prior[i].left \in Revoked(in)
<1>1. ASSUME NEW key \in Revoked(in)
      PROVE  \A j \in DOMAIN in.prior :
                j \in GoverningRow(in, key) <=>
                   in.prior[j].kind = "accept_unmatched" /\ in.prior[j].left = key
    <2> DEFINE rows == {j \in DOMAIN in.prior :
                           /\ in.prior[j].kind # "reject_suggestion"
                           /\ key \in {in.prior[j].left, in.prior[j].right}}
    <2>1. PICK a \in DecisionsOf(in, "accept_unmatched") : key = in.prior[a].left
        BY DEF Revoked, Accepted
    <2>2. a \in rows /\ key \in RecordKey /\ a \in Nat
        BY <2>1, DecisionRows DEF DecisionsOf
    <2>3. rows = {a}
        BY <2>1, <2>2, NoOtherDecision
    <2>4. GoverningRow(in, key) = {j \in rows : \A m \in rows : m <= j}
        BY DEF GoverningRow
    <2>5. GoverningRow(in, key) = {a}
        BY <2>2, <2>3, <2>4
    <2>6. ASSUME NEW j \in DOMAIN in.prior, in.prior[j].kind = "accept_unmatched",
                 in.prior[j].left = key
          PROVE  j \in rows
        BY <2>6
    <2> QED
        BY <2>1, <2>3, <2>5, <2>6 DEF DecisionsOf
<1> QED
    BY <1>1

\* The decisions of the next run: the same pairings and rejections, and the
\* acceptances still in force.
LEMMA DecisionsAfterRun ==
    ASSUME NEW in, IsInput(in), Coherent(in)
    PROVE  /\ \A l, r : ManuallyPaired(AfterRun(in), l, r) <=> ManuallyPaired(in, l, r)
           /\ \A l, r : Blocked(AfterRun(in), l, r) <=> Blocked(in, l, r)
           /\ Accepted(AfterRun(in)) = StillAccepted(in)
<1> DEFINE after == AfterRun(in)
<1>1. /\ DOMAIN after.prior \subseteq DOMAIN in.prior
      /\ \A i \in DOMAIN after.prior : after.prior[i] = in.prior[i]
      /\ \A i \in DOMAIN in.prior : i \in DOMAIN after.prior <=>
            ~(in.prior[i].kind = "accept_unmatched" /\ in.prior[i].left \in Revoked(in))
    BY WithdrawnRows DEF AfterRun, PriorAfterRun
<1> HIDE DEF after
<1>2. /\ DecisionsOf(after, "manual_match") = DecisionsOf(in, "manual_match")
      /\ DecisionsOf(after, "reject_suggestion") = DecisionsOf(in, "reject_suggestion")
      /\ DecisionsOf(after, "accept_unmatched") =
            {i \in DecisionsOf(in, "accept_unmatched") : in.prior[i].left \notin Revoked(in)}
    BY <1>1 DEF DecisionsOf
<1>3. \A l, r : ManuallyPaired(after, l, r) <=> ManuallyPaired(in, l, r)
    <2>1. \A i \in DecisionsOf(in, "manual_match") : after.prior[i] = in.prior[i]
        BY <1>1, <1>2 DEF DecisionsOf
    <2> QED
        BY <1>2, <2>1 DEF ManuallyPaired
<1>4. \A l, r : Blocked(after, l, r) <=> Blocked(in, l, r)
    <2>1. \A i \in DecisionsOf(in, "reject_suggestion") : after.prior[i] = in.prior[i]
        BY <1>1, <1>2 DEF DecisionsOf
    <2> QED
        BY <1>2, <2>1 DEF Blocked
<1>5. Accepted(after) = StillAccepted(in)
    <2>1. \A i \in DecisionsOf(after, "accept_unmatched") : after.prior[i] = in.prior[i]
        BY <1>1 DEF DecisionsOf
    <2> QED
        BY <1>2, <2>1 DEF Accepted, StillAccepted
<1> QED
    BY <1>3, <1>4, <1>5 DEF after

\* Running again settles: the tiers take and leave what they took and left,
\* and nothing more is revoked.
LEMMA NextRunAgrees ==
    ASSUME NEW in, IsInput(in), Coherent(in)
    PROVE  /\ ManualPairs(AfterRun(in)) = ManualPairs(in)
           /\ ReferencePairs(AfterRun(in)) = ReferencePairs(in)
           /\ Revoked(AfterRun(in)) = {}
           /\ Suggestions(AfterRun(in)) = Suggestions(in)
           /\ AcceptedUnmatched(AfterRun(in)) = AcceptedUnmatched(in)
           /\ Unmatched(AfterRun(in)) = Unmatched(in)
           /\ StatusDisagreements(AfterRun(in)) = StatusDisagreements(in)
<1> DEFINE after == AfterRun(in)
<1>0. after.left = in.left /\ after.right = in.right
    BY DEF AfterRun
<1>1. /\ \A l, r : ManuallyPaired(after, l, r) <=> ManuallyPaired(in, l, r)
      /\ \A l, r : Blocked(after, l, r) <=> Blocked(in, l, r)
      /\ Accepted(after) = StillAccepted(in)
    BY DecisionsAfterRun
<1> HIDE DEF after
<1>2. StatusDisagreements(after) = StatusDisagreements(in)
    BY <1>0 DEF StatusDisagreements
<1>3. \A side : Available(after, side) = Available(in, side)
    BY <1>2 DEF Available
<1>4. ManualPairs(after) = ManualPairs(in)
    BY <1>0, <1>1, <1>3 DEF ManualPairs
<1>5. ReferencePairs(after) = ReferencePairs(in) /\ Pairs(after) = Pairs(in)
    BY <1>0, <1>3, <1>4 DEF ReferencePairs, Pairs
<1>6. Revoked(after) = {} /\ StillAccepted(after) = StillAccepted(in)
    BY <1>1, <1>5 DEF Revoked, StillAccepted
<1>7. OpenLeft(after) = OpenLeft(in) /\ OpenRight(after) = OpenRight(in)
    BY <1>0, <1>3, <1>5 DEF OpenLeft, OpenRight
<1>8. Suggestions(after) = Suggestions(in)
    BY <1>1, <1>6, <1>7 DEF Suggestions, Candidate
<1>9. AcceptedUnmatched(after) = AcceptedUnmatched(in) /\ Unmatched(after) = Unmatched(in)
    BY <1>6, <1>7, <1>8 DEF AcceptedUnmatched, Unmatched, Suggested
<1> QED
    BY <1>2, <1>4, <1>5, <1>6, <1>8, <1>9 DEF after

=============================================================================
