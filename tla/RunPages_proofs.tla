-------------------------- MODULE RunPages_proofs --------------------------
(***************************************************************************)
(* What the pages of a run show, for any files, decisions and runs: from   *)
(* what a run says of its input (ServiceInv).                              *)
(***************************************************************************)
EXTENDS RunPages, Reconcile_proofs

----------------------------------------------------------------------------
(* The decision on a record.                                               *)

\* A decision the page of a record shows stands and is about that record.
LEMMA ShownDecision ==
    ASSUME DecisionsInv, NEW item, NEW i \in DecisionShown(item)
    PROVE  /\ i \in DOMAIN resolution /\ resolution[i].stamp = "live"
           /\ KeyOf(item) \in {resolution[i].left, resolution[i].right}
           /\ resolution[i].kind = "accept_unmatched" => resolution[i].left = KeyOf(item)
<1>1. /\ i \in DOMAIN resolution /\ resolution[i].stamp = "live"
      /\ KeyOf(item) \in Decisions!IdentitiesOf(resolution[i])
  BY DEF DecisionShown, KeyOf, Live, Decisions!ResolutionFor, Decisions!LiveTouching
<1>2. resolution[i].kind = "accept_unmatched" => resolution[i].right = NoRecord
  BY <1>1, DecisionsStored DEF DecisionsInv
<1> QED
  BY <1>1, <1>2 DEF Decisions!IdentitiesOf

\* An acceptance that a run read, and that stands, settled its record.
LEMMA AcceptanceApplied ==
    ASSUME DecisionsInv, NEW row, NEW in, Answers(row, in), FilesSay(row, in), DecisionsSay(row, in),
           NEW item \in row.items, item.state \notin {"excluded", "status_disagreement", "withdrawn"},
           NEW i \in 1..row.decisions, i \in DOMAIN resolution, resolution[i].stamp = "live",
           resolution[i].kind = "accept_unmatched", resolution[i].left = KeyOf(item)
    PROVE  item.state = "accepted_unmatched"
<1>1. IsInput(in) /\ Coherent(in) /\ in.leftSource = row.left /\ in.rightSource = row.right
  BY DEF Answers
<1>2. PICK r \in in.left \cup in.right : Key(r) = KeyOf(item) /\ Ends(in, r, item.state)
  BY DEF Answers
<1>3. Key(r) \in RecordKey /\ Key(r)[1] \in {row.left, row.right}
  BY <1>1, <1>2, KeysOfSides
<1>4. resolution[i].right = NoRecord
  BY DecisionsStored DEF DecisionsInv
<1>5. i \in DOMAIN in.prior
  BY <1>2, <1>3, <1>4 DEF DecisionsSay, Decisions!AboutSources, Decisions!Live
<1>6. in.prior[i].kind = "accept_unmatched" /\ in.prior[i].left = Key(r)
  <2>1. /\ in.prior[i] = Decisions!Oriented(resolution[i], row.right)
        /\ in.prior[i].kind = resolution[i].kind
    BY <1>5 DEF DecisionsSay
  <2> QED
    BY <1>2, <1>4, <2>1 DEF Decisions!Oriented
<1>7. Key(r) \in Accepted(in)
  BY <1>5, <1>6 DEF Accepted, DecisionsOf
<1>8. r \notin Suggested(in) \cup Unmatched(in)
  BY <1>1, <1>7, AcceptancesApplied
<1>9. ASSUME NEW p \in Pairs(in), r \in {p[1], p[2]}
      PROVE  FALSE
  <2>1. CASE p \in ReferencePairs(in)
    BY <1>2, <1>9, <2>1 DEF DecisionsSay
  <2>2. CASE p \in ManualPairs(in)
    <3>1. PICK j \in DecisionsOf(in, "manual_match") :
             in.prior[j].left = Key(p[1]) /\ in.prior[j].right = Key(p[2])
      BY <2>2 DEF ManualPairs, ManuallyPaired
    <3>2. j \in DOMAIN in.prior /\ in.prior[j].kind = "manual_match"
      BY <3>1 DEF DecisionsOf
    <3>3. Key(r) \in {in.prior[j].left, in.prior[j].right}
      BY <1>9, <3>1
    <3>4. i = j
      BY <1>1, <1>3, <1>5, <1>6, <3>2, <3>3, NoOtherDecision
    <3> QED
      BY <1>6, <3>2, <3>4
  <2> QED
    BY <1>9, <2>1, <2>2 DEF Pairs
<1> QED
  BY <1>2, <1>8, <1>9 DEF Ends

\* A pairing across the run's two sources that it read, and that stands,
\* paired its two records.
LEMMA PairingApplied ==
    ASSUME DecisionsInv, NEW row, NEW in, Answers(row, in), FilesSay(row, in), DecisionsSay(row, in),
           NEW i \in 1..row.decisions, i \in DOMAIN resolution, resolution[i].stamp = "live",
           resolution[i].kind = "manual_match",
           {resolution[i].left[1], resolution[i].right[1]} = {row.left, row.right},
           \A key \in {resolution[i].left, resolution[i].right} : \E item \in row.items :
              KeyOf(item) = key /\ item.state \notin {"excluded", "status_disagreement", "withdrawn"}
    PROVE  \E p \in row.pairs : /\ {p.left, p.right} = {resolution[i].left, resolution[i].right}
                                /\ p.resolution = {i}
<1>1. /\ IsInput(in) /\ Coherent(in) /\ in.leftSource = row.left /\ in.rightSource = row.right
      /\ row.pairs = PairsOf(in)
  BY DEF Answers
<1>2. row.left # row.right
  BY <1>1 DEF IsInput
<1>3. i \in DOMAIN in.prior
  BY DEF DecisionsSay, Decisions!AboutSources, Decisions!Live
<1>4. /\ in.prior[i] = Decisions!Oriented(resolution[i], row.right)
      /\ in.prior[i].kind = "manual_match"
      /\ {in.prior[i].left, in.prior[i].right} = {resolution[i].left, resolution[i].right}
  BY <1>3 DEF DecisionsSay
<1>5. in.prior[i].left[1] = row.left /\ in.prior[i].right[1] = row.right
  <2>1. resolution[i].right # NoRecord
    BY DecisionsStored DEF DecisionsInv
  <2>2. CASE resolution[i].left[1] = row.right
    BY <1>2, <1>4, <2>1, <2>2 DEF Decisions!Oriented
  <2>3. CASE resolution[i].left[1] # row.right
    BY <1>2, <1>4, <2>1, <2>3 DEF Decisions!Oriented
  <2> QED
    BY <2>2, <2>3
<1>6. PICK a \in row.items : /\ KeyOf(a) = in.prior[i].left
                             /\ a.state \notin {"excluded", "status_disagreement", "withdrawn"}
  BY <1>4
<1>7. PICK b \in row.items : /\ KeyOf(b) = in.prior[i].right
                             /\ b.state \notin {"excluded", "status_disagreement", "withdrawn"}
  BY <1>4
<1>8. a.source = row.left /\ b.source = row.right
  BY <1>5, <1>6, <1>7 DEF KeyOf
<1>9. PICK l \in Available(in, in.left) : Key(l) = in.prior[i].left
  BY <1>6, <1>8, InPlay
<1>10. PICK r \in Available(in, in.right) : Key(r) = in.prior[i].right
  BY <1>7, <1>8, InPlay
<1>11. i \in DecisionsOf(in, "manual_match")
  BY <1>3, <1>4 DEF DecisionsOf
<1>12. <<l, r>> \in ManualPairs(in)
  BY <1>1, <1>9, <1>10, <1>11, PairingsApplied
<1>13. PICK p : p = PairWritten(in, <<l, r>>, TRUE)
  OBVIOUS
<1>14. p \in row.pairs
  BY <1>1, <1>12, <1>13 DEF PairsOf
<1>15. /\ p.left = in.prior[i].left /\ p.right = in.prior[i].right
       /\ p.manual /\ i \in p.resolution
  BY <1>9, <1>10, <1>11, <1>13 DEF PairWritten
<1>16. PICK j \in 1..row.decisions : p.resolution = {j}
  BY <1>14, <1>15, PairApplied
<1> QED
  BY <1>4, <1>14, <1>15, <1>16

LEMMA EarlierDecisionHolds ==
    ASSUME ServiceInv
    PROVE  EarlierDecisionWasApplied
<1> SUFFICES ASSUME NEW k \in DOMAIN run, NEW item \in run[k].items, NEW i \in DecisionShown(item),
                    i <= run[k].decisions
             PROVE  Applied(k, item, i)
  BY DEF EarlierDecisionWasApplied
<1> DEFINE settles == item.state \notin {"excluded", "status_disagreement", "withdrawn"}
<1>1. PICK in : Answers(run[k], in) /\ FilesSay(run[k], in) /\ DecisionsSay(run[k], in)
  BY DEF ServiceInv, RunsInv
<1>2. /\ i \in DOMAIN resolution /\ resolution[i].stamp = "live"
      /\ KeyOf(item) \in {resolution[i].left, resolution[i].right}
      /\ resolution[i].kind = "accept_unmatched" => resolution[i].left = KeyOf(item)
  BY ShownDecision DEF ServiceInv
<1>3. i \in 1..run[k].decisions
  <2>1. i \in Nat /\ i >= 1 /\ run[k].decisions \in Nat
    BY <1>1, <1>2, DecisionsStored DEF ServiceInv, DecisionsInv, DecisionsSay
  <2> QED
    BY <2>1
<1>4. ASSUME resolution[i].kind = "accept_unmatched", settles
      PROVE  item.state = "accepted_unmatched"
  BY <1>1, <1>2, <1>3, <1>4, AcceptanceApplied DEF ServiceInv
<1>5. ASSUME resolution[i].kind = "manual_match", settles,
             {resolution[i].left[1], resolution[i].right[1]} = {run[k].left, run[k].right},
             TookPart(k, resolution[i].left), TookPart(k, resolution[i].right)
      PROVE  \E p \in PairOf(k, item) : p.resolution = {i}
  <2>1. \A key \in {resolution[i].left, resolution[i].right} : \E one \in run[k].items :
           KeyOf(one) = key /\ one.state \notin {"excluded", "status_disagreement", "withdrawn"}
    BY <1>5 DEF TookPart, KeyOf
  <2>2. PICK p \in run[k].pairs : /\ {p.left, p.right} = {resolution[i].left, resolution[i].right}
                                  /\ p.resolution = {i}
    BY <1>1, <1>2, <1>3, <1>5, <2>1, PairingApplied DEF ServiceInv
  <2>3. p \in PairOf(k, item)
    BY <1>2, <1>5, <2>2 DEF PairOf, KeyOf
  <2> QED
    BY <2>2, <2>3
<1> QED
  BY <1>4, <1>5 DEF Applied

\* A decision a run read, and that stands, was applied by it, in every run
\* and for ever: what is shown as decided before a run is what the run did.
THEOREM EarlierDecisionsWereApplied == Spec => []EarlierDecisionWasApplied
<1>1. ServiceInv => EarlierDecisionWasApplied
  BY EarlierDecisionHolds
<1> QED
  BY <1>1, ServiceInductive, PTL

----------------------------------------------------------------------------
(* The candidates of a record.                                             *)

\* Each record matching calls suggested has a line that says so.
LEMMA SuggestedHasItem ==
    ASSUME NEW row, NEW in, IsInput(in), NEW period,
           RecordItems(MatchResult(in), period) \subseteq row.items,
           NEW r \in Suggested(in)
    PROVE  \E item \in row.items : KeyOf(item) = Key(r) /\ item.state = "suggested"
<1>1. Ends(in, r, "suggested")
  BY DEF Ends
<1>2. r \in in.left \cup in.right
  BY <1>1, EndsInPlay
<1>3. PICK item : item = Item(r.source, CurrentFile(r.source, period), r.reference, "suggested")
  OBVIOUS
<1>4. item \in row.items
  BY <1>1, <1>2, <1>3, ItemsWritten
<1> QED
  BY <1>3, <1>4 DEF Item, Key, KeyOf

LEMMA CandidatesHold ==
    ASSUME ServiceInv, LastRunStands
    PROVE  CandidatesAgreeWithTheRun
<1> SUFFICES ASSUME NEW k \in DOMAIN run, k = Len(run), run[k].files = Len(file_batch),
                    run[k].decisions = Len(resolution), NEW item \in run[k].items
             PROVE  LET key     == <<item.source, item.reference>>
                        offered == CandidatesFor(ProposedToday(k), key)
                    IN  /\ item.state = "suggested" <=> offered # {}
                        /\ \A other \in offered :
                              /\ \E i \in run[k].items : <<i.source, i.reference>> = other
                              /\ other[1] # key[1]
                              /\ key \in CandidatesFor(ProposedToday(k), other)
  BY DEF CandidatesAgreeWithTheRun
<1>1. PICK row : row = run[k]
  OBVIOUS
<1>2. PICK old : Answers(row, old)
  BY <1>1 DEF ServiceInv, RunsInv
<1>3. PICK in : in = RunInput(row.left, row.right, row.period)
  OBVIOUS
<1>4. /\ Unambiguous(row.left, row.period) /\ Unambiguous(row.right, row.period)
      /\ row.items = RecordItems(MatchResult(in), row.period) \cup
                        WithdrawnItems(row.left, row.period) \cup WithdrawnItems(row.right, row.period)
  BY <1>1, <1>3 DEF LastRunStands, Repeats
<1>5. IsInput(in) /\ in.leftSource # in.rightSource
  <2>1. <<row.left, row.right>> \in SourcePairs
    BY <1>2 DEF Answers
  <2>2. IsInput(in)
    BY <1>3, <1>4, <2>1, RunReads DEF ServiceInv
  <2> QED
    BY <2>2 DEF IsInput
<1>6. PICK proposed : proposed = ProposedToday(k)
  OBVIOUS
<1>7. proposed = Suggestions(in)
  BY <1>1, <1>3, <1>6 DEF ProposedToday
<1>8. ASSUME NEW s \in proposed
      PROVE  /\ s[1] \in Suggested(in) /\ s[2] \in Suggested(in)
             /\ Key(s[1])[1] = in.leftSource /\ Key(s[2])[1] = in.rightSource
  <2>1. s[1] \in Suggested(in) /\ s[2] \in Suggested(in)
    BY <1>7 DEF Suggested, Lefts, Rights
  <2>2. s[1] \in OpenLeft(in) /\ s[2] \in OpenRight(in)
    BY <1>7 DEF Suggestions
  <2>3. s[1] \in in.left /\ s[2] \in in.right
    BY <2>2, OpenRecords, AvailableRecords
  <2> QED
    BY <1>5, <2>1, <2>3, SidesApart DEF Key
<1>9. \A s \in proposed : /\ \E i \in row.items : KeyOf(i) = Key(s[1]) /\ i.state = "suggested"
                          /\ \E i \in row.items : KeyOf(i) = Key(s[2]) /\ i.state = "suggested"
  <2>1. RecordItems(MatchResult(in), row.period) \subseteq row.items
    BY <1>4
  <2> QED
    BY <1>5, <1>8, <2>1, SuggestedHasItem
<1>10. \A key, other : other \in CandidatesFor(proposed, key) <=>
          \E s \in proposed : \/ Key(s[1]) = key /\ Key(s[2]) = other
                              \/ Key(s[2]) = key /\ Key(s[1]) = other
  BY DEF CandidatesFor, Key
<1>11. PICK key : key = KeyOf(item)
  OBVIOUS
<1>12. item.state = "suggested" => CandidatesFor(proposed, key) # {}
  <2> SUFFICES ASSUME item.state = "suggested" PROVE \E other : other \in CandidatesFor(proposed, key)
    OBVIOUS
  <2>1. item \in RecordItems(MatchResult(in), row.period)
    BY <1>1, <1>4, WithdrawnLines DEF ServiceInv
  <2>2. PICK r \in in.left \cup in.right : \E state :
           Ends(in, r, state) /\ item = Item(r.source, CurrentFile(r.source, row.period), r.reference, state)
    BY <1>5, <2>1, ItemsWritten
  <2>3. Ends(in, r, "suggested") /\ Key(r) = key
    BY <1>11, <2>2 DEF Item, Key, KeyOf
  <2>4. r \in Suggested(in)
    BY <2>3, Verdicts DEF Ends
  <2>5. PICK s \in proposed : r = s[1] \/ r = s[2]
    BY <1>7, <2>4 DEF Suggested, Lefts, Rights
  <2> QED
    BY <1>10, <2>3, <2>5
<1>13. ASSUME NEW other \in CandidatesFor(proposed, key)
       PROVE  /\ item.state = "suggested"
              /\ \E i \in row.items : KeyOf(i) = other
              /\ other[1] # key[1]
              /\ key \in CandidatesFor(proposed, other)
  <2>1. PICK s \in proposed : \/ Key(s[1]) = key /\ Key(s[2]) = other
                              \/ Key(s[2]) = key /\ Key(s[1]) = other
    BY <1>10
  <2>2. PICK i \in row.items : KeyOf(i) = key /\ i.state = "suggested"
    BY <1>9, <2>1
  <2>3. item = i
    BY <1>1, <1>2, <1>11, <2>2 DEF Answers
  <2>4. \E j \in row.items : KeyOf(j) = other
    BY <1>9, <2>1
  <2>5. other[1] # key[1]
    BY <1>5, <1>8, <2>1
  <2>6. key \in CandidatesFor(proposed, other)
    BY <1>10, <2>1
  <2> QED
    BY <2>2, <2>3, <2>4, <2>5, <2>6
<1> QED
  BY <1>1, <1>6, <1>11, <1>12, <1>13 DEF KeyOf

\* The pages of the last run, computed anew, offer candidates for exactly
\* the records it calls suggested, although it may have withdrawn
\* acceptances after it read them (TR-608).
THEOREM CandidatesAgree == Spec => []CandidatesAgreeWithTheRun
<1>1. Init => RepeatInv
  BY DEF Init, RepeatInv, RerunIsTheSame, LastRunStands
<1>2. ServiceInv /\ RepeatInv => CandidatesAgreeWithTheRun
  BY CandidatesHold DEF RepeatInv
<1> QED
  BY <1>1, <1>2, RepeatStep, ServiceInductive, PTL DEF Spec

----------------------------------------------------------------------------
(* The two rows of a pair.                                                 *)

\* What a run writes of a pair of its input.
PairOfInput(row, in, p, q) ==
    /\ q[1] \in in.left /\ q[2] \in in.right
    /\ p.left = Key(q[1]) /\ p.right = Key(q[2])
    /\ p.left[1] = row.left /\ p.right[1] = row.right
    /\ p.verdict = Verdict(FieldDiffs(q[1], q[2]))
    /\ \/ p = PairWritten(in, q, TRUE) /\ q \in ManualPairs(in)
       \/ p = PairWritten(in, q, FALSE) /\ q \in ReferencePairs(in)

\* A pair of a run is one that matching made.
LEMMA PairIs ==
    ASSUME NEW row, NEW in, Answers(row, in), NEW p \in row.pairs
    PROVE  \E q \in Pairs(in) : PairOfInput(row, in, p, q)
<1>1. /\ p \in PairsOf(in) /\ IsInput(in)
      /\ in.leftSource = row.left /\ in.rightSource = row.right
  BY DEF Answers
<1>2. PICK q \in Pairs(in) : \/ p = PairWritten(in, q, TRUE) /\ q \in ManualPairs(in)
                             \/ p = PairWritten(in, q, FALSE) /\ q \in ReferencePairs(in)
  BY <1>1 DEF PairsOf, Pairs
<1>3. q[1] \in in.left /\ q[2] \in in.right
  BY <1>1, OneToOne, AvailableRecords
<1>4. p.left = Key(q[1]) /\ p.right = Key(q[2]) /\ p.verdict = Verdict(FieldDiffs(q[1], q[2]))
  BY <1>2 DEF PairWritten
<1>5. p.left[1] = row.left /\ p.right[1] = row.right
  BY <1>1, <1>3, <1>4, SidesApart DEF Key
<1> QED
  BY <1>2, <1>3, <1>4, <1>5 DEF PairOfInput

\* A record is in one pair.
LEMMA PairsApart ==
    ASSUME NEW row, NEW in, Answers(row, in), NEW p \in row.pairs, NEW o \in row.pairs,
           NEW key, key \in {p.left, p.right}, key \in {o.left, o.right}
    PROVE  p = o
<1>1. IsInput(in) /\ row.left # row.right
  BY DEF Answers, IsInput
<1>2. PICK q \in Pairs(in) : PairOfInput(row, in, p, q)
  BY PairIs
<1>3. PICK s \in Pairs(in) : PairOfInput(row, in, o, s)
  BY PairIs
<1>4. p.left = o.left \/ p.right = o.right
  BY <1>1, <1>2, <1>3 DEF PairOfInput
<1>5. q[1] = s[1] \/ q[2] = s[2]
  BY <1>1, <1>2, <1>3, <1>4, KeysOfSides DEF PairOfInput
<1>6. q = s
  BY <1>1, <1>5, OneToOne
<1>7. q \notin ManualPairs(in) \/ q \notin ReferencePairs(in)
  BY DEF ReferencePairs, Lefts
<1> QED
  BY <1>2, <1>3, <1>6, <1>7 DEF PairOfInput

\* A pair of a run has two items, one of each side, in the state that is its
\* verdict, and they are what the page finds for it.
LEMMA PairItems ==
    ASSUME NEW k \in DOMAIN run, NEW in, Answers(run[k], in), NEW p \in run[k].pairs
    PROVE  \E l \in run[k].items, r \in run[k].items :
              /\ KeyOf(l) = p.left /\ KeyOf(r) = p.right
              /\ l.source = run[k].left /\ r.source = run[k].right /\ l # r
              /\ l.state = p.verdict /\ r.state = p.verdict
              /\ Siblings(k, p) = {l, r}
              /\ SideOf(k, p, p.left) = l /\ SideOf(k, p, p.right) = r
<1>1. PICK row : row = run[k]
  OBVIOUS
<1>2. /\ IsInput(in) /\ row.left # row.right
      /\ in.leftSource = row.left /\ in.rightSource = row.right
      /\ \A one, other \in row.items : KeyOf(one) = KeyOf(other) => one = other
      /\ \A item \in row.items : item.state # "withdrawn" =>
            \E r \in in.left \cup in.right : Key(r) = KeyOf(item) /\ Ends(in, r, item.state)
      /\ \A r \in in.left \cup in.right :
            \E item \in row.items : KeyOf(item) = Key(r) /\ item.state # "withdrawn"
  BY <1>1 DEF Answers, IsInput
<1>a. PICK q \in Pairs(in) : PairOfInput(row, in, p, q)
  BY <1>1, PairIs
<1>3. /\ q[1] \in in.left /\ q[2] \in in.right
      /\ p.left = Key(q[1]) /\ p.right = Key(q[2])
      /\ p.left[1] = row.left /\ p.right[1] = row.right
      /\ p.verdict = Verdict(FieldDiffs(q[1], q[2]))
  BY <1>a DEF PairOfInput
<1>4. ASSUME NEW record \in {q[1], q[2]}
      PROVE  \E item \in row.items : /\ KeyOf(item) = Key(record) /\ item.source = record.source
                                     /\ item.state # "withdrawn" /\ item.state = p.verdict
  <2>1. record \in in.left \cup in.right
    BY <1>3
  <2>2. PICK item \in row.items : KeyOf(item) = Key(record) /\ item.state # "withdrawn"
    BY <1>2, <2>1
  <2>3. PICK other \in in.left \cup in.right : Key(other) = KeyOf(item) /\ Ends(in, other, item.state)
    BY <1>2, <2>2
  <2>4. other = record
    BY <1>2, <2>1, <2>2, <2>3, KeysOfSides
  <2>5. Ends(in, record, p.verdict)
    BY <1>3 DEF Ends
  <2>6. item.state = p.verdict
    BY <1>2, <2>1, <2>3, <2>4, <2>5, EndsOnce
  <2>7. item.source = record.source
    BY <2>2 DEF KeyOf, Key
  <2> QED
    BY <2>2, <2>6, <2>7
<1>5. PICK l \in row.items : /\ KeyOf(l) = p.left /\ l.source = q[1].source
                             /\ l.state # "withdrawn" /\ l.state = p.verdict
  BY <1>3, <1>4
<1>6. PICK r \in row.items : /\ KeyOf(r) = p.right /\ r.source = q[2].source
                             /\ r.state # "withdrawn" /\ r.state = p.verdict
  BY <1>3, <1>4
<1>7. l.source = row.left /\ r.source = row.right
  BY <1>2, <1>3, <1>5, <1>6, SidesApart
<1>8. \A item : item \in Siblings(k, p) <=>
                   item \in row.items /\ item.state # "withdrawn" /\ KeyOf(item) \in {p.left, p.right}
  BY <1>1 DEF Siblings, PairOf, KeyOf
<1>9. \A item : item \in Siblings(k, p) <=> item = l \/ item = r
  BY <1>2, <1>5, <1>6, <1>8
<1>10. Siblings(k, p) = {l, r}
  BY <1>9
<1>11. l # r /\ KeyOf(l) # KeyOf(r)
  BY <1>2, <1>7 DEF KeyOf
<1>12. SideOf(k, p, p.left) = l /\ SideOf(k, p, p.right) = r
  BY <1>5, <1>6, <1>10, <1>11 DEF SideOf, KeyOf
<1> QED
  BY <1>1, <1>5, <1>6, <1>7, <1>10, <1>11, <1>12

\* The stored row an item points at is a row of its delivery.
LEMMA StoredRowIs ==
    ASSUME FilesInv, NEW row, NEW in, FilesSay(row, in), NEW item \in row.items
    PROVE  /\ StoredRow(item) \in RecordRow /\ StoredRow(item).reference = item.reference
           /\ item.state # "withdrawn" =>
                 Normalized(item.source, StoredRow(item)) \in in.left \cup in.right
<1>1. /\ item.batch \in 1..row.files /\ row.files \in Nat /\ row.files <= Len(file_batch)
      /\ item.reference \in Files!ReferencesIn(file_batch[item.batch].records)
      /\ item.state # "withdrawn" =>
            \A n \in DOMAIN file_batch[item.batch].records :
                file_batch[item.batch].records[n].reference = item.reference =>
                    Normalized(item.source, file_batch[item.batch].records[n]) \in in.left \cup in.right
  BY DEF FilesSay
<1>2. item.batch \in DOMAIN file_batch
  BY <1>1, FileRows
<1>3. PICK n \in DOMAIN file_batch[item.batch].records :
         /\ StoredRow(item) = file_batch[item.batch].records[n]
         /\ file_batch[item.batch].records[n].reference = item.reference
  BY <1>1 DEF StoredRow, Files!ReferencesIn
<1>4. file_batch[item.batch].records[n] \in RecordRow
  BY <1>2, FilesKept, RowsStored
<1> QED
  BY <1>1, <1>3, <1>4

\* The verdict of a pair is that of the two rows its page shows, whatever was
\* loaded since.
LEMMA VerdictShown ==
    ASSUME ServiceInv, NEW k \in DOMAIN run, NEW p \in run[k].pairs, NEW l, NEW r,
           RowsOf(k, p) = <<l, r>>
    PROVE  l \in RecordRow /\ r \in RecordRow /\ p.verdict = Verdict(FieldDiffs(l, r))
<1>1. PICK in : Answers(run[k], in) /\ FilesSay(run[k], in)
  BY DEF ServiceInv, RunsInv
<1>2. IsInput(in)
  BY <1>1 DEF Answers
<1>a. PICK q \in Pairs(in) : PairOfInput(run[k], in, p, q)
  BY <1>1, PairIs
<1>3. /\ q[1] \in in.left /\ q[2] \in in.right
      /\ p.left = Key(q[1]) /\ p.right = Key(q[2])
      /\ p.verdict = Verdict(FieldDiffs(q[1], q[2]))
  BY <1>a DEF PairOfInput
<1>4. PICK one \in run[k].items, other \in run[k].items :
         /\ KeyOf(one) = p.left /\ KeyOf(other) = p.right
         /\ one.state = p.verdict /\ other.state = p.verdict
         /\ SideOf(k, p, p.left) = one /\ SideOf(k, p, p.right) = other
  BY <1>1, PairItems
<1>5. l = StoredRow(one) /\ r = StoredRow(other)
  BY <1>4 DEF RowsOf
<1>6. p.verdict # "withdrawn"
  BY <1>3, Verdicts
<1>7. /\ l \in RecordRow /\ l.reference = one.reference /\ Normalized(one.source, l) \in in.left \cup in.right
      /\ r \in RecordRow /\ r.reference = other.reference /\ Normalized(other.source, r) \in in.left \cup in.right
  BY <1>1, <1>4, <1>5, <1>6, StoredRowIs DEF ServiceInv
<1>8. Key(Normalized(one.source, l)) = p.left /\ Key(Normalized(other.source, r)) = p.right
  BY <1>4, <1>7 DEF Key, KeyOf, Normalized
<1>9. Normalized(one.source, l) = q[1] /\ Normalized(other.source, r) = q[2]
  BY <1>2, <1>3, <1>7, <1>8, KeysOfSides
<1>10. /\ q[1].bucket = l.bucket /\ q[1].time = l.time /\ q[1].quantity = l.quantity
       /\ q[1].price = l.price /\ q[1].amount = l.amount /\ q[1].status = l.status
  BY <1>9 DEF Normalized
<1>11. /\ q[2].bucket = r.bucket /\ q[2].time = r.time /\ q[2].quantity = r.quantity
       /\ q[2].price = r.price /\ q[2].amount = r.amount /\ q[2].status = r.status
  BY <1>9 DEF Normalized
<1>12. FieldDiffs(q[1], q[2]) = FieldDiffs(l, r)
  BY <1>10, <1>11 DEF FieldDiffs, WithinAmount
<1> QED
  BY <1>3, <1>7, <1>12

\* Numbers that are not the same are within an allowance of the larger just
\* when they are within that of either.
LEMMA ApartIsOutside ==
    ASSUME NEW l \in Int, NEW r \in Int, NEW bps \in Nat
    PROVE  Apart(l, r, bps) <=> ~WithinBps(l, r, bps)
<1> DEFINE gap == BpsUnit * (r - l)
<1>1. /\ Abs(l) \in Nat /\ Abs(r) \in Nat /\ Larger(l, r) \in {Abs(l), Abs(r)}
      /\ Abs(l) <= Larger(l, r) /\ Abs(r) <= Larger(l, r)
  BY DEF Abs, Larger
<1>2. BpsUnit \in Nat /\ gap \in Int
  BY BpsUnitAssumption
<1>3. Abs(r - l) * BpsUnit = Abs(gap)
  <2>1. CASE r - l < 0
    <3>1. gap <= 0
      BY <1>2, <2>1
    <3>2. Abs(gap) = -gap
      BY <1>2, <3>1 DEF Abs
    <3>3. Abs(r - l) = -(r - l)
      BY <2>1 DEF Abs
    <3> QED
      BY <1>2, <3>2, <3>3
  <2>2. CASE r - l >= 0
    <3>1. gap >= 0
      BY <1>2, <2>2
    <3>2. Abs(gap) = gap
      BY <1>2, <3>1 DEF Abs
    <3>3. Abs(r - l) = r - l
      BY <2>2 DEF Abs
    <3> QED
      BY <1>2, <3>2, <3>3
  <2> QED
    BY <2>1, <2>2
<1>4. \A n \in Nat : n <= Larger(l, r) => bps * n <= bps * Larger(l, r)
  <2> SUFFICES ASSUME NEW n \in Nat, NEW m \in Nat, n <= m
               PROVE  bps * n <= bps * m
    BY <1>1
  <2>1. bps * (m - n) >= 0
    OBVIOUS
  <2>2. bps * (m - n) = bps * m - bps * n
    OBVIOUS
  <2> QED
    BY <2>1, <2>2
<1>5. bps * Abs(l) \in Int /\ bps * Abs(r) \in Int /\ bps * Larger(l, r) \in Int
  BY <1>1
<1> HIDE DEF gap
<1>6. \A share \in Int : gap \in -share..share <=> Abs(gap) <= share
  BY <1>2 DEF Abs
<1>7. Apart(l, r, bps) <=> Abs(gap) > bps * Abs(l) /\ Abs(gap) > bps * Abs(r)
  <2>1. Apart(l, r, bps) <=> gap \notin -(bps * Abs(l))..(bps * Abs(l)) /\ gap \notin -(bps * Abs(r))..(bps * Abs(r))
    BY DEF Apart, gap
  <2>2. Abs(gap) \in Int
    BY <1>2 DEF Abs
  <2> QED
    BY <1>5, <1>6, <2>1, <2>2
<1>8. WithinBps(l, r, bps) <=> Abs(gap) <= bps * Larger(l, r)
  BY <1>3 DEF WithinBps
<1>9. Abs(gap) \in Int
  BY <1>2 DEF Abs
<1> QED
  BY <1>1, <1>4, <1>5, <1>7, <1>8, <1>9

\* The numbers of a stored row.
LEMMA RowFields ==
    ASSUME NEW row \in RecordRow
    PROVE  /\ row.time \in Int /\ row.quantity \in Int /\ row.price \in Int /\ row.amount \in Int
           /\ row \in [reference : References, status : RecordStatus, bucket : Buckets,
                       time : Times, quantity : Quantities, price : Int, amount : Int]
  BY TablesAssumption, MeasuresAssumption

\* Equal numbers are within every allowance.
LEMMA EqualIsWithin ==
    ASSUME NEW n \in Int, NEW bps \in Nat
    PROVE  WithinBps(n, n, bps) /\ Abs(n - n) = 0
<1>1. Larger(n, n) \in Nat
  BY DEF Larger, Abs
<1>2. bps * Larger(n, n) >= 0
  BY <1>1
<1>3. Abs(n - n) = 0
  BY DEF Abs
<1> QED
  BY <1>2, <1>3, BpsUnitAssumption DEF WithinBps

\* A field that does not differ is within tolerance.
LEMMA SameIsWithin ==
    ASSUME NEW l \in RecordRow, NEW r \in RecordRow
    PROVE  \A f \in DOMAIN FieldDiffs(l, r) :
              ~FieldDiffs(l, r)[f].differs => FieldDiffs(l, r)[f].within_tolerance
<1>1. /\ l.time \in Int /\ l.quantity \in Int /\ l.price \in Int /\ l.amount \in Int
      /\ r.time \in Int /\ r.quantity \in Int /\ r.price \in Int /\ r.amount \in Int
  BY RowFields
<1>2. /\ AmountBps \in Nat /\ AmountFloor \in Nat /\ PriceBps \in Nat /\ TimeTolerance \in Nat /\ QtyBps \in Nat
  BY ProfileAssumption, QtyBpsAssumption
<1>3. PICK diffs : diffs = FieldDiffs(l, r)
  OBVIOUS
<1>4. DOMAIN diffs = {"occurred_at", "bucket", "quantity", "unit_price", "gross_amount", "status"}
  BY <1>3 DEF FieldDiffs
<1>5. /\ diffs["occurred_at"].within_tolerance <=> Abs(r.time - l.time) <= TimeTolerance
      /\ diffs["bucket"].within_tolerance <=> l.bucket = r.bucket
      /\ diffs["quantity"].within_tolerance <=> WithinBps(l.quantity, r.quantity, QtyBps)
      /\ diffs["unit_price"].within_tolerance <=> WithinBps(l.price, r.price, PriceBps)
      /\ diffs["gross_amount"].within_tolerance <=> WithinAmount(l.amount, r.amount)
      /\ diffs["status"].within_tolerance <=> l.status = r.status
  BY <1>3 DEF FieldDiffs, Measured, Exact
<1>6. l.time = r.time => Abs(r.time - l.time) <= TimeTolerance
  BY <1>1, <1>2 DEF Abs
<1>7. /\ l.quantity = r.quantity => WithinBps(l.quantity, r.quantity, QtyBps)
      /\ l.price = r.price => WithinBps(l.price, r.price, PriceBps)
      /\ l.amount = r.amount => WithinAmount(l.amount, r.amount)
  BY <1>1, <1>2, EqualIsWithin DEF WithinAmount
<1>8. /\ diffs["occurred_at"].differs <=> l.time # r.time
      /\ diffs["bucket"].differs <=> l.bucket # r.bucket
      /\ diffs["quantity"].differs <=> l.quantity # r.quantity
      /\ diffs["unit_price"].differs <=> l.price # r.price
      /\ diffs["gross_amount"].differs <=> l.amount # r.amount
      /\ diffs["status"].differs <=> l.status # r.status
  BY <1>3 DEF FieldDiffs, Measured, Exact
<1> QED
  BY <1>3, <1>4, <1>5, <1>6, <1>7, <1>8

LEMMA VerdictHolds ==
    ASSUME ServiceInv
    PROVE  VerdictIsFair
<1> SUFFICES \A k \in DOMAIN run : \A p \in run[k].pairs : \A l, r : RowsOf(k, p) = <<l, r>> =>
                    /\ p.verdict = "break" <=>
                          \/ <<l.bucket, l.status>> # <<r.bucket, r.status>>
                          \/ r.time - l.time \notin -TimeTolerance..TimeTolerance
                          \/ Apart(l.quantity, r.quantity, QtyBps) \/ Apart(l.price, r.price, PriceBps)
                          \/ /\ Apart(l.amount, r.amount, AmountBps)
                             /\ r.amount - l.amount \notin -AmountFloor..AmountFloor
                    /\ p.verdict = "agreed" <=> [l EXCEPT !.reference = r.reference] = r
  <2>1. \A k, p : \E l, r : RowsOf(k, p) = <<l, r>>
    BY DEF RowsOf
  <2>2. \A k, p, l, r : RowsOf(k, p) = <<l, r>> => RowsOf(k, p)[1] = l /\ RowsOf(k, p)[2] = r
    OBVIOUS
  <2> QED
    BY <2>1, <2>2 DEF VerdictIsFair
<1> TAKE k \in DOMAIN run
<1> TAKE p \in run[k].pairs
<1> TAKE l, r
<1> HAVE RowsOf(k, p) = <<l, r>>
<1>1. l \in RecordRow /\ r \in RecordRow /\ p.verdict = Verdict(FieldDiffs(l, r))
  BY VerdictShown
<1>2. /\ l.time \in Int /\ l.quantity \in Int /\ l.price \in Int /\ l.amount \in Int
      /\ r.time \in Int /\ r.quantity \in Int /\ r.price \in Int /\ r.amount \in Int
  BY <1>1, RowFields
<1>3. /\ AmountBps \in Nat /\ AmountFloor \in Nat /\ PriceBps \in Nat /\ TimeTolerance \in Nat /\ QtyBps \in Nat
  BY ProfileAssumption, QtyBpsAssumption
<1>4. PICK diffs : diffs = FieldDiffs(l, r)
  OBVIOUS
<1>5. DOMAIN diffs = {"occurred_at", "bucket", "quantity", "unit_price", "gross_amount", "status"}
  BY <1>4 DEF FieldDiffs
<1>6. /\ diffs["occurred_at"].within_tolerance <=> r.time - l.time \in -TimeTolerance..TimeTolerance
      /\ diffs["bucket"].within_tolerance <=> l.bucket = r.bucket
      /\ diffs["status"].within_tolerance <=> l.status = r.status
  <2>1. diffs["occurred_at"].within_tolerance <=> Abs(r.time - l.time) <= TimeTolerance
    BY <1>4 DEF FieldDiffs, Measured
  <2>2. Abs(r.time - l.time) <= TimeTolerance <=> r.time - l.time \in -TimeTolerance..TimeTolerance
    BY <1>2, <1>3 DEF Abs
  <2>3. /\ diffs["bucket"].within_tolerance <=> l.bucket = r.bucket
        /\ diffs["status"].within_tolerance <=> l.status = r.status
    BY <1>4 DEF FieldDiffs, Exact
  <2> QED
    BY <2>1, <2>2, <2>3
<1>7. /\ diffs["quantity"].within_tolerance <=> ~Apart(l.quantity, r.quantity, QtyBps)
      /\ diffs["unit_price"].within_tolerance <=> ~Apart(l.price, r.price, PriceBps)
  BY <1>2, <1>3, <1>4, ApartIsOutside DEF FieldDiffs, Measured
<1>8. diffs["gross_amount"].within_tolerance <=>
         \/ ~Apart(l.amount, r.amount, AmountBps)
         \/ r.amount - l.amount \in -AmountFloor..AmountFloor
  <2>1. Abs(r.amount - l.amount) <= AmountFloor <=> r.amount - l.amount \in -AmountFloor..AmountFloor
    BY <1>2, <1>3 DEF Abs
  <2> QED
    BY <1>2, <1>3, <1>4, <2>1, ApartIsOutside DEF FieldDiffs, Measured, WithinAmount
<1>9. p.verdict = "break" <=> \E f \in DOMAIN diffs : ~diffs[f].within_tolerance
  BY <1>1, <1>4 DEF Verdict
<1>10. p.verdict = "agreed" <=>
          \A f \in DOMAIN diffs : diffs[f].within_tolerance /\ ~diffs[f].differs
  BY <1>1, <1>4 DEF Verdict
<1>11. /\ diffs["occurred_at"].differs <=> l.time # r.time
       /\ diffs["bucket"].differs <=> l.bucket # r.bucket
       /\ diffs["quantity"].differs <=> l.quantity # r.quantity
       /\ diffs["unit_price"].differs <=> l.price # r.price
       /\ diffs["gross_amount"].differs <=> l.amount # r.amount
       /\ diffs["status"].differs <=> l.status # r.status
  BY <1>4 DEF FieldDiffs, Measured, Exact
<1>12. [l EXCEPT !.reference = r.reference] = r <=>
          /\ l.time = r.time /\ l.bucket = r.bucket /\ l.quantity = r.quantity
          /\ l.price = r.price /\ l.amount = r.amount /\ l.status = r.status
  BY <1>1, RowFields
<1>13. \A f \in DOMAIN diffs : ~diffs[f].differs => diffs[f].within_tolerance
  BY <1>1, <1>4, SameIsWithin
<1>14. p.verdict = "agreed" <=> \A f \in DOMAIN diffs : ~diffs[f].differs
  BY <1>10, <1>13
<1>15. p.verdict = "agreed" <=> [l EXCEPT !.reference = r.reference] = r
  BY <1>5, <1>11, <1>12, <1>14
<1>16. p.verdict = "break" <=>
          \/ l.bucket # r.bucket \/ l.status # r.status
          \/ r.time - l.time \notin -TimeTolerance..TimeTolerance
          \/ Apart(l.quantity, r.quantity, QtyBps) \/ Apart(l.price, r.price, PriceBps)
          \/ /\ Apart(l.amount, r.amount, AmountBps)
             /\ r.amount - l.amount \notin -AmountFloor..AmountFloor
  BY <1>5, <1>6, <1>7, <1>8, <1>9
<1> QED
  BY <1>15, <1>16

\* The verdict a pair page shows follows from the two rows it shows,
\* whichever way round, and for every profile: a share of the larger number
\* is a share of either (TR-406, TR-407, TR-410).
THEOREM VerdictsAreFair == Spec => []VerdictIsFair
<1>1. ServiceInv => VerdictIsFair
  BY VerdictHolds
<1> QED
  BY <1>1, ServiceInductive, PTL

----------------------------------------------------------------------------
(* The order of the worklist.                                              *)

Fraction == Nat \X (Nat \ {0})

\* Larger numbers times the same, and back.
LEMMA TimesTheSame ==
    ASSUME NEW m \in Nat, NEW n \in Nat, NEW c \in Nat
    PROVE  /\ m <= n => c * m <= c * n
           /\ (c # 0 /\ c * m <= c * n) => m <= n
<1>1. ASSUME m <= n
      PROVE  c * m <= c * n
  <2>1. c * (n - m) >= 0
    BY <1>1
  <2>2. c * (n - m) = c * n - c * m
    OBVIOUS
  <2> QED
    BY <2>1, <2>2
<1>2. ASSUME c # 0, n < m
      PROVE  c * n < c * m
  <2>1. c * (m - n) > 0
    BY <1>2
  <2>2. c * (m - n) = c * m - c * n
    OBVIOUS
  <2> QED
    BY <2>1, <2>2
<1> QED
  BY <1>1, <1>2

\* Fractions are in a weak order.
LEMMA FractionOrder ==
    ASSUME NEW a \in Fraction, NEW b \in Fraction, NEW c \in Fraction
    PROVE  /\ (~FractionLess(a, b) /\ ~FractionLess(b, c)) => ~FractionLess(a, c)
           /\ FractionLess(a, b) => ~FractionLess(b, a)
<1>1. /\ a[1] \in Nat /\ b[1] \in Nat /\ c[1] \in Nat
      /\ a[2] \in Nat /\ b[2] \in Nat /\ c[2] \in Nat
      /\ a[2] # 0 /\ b[2] # 0 /\ c[2] # 0
  BY DEF Fraction
<1>2. ASSUME NEW i \in Nat, NEW j \in Nat PROVE i * j \in Nat
  OBVIOUS
<1>3. ASSUME b[1] * a[2] <= a[1] * b[2], c[1] * b[2] <= b[1] * c[2]
      PROVE  c[1] * a[2] <= a[1] * c[2]
  <2>1. c[2] * (b[1] * a[2]) <= c[2] * (a[1] * b[2])
    BY <1>1, <1>2, <1>3, TimesTheSame
  <2>2. a[2] * (c[1] * b[2]) <= a[2] * (b[1] * c[2])
    BY <1>1, <1>2, <1>3, TimesTheSame
  <2>3. /\ c[2] * (b[1] * a[2]) = a[2] * (b[1] * c[2])
        /\ c[2] * (a[1] * b[2]) = b[2] * (a[1] * c[2])
        /\ a[2] * (c[1] * b[2]) = b[2] * (c[1] * a[2])
    BY <1>1
  <2>4. b[2] * (c[1] * a[2]) <= b[2] * (a[1] * c[2])
    <3>1. /\ a[2] * (b[1] * c[2]) \in Nat /\ b[2] * (a[1] * c[2]) \in Nat /\ b[2] * (c[1] * a[2]) \in Nat
      BY <1>1, <1>2
    <3> QED
      BY <2>1, <2>2, <2>3, <3>1
  <2> QED
    BY <1>1, <1>2, <2>4, TimesTheSame
<1>4. /\ a[1] * b[2] \in Nat /\ b[1] * a[2] \in Nat /\ b[1] * c[2] \in Nat
      /\ c[1] * b[2] \in Nat /\ a[1] * c[2] \in Nat /\ c[1] * a[2] \in Nat
  BY <1>1, <1>2
<1> QED
  BY <1>3, <1>4 DEF FractionLess

LEMMA RelativeFraction ==
    ASSUME NEW l \in Int, NEW r \in Int
    PROVE  /\ Relative(l, r) \in Fraction
           /\ l = r => Relative(l, r)[1] = 0
           /\ \A fraction \in Fraction :
                 Exceeds(l, r, fraction) => FractionLess(fraction, Relative(l, r))
<1>1. /\ Larger(l, r) \in Nat /\ Abs(r - l) \in Nat
      /\ l = r => Abs(r - l) = 0
      /\ Larger(l, r) = 0 => Abs(r - l) = 0
  BY DEF Larger, Abs
<1>2. CASE Larger(l, r) = 0
  <2>1. Relative(l, r) = <<0, 1>>
    BY <1>2 DEF Relative
  <2>2. ASSUME NEW fraction \in Fraction PROVE ~Exceeds(l, r, fraction)
    BY <1>1, <1>2 DEF Exceeds, Fraction
  <2> QED
    BY <2>1, <2>2 DEF Fraction
<1>3. CASE Larger(l, r) # 0
  <2>1. Relative(l, r) = <<Abs(r - l), Larger(l, r)>>
    BY <1>3 DEF Relative
  <2>2. Relative(l, r)[1] = Abs(r - l) /\ Relative(l, r)[2] = Larger(l, r)
    BY <2>1
  <2>3. ASSUME NEW fraction \in Fraction, Exceeds(l, r, fraction)
        PROVE  FractionLess(fraction, Relative(l, r))
    <3>1. fraction[1] * Larger(l, r) < Abs(r - l) * fraction[2]
      BY <1>1, <2>3 DEF Exceeds, Fraction
    <3> QED
      BY <2>2, <3>1 DEF FractionLess
  <2> QED
    BY <1>1, <1>3, <2>1, <2>2, <2>3 DEF Fraction
<1> QED
  BY <1>2, <1>3

\* A set with a top, under a total and transitive relation, has one with one
\* more member.
LEMMA TopOfMore ==
    ASSUME NEW U, NEW W,
           \A x, y \in U : <<x, y>> \in W \/ <<y, x>> \in W,
           \A x, y, z \in U : <<x, y>> \in W /\ <<y, z>> \in W => <<x, z>> \in W,
           NEW S \in SUBSET U, NEW e \in U,
           S = {} \/ \E t \in S : \A s \in S : <<t, s>> \in W
    PROVE  \E t \in S \cup {e} : \A s \in S \cup {e} : <<t, s>> \in W
<1>1. <<e, e>> \in W
  OBVIOUS
<1>2. CASE S = {}
  BY <1>1, <1>2
<1>3. ASSUME NEW t \in S, \A s \in S : <<t, s>> \in W
      PROVE  \E top \in S \cup {e} : \A s \in S \cup {e} : <<top, s>> \in W
  <2>1. CASE <<t, e>> \in W
    BY <1>3, <2>1
  <2>2. CASE <<e, t>> \in W
    BY <1>1, <1>3, <2>2
  <2> QED
    BY <1>3, <2>1, <2>2
<1> QED
  BY <1>2, <1>3

Fields == {"occurred_at", "bucket", "quantity", "unit_price", "gross_amount", "status"}

LEMMA TopOfFields ==
    ASSUME NEW W,
           \A x, y \in Fields : <<x, y>> \in W \/ <<y, x>> \in W,
           \A x, y, z \in Fields : <<x, y>> \in W /\ <<y, z>> \in W => <<x, z>> \in W,
           NEW S \in SUBSET Fields, S # {}
    PROVE  \E t \in S : \A s \in S : <<t, s>> \in W
<1> DEFINE HasTop(T) == T = {} \/ \E t \in T : \A s \in T : <<t, s>> \in W
<1>1. ASSUME NEW T \in SUBSET Fields, NEW e \in Fields, HasTop(S \cap T)
      PROVE  HasTop(S \cap (T \cup {e}))
  <2>1. CASE e \in S
    <3>1. S \cap (T \cup {e}) = (S \cap T) \cup {e}
      BY <2>1
    <3>2. S \cap T \in SUBSET Fields
      OBVIOUS
    <3> QED
      BY <1>1, <3>1, <3>2, TopOfMore
  <2>2. CASE e \notin S
    <3>1. S \cap (T \cup {e}) = S \cap T
      BY <2>2
    <3> QED
      BY <1>1, <3>1
  <2> QED
    BY <2>1, <2>2
<1> DEFINE T1 == {} \cup {"occurred_at"}
           T2 == T1 \cup {"bucket"}
           T3 == T2 \cup {"quantity"}
           T4 == T3 \cup {"unit_price"}
           T5 == T4 \cup {"gross_amount"}
           T6 == T5 \cup {"status"}
<1>2. /\ {} \in SUBSET Fields /\ T1 \in SUBSET Fields /\ T2 \in SUBSET Fields
      /\ T3 \in SUBSET Fields /\ T4 \in SUBSET Fields /\ T5 \in SUBSET Fields
      /\ \A e \in {"occurred_at", "bucket", "quantity", "unit_price", "gross_amount", "status"} : e \in Fields
  BY DEF Fields
<1>3. HasTop(S \cap {})
  OBVIOUS
<1>4. S \cap T6 = S
  BY DEF Fields
<1> HIDE DEF HasTop
<1>5. HasTop(S \cap T1)
  BY <1>1, <1>2, <1>3
<1>6. HasTop(S \cap T2)
  <2> HIDE DEF T1
  <2> QED
    BY <1>1, <1>2, <1>5
<1>7. HasTop(S \cap T3)
  <2> HIDE DEF T2
  <2> QED
    BY <1>1, <1>2, <1>6
<1>8. HasTop(S \cap T4)
  <2> HIDE DEF T3
  <2> QED
    BY <1>1, <1>2, <1>7
<1>9. HasTop(S \cap T5)
  <2> HIDE DEF T4
  <2> QED
    BY <1>1, <1>2, <1>8
<1>10. HasTop(S \cap T6)
  <2> HIDE DEF T5
  <2> QED
    BY <1>1, <1>2, <1>9
<1> QED
  BY <1>4, <1>10 DEF HasTop

\* The relative differences of two rows are fractions, by field.
LEMMA RelativeDiffsAre ==
    ASSUME NEW l \in RecordRow, NEW r \in RecordRow
    PROVE  /\ DOMAIN RelativeDiffs(l, r) = Fields
           /\ DOMAIN FieldDiffs(l, r) = Fields
           /\ \A f \in Fields : RelativeDiffs(l, r)[f] \in Fraction
           /\ RelativeDiffs(l, r)["quantity"] = Relative(l.quantity, r.quantity)
           /\ RelativeDiffs(l, r)["unit_price"] = Relative(l.price, r.price)
           /\ RelativeDiffs(l, r)["gross_amount"] = Relative(l.amount, r.amount)
           /\ \A f \in Fields : ~FieldDiffs(l, r)[f].differs => RelativeDiffs(l, r)[f][1] = 0
<1>1. /\ l.time \in Int /\ l.quantity \in Int /\ l.price \in Int /\ l.amount \in Int
      /\ r.time \in Int /\ r.quantity \in Int /\ r.price \in Int /\ r.amount \in Int
  BY RowFields
<1>2. NoDifference \in Fraction /\ NoDifference[1] = 0
  BY DEF NoDifference, Fraction
<1>3. PICK relative : relative = RelativeDiffs(l, r)
  OBVIOUS
<1>4. /\ DOMAIN relative = Fields
      /\ relative["occurred_at"] = NoDifference
      /\ relative["bucket"] = NoDifference
      /\ relative["status"] = NoDifference
      /\ relative["quantity"] = Relative(l.quantity, r.quantity)
      /\ relative["unit_price"] = Relative(l.price, r.price)
      /\ relative["gross_amount"] = Relative(l.amount, r.amount)
  BY <1>3 DEF RelativeDiffs, Fields
<1>5. PICK diffs : diffs = FieldDiffs(l, r)
  OBVIOUS
<1>6. /\ DOMAIN diffs = Fields
      /\ ~diffs["quantity"].differs => l.quantity = r.quantity
      /\ ~diffs["unit_price"].differs => l.price = r.price
      /\ ~diffs["gross_amount"].differs => l.amount = r.amount
  BY <1>5 DEF FieldDiffs, Measured, Fields
<1>7. /\ relative["quantity"] \in Fraction /\ relative["unit_price"] \in Fraction
      /\ relative["gross_amount"] \in Fraction
      /\ l.quantity = r.quantity => relative["quantity"][1] = 0
      /\ l.price = r.price => relative["unit_price"][1] = 0
      /\ l.amount = r.amount => relative["gross_amount"][1] = 0
  BY <1>1, <1>4, RelativeFraction
<1>8. \A f \in Fields : relative[f] \in Fraction
  BY <1>2, <1>4, <1>7 DEF Fields
<1>9. \A f \in Fields : ~diffs[f].differs => relative[f][1] = 0
  BY <1>2, <1>4, <1>6, <1>7 DEF Fields
<1> QED
  BY <1>3, <1>4, <1>5, <1>6, <1>8, <1>9

\* Where two rows differ, a field is headlined, no field differs by more than
\* a headlined one, and its line is ordered by just that.
LEMMA Headlined ==
    ASSUME NEW l \in RecordRow, NEW r \in RecordRow, Differing(l, r) # {}
    PROVE  /\ LeadingDiff(l, r) # {} /\ LeadingDiff(l, r) \subseteq Fields
           /\ RelativeSize(l, r) \in Fraction
           /\ \A f \in LeadingDiff(l, r) :
                 /\ ~FractionLess(RelativeDiffs(l, r)[f], RelativeSize(l, r))
                 /\ ~FractionLess(RelativeSize(l, r), RelativeDiffs(l, r)[f])
           /\ \A g \in Fields : ~FractionLess(RelativeSize(l, r), RelativeDiffs(l, r)[g])
<1>1. PICK relative : relative = RelativeDiffs(l, r)
  OBVIOUS
<1>2. PICK differing : differing = Differing(l, r)
  OBVIOUS
<1>3. PICK leading : leading = LeadingDiff(l, r)
  OBVIOUS
<1>4. /\ DOMAIN relative = Fields
      /\ \A f \in Fields : relative[f] \in Fraction
      /\ differing \in SUBSET Fields /\ differing # {}
      /\ \A f \in Fields \ differing : relative[f][1] = 0
  BY <1>1, <1>2, RelativeDiffsAre DEF Differing
<1> DEFINE worse(f, g) == \/ FractionLess(relative[g], relative[f])
                          \/ /\ ~FractionLess(relative[f], relative[g])
                             /\ HeadlineOrder[f] <= HeadlineOrder[g]
<1>5. leading = {f \in differing : \A g \in differing : worse(f, g)}
  BY <1>1, <1>2, <1>3 DEF LeadingDiff
<1>6. \A f \in Fields : HeadlineOrder[f] \in Nat
  BY DEF HeadlineOrder, Fields
<1>7. \A a, b, c \in Fraction :
         /\ (~FractionLess(a, b) /\ ~FractionLess(b, c)) => ~FractionLess(a, c)
         /\ FractionLess(a, b) => ~FractionLess(b, a)
  BY FractionOrder
<1>8. PICK W : W = {pair \in Fields \X Fields : worse(pair[1], pair[2])}
  OBVIOUS
<1>9. \A f, g \in Fields : <<f, g>> \in W <=> worse(f, g)
  BY <1>8
<1>10. \A f, g \in Fields : <<f, g>> \in W \/ <<g, f>> \in W
  <2> SUFFICES ASSUME NEW f \in Fields, NEW g \in Fields
               PROVE  worse(f, g) \/ worse(g, f)
    BY <1>9
  <2>1. HeadlineOrder[f] <= HeadlineOrder[g] \/ HeadlineOrder[g] <= HeadlineOrder[f]
    BY <1>6
  <2> QED
    BY <2>1
<1>11. ASSUME NEW f \in Fields, NEW g \in Fields, NEW h \in Fields, worse(f, g), worse(g, h)
       PROVE  worse(f, h)
  <2>1. ~FractionLess(relative[f], relative[g]) /\ ~FractionLess(relative[g], relative[h])
    BY <1>4, <1>7, <1>11
  <2>2. ~FractionLess(relative[f], relative[h])
    BY <1>4, <1>7, <2>1
  <2>3. CASE FractionLess(relative[h], relative[f])
    BY <2>3
  <2>4. CASE ~FractionLess(relative[h], relative[f])
    <3>1. ~FractionLess(relative[h], relative[g])
      BY <1>4, <1>7, <2>1, <2>4
    <3>2. ~FractionLess(relative[g], relative[f])
      BY <1>4, <1>7, <2>1, <2>4
    <3>3. HeadlineOrder[f] <= HeadlineOrder[g] /\ HeadlineOrder[g] <= HeadlineOrder[h]
      BY <1>11, <3>1, <3>2
    <3>4. HeadlineOrder[f] <= HeadlineOrder[h]
      BY <1>6, <3>3
    <3> QED
      BY <2>2, <3>4
  <2> QED
    BY <2>3, <2>4
<1>12. \A f, g, h \in Fields : <<f, g>> \in W /\ <<g, h>> \in W => <<f, h>> \in W
  BY <1>9, <1>11
<1>13. \E f \in differing : \A g \in differing : <<f, g>> \in W
  BY <1>4, <1>10, <1>12, TopOfFields
<1>14. leading # {} /\ leading \subseteq Fields
  BY <1>4, <1>5, <1>9, <1>13
<1>15. ASSUME NEW f \in leading, NEW g \in Fields
       PROVE  ~FractionLess(relative[f], relative[g])
  <2>1. CASE g \in differing
    BY <1>4, <1>5, <1>7, <2>1
  <2>2. CASE g \notin differing
    <3>1. relative[g][1] = 0 /\ relative[f] \in Nat \X (Nat \ {0}) /\ relative[g] \in Nat \X (Nat \ {0})
      BY <1>4, <1>14, <2>2 DEF Fraction
    <3>2. relative[f][1] * relative[g][2] \in Nat /\ relative[g][1] * relative[f][2] = 0
      BY <3>1
    <3> QED
      BY <3>2 DEF FractionLess
  <2> QED
    BY <2>1, <2>2
<1>16. PICK sizes : sizes = {relative[f] : f \in leading} \cup {relative[f] : f \in DOMAIN relative}
  OBVIOUS
<1>17. RelativeSize(l, r) = Largest(sizes)
  BY <1>1, <1>3, <1>16 DEF RelativeSize
<1>18. /\ \A a \in sizes : \E f \in Fields : a = relative[f]
       /\ \A f \in Fields : relative[f] \in sizes
  BY <1>4, <1>14, <1>16
<1>19. \E a \in sizes : \A b \in sizes : ~FractionLess(a, b)
  BY <1>14, <1>15, <1>18
<1>20. Largest(sizes) \in sizes /\ \A b \in sizes : ~FractionLess(Largest(sizes), b)
  BY <1>19 DEF Largest
<1>21. RelativeSize(l, r) \in Fraction
  BY <1>4, <1>17, <1>18, <1>20
<1>22. \A g \in Fields : ~FractionLess(RelativeSize(l, r), relative[g])
  BY <1>17, <1>18, <1>20
<1>23. \A f \in leading : ~FractionLess(relative[f], RelativeSize(l, r))
  BY <1>15, <1>17, <1>18, <1>20
<1> QED
  BY <1>1, <1>3, <1>14, <1>21, <1>22, <1>23

\* A break is about some field that differs.
LEMMA BreakDiffers ==
    ASSUME NEW l \in RecordRow, NEW r \in RecordRow, Verdict(FieldDiffs(l, r)) = "break"
    PROVE  Differing(l, r) # {}
<1>1. PICK diffs : diffs = FieldDiffs(l, r)
  OBVIOUS
<1>2. PICK f \in DOMAIN diffs : ~diffs[f].within_tolerance
  BY <1>1 DEF Verdict
<1>3. diffs[f].differs
  BY <1>1, <1>2, SameIsWithin
<1>4. f \in Differing(l, r)
  BY <1>1, <1>2, <1>3 DEF Differing
<1> QED
  BY <1>4

\* A line of the worklist: of a record in no pair, or of the only pair of
\* its item, a break, of which some field differs.
LEMMA LineIs ==
    ASSUME ServiceInv, NEW k \in DOMAIN run, NEW wanted, NEW b \in Lines(k, wanted)
    PROVE  /\ b.item \in run[k].items /\ b.item.state \in Worklist \cap wanted
           /\ Ours(k, b.item) /\ b = Line(k, b.item)
           /\ \/ /\ PairOf(k, b.item) = {}
                 /\ b.relative = NoDifference /\ b.covers = {b.item}
              \/ \E p \in run[k].pairs : \E l, r \in RecordRow :
                    /\ PairOf(k, b.item) = {p} /\ p.verdict = "break"
                    /\ RowsOf(k, p) = <<l, r>> /\ Differing(l, r) # {}
                    /\ b.headline = LeadingDiff(l, r)
                    /\ b.relative = RelativeSize(l, r)
                    /\ b.covers = Siblings(k, p)
<1>1. PICK item \in run[k].items : item.state \in Worklist \cap wanted /\ Ours(k, item) /\ b = Line(k, item)
  BY DEF Lines
<1>2. b.item = item
  BY <1>1 DEF Line
<1>3. PICK in : Answers(run[k], in) /\ FilesSay(run[k], in)
  BY DEF ServiceInv, RunsInv
<1>4. CASE PairOf(k, item) = {}
  BY <1>1, <1>2, <1>4 DEF Line
<1>5. CASE PairOf(k, item) # {}
  <2>1. PICK p \in PairOf(k, item) : TRUE
    BY <1>5
  <2>2. p \in run[k].pairs /\ KeyOf(item) \in {p.left, p.right}
    BY <2>1 DEF PairOf, KeyOf
  <2>3. ASSUME NEW o \in PairOf(k, item)
        PROVE  o = p
    <3>1. o \in run[k].pairs /\ KeyOf(item) \in {o.left, o.right}
      BY <2>3 DEF PairOf, KeyOf
    <3> QED
      BY <1>3, <2>2, <3>1, PairsApart
  <2>4. PairOf(k, item) = {p}
    BY <2>1, <2>3
  <2>5. PICK one \in run[k].items, other \in run[k].items :
           /\ KeyOf(one) = p.left /\ KeyOf(other) = p.right
           /\ one.state = p.verdict /\ other.state = p.verdict
    BY <1>3, <2>2, PairItems
  <2>6. item.state = p.verdict
    BY <1>3, <2>2, <2>5 DEF Answers
  <2>7. PICK l, r : RowsOf(k, p) = <<l, r>>
    BY DEF RowsOf
  <2>8. l \in RecordRow /\ r \in RecordRow /\ p.verdict = Verdict(FieldDiffs(l, r))
    BY <2>2, <2>7, VerdictShown
  <2>9. p.verdict = "break"
    BY <1>1, <2>6, <2>8, Verdicts DEF Worklist
  <2>10. Differing(l, r) # {}
    BY <2>8, <2>9, BreakDiffers
  <2>11. (CHOOSE q \in PairOf(k, item) : TRUE) = p
    BY <2>4
  <2>12. b.headline = LeadingDiff(l, r) /\ b.relative = RelativeSize(l, r) /\ b.covers = Siblings(k, p)
    <3>1. RowsOf(k, p)[1] = l /\ RowsOf(k, p)[2] = r
      BY <2>7
    <3>2. Line(k, item) =
             [item     |-> item,
              headline |-> LeadingDiff(RowsOf(k, p)[1], RowsOf(k, p)[2]),
              covers   |-> Siblings(k, p),
              relative |-> RelativeSize(RowsOf(k, p)[1], RowsOf(k, p)[2]),
              absolute |-> AbsoluteSize(StoredRow(item), RowsOf(k, p)[1], RowsOf(k, p)[2])]
      BY <1>5, <2>11 DEF Line
    <3> QED
      BY <1>1, <3>1, <3>2
  <2> QED
    BY <1>1, <1>2, <2>2, <2>4, <2>7, <2>8, <2>9, <2>10, <2>12
<1> QED
  BY <1>4, <1>5

LEMMA LargestIsFirst ==
    ASSUME ServiceInv
    PROVE  LargestFirst
<1> SUFFICES ASSUME NEW k \in DOMAIN run, NEW a \in Lines(k, Worklist), NEW b \in Lines(k, Worklist),
                    NEW p \in PairOf(k, b.item)
             PROVE  LET rows == RowsOf(k, p)
                        relative == RelativeDiffs(rows[1], rows[2])
                    IN  /\ SortedBefore(a, b) =>
                              /\ ~Exceeds(rows[1].quantity, rows[2].quantity, a.relative)
                              /\ ~Exceeds(rows[1].price, rows[2].price, a.relative)
                              /\ ~Exceeds(rows[1].amount, rows[2].amount, a.relative)
                        /\ b.headline # {}
                        /\ \A f \in b.headline :
                              ~FractionLess(relative[f], b.relative) /\ ~FractionLess(b.relative, relative[f])
  BY DEF LargestFirst
<1>1. PICK l \in RecordRow, r \in RecordRow :
         /\ RowsOf(k, p) = <<l, r>> /\ Differing(l, r) # {}
         /\ b.headline = LeadingDiff(l, r) /\ b.relative = RelativeSize(l, r)
  BY LineIs
<1>2. PICK relative : relative = RelativeDiffs(l, r)
  OBVIOUS
<1>3. /\ b.headline # {} /\ b.headline \subseteq Fields /\ b.relative \in Fraction
      /\ \A f \in b.headline :
            ~FractionLess(relative[f], b.relative) /\ ~FractionLess(b.relative, relative[f])
      /\ \A g \in Fields : ~FractionLess(b.relative, relative[g])
  BY <1>1, <1>2, Headlined
<1>4. a.relative \in Fraction
  <2>1. NoDifference \in Fraction
    BY DEF NoDifference, Fraction
  <2>2. CASE a.relative = NoDifference
    BY <2>1, <2>2
  <2>3. CASE a.relative # NoDifference
    <3>1. PICK c \in RecordRow, d \in RecordRow : Differing(c, d) # {} /\ a.relative = RelativeSize(c, d)
      BY <2>3, LineIs
    <3> QED
      BY <3>1, Headlined
  <2> QED
    BY <2>2, <2>3
<1>5. /\ l.quantity \in Int /\ l.price \in Int /\ l.amount \in Int
      /\ r.quantity \in Int /\ r.price \in Int /\ r.amount \in Int
  BY RowFields
<1>6. ASSUME SortedBefore(a, b)
      PROVE  /\ ~Exceeds(l.quantity, r.quantity, a.relative)
             /\ ~Exceeds(l.price, r.price, a.relative)
             /\ ~Exceeds(l.amount, r.amount, a.relative)
  <2>1. ~FractionLess(a.relative, b.relative)
    BY <1>3, <1>4, <1>6, FractionOrder DEF SortedBefore
  <2>2. \A g \in Fields : relative[g] \in Fraction
    BY <1>2, RelativeDiffsAre
  <2>3. \A g \in Fields : ~FractionLess(a.relative, relative[g])
    BY <1>3, <1>4, <2>1, <2>2, FractionOrder
  <2>4. /\ ~FractionLess(a.relative, Relative(l.quantity, r.quantity))
        /\ ~FractionLess(a.relative, Relative(l.price, r.price))
        /\ ~FractionLess(a.relative, Relative(l.amount, r.amount))
    BY <1>2, <2>3, RelativeDiffsAre DEF Fields
  <2> QED
    BY <1>4, <1>5, <2>4, RelativeFraction
<1>7. RowsOf(k, p)[1] = l /\ RowsOf(k, p)[2] = r
  BY <1>1
<1> QED
  BY <1>2, <1>3, <1>6, <1>7

\* The largest difference is first, whatever was matched and in which units
\* (TR-606): the relative differences are in a weak order, a worklist line of
\* a pair is a break, which differs in some field, and the headlined field
\* tops that order.
THEOREM WorklistIsOrdered == Spec => []LargestFirst
<1>1. ServiceInv => LargestFirst
  BY LargestIsFirst
<1> QED
  BY <1>1, ServiceInductive, PTL

----------------------------------------------------------------------------
(* The worklist and the summary.                                           *)

\* The two items of a pair, as the page groups them: it is the one pair of
\* each, the left one is ours, the other is not.
LEMMA GroupOf ==
    ASSUME ServiceInv, NEW k \in DOMAIN run, NEW item \in run[k].items, NEW p \in PairOf(k, item)
    PROVE  \E l \in run[k].items, r \in run[k].items :
              /\ l # r /\ item \in {l, r} /\ Siblings(k, p) = {l, r}
              /\ KeyOf(l) = p.left /\ l.source = run[k].left
              /\ l.state = item.state /\ r.state = item.state
              /\ PairOf(k, l) = {p} /\ PairOf(k, r) = {p}
              /\ Ours(k, l) /\ ~Ours(k, r)
<1>1. PICK in : Answers(run[k], in) /\ FilesSay(run[k], in)
  BY DEF ServiceInv, RunsInv
<1>2. p \in run[k].pairs /\ KeyOf(item) \in {p.left, p.right} /\ item.state # "withdrawn"
  BY DEF PairOf, KeyOf
<1>3. PICK l \in run[k].items, r \in run[k].items :
         /\ KeyOf(l) = p.left /\ KeyOf(r) = p.right
         /\ l.source = run[k].left /\ l # r
         /\ l.state = p.verdict /\ r.state = p.verdict
         /\ Siblings(k, p) = {l, r}
  BY <1>1, <1>2, PairItems
<1>4. \A one, other \in run[k].items : KeyOf(one) = KeyOf(other) => one = other
  BY <1>1 DEF Answers
<1>5. item \in {l, r}
  BY <1>2, <1>3, <1>4
<1>6. ASSUME NEW one \in {l, r}
      PROVE  PairOf(k, one) = {p}
  <2>1. p \in PairOf(k, one)
    BY <1>2, <1>3, <1>5, <1>6 DEF PairOf, KeyOf
  <2>2. ASSUME NEW o \in PairOf(k, one)
        PROVE  o = p
    <3>1. o \in run[k].pairs /\ KeyOf(one) \in {o.left, o.right}
      BY <2>2 DEF PairOf, KeyOf
    <3>2. KeyOf(one) \in {p.left, p.right}
      BY <1>3, <1>6
    <3> QED
      BY <1>1, <1>2, <3>1, <3>2, PairsApart
  <2> QED
    BY <2>1, <2>2
<1>7. PairOf(k, l) = {p} /\ PairOf(k, r) = {p}
  BY <1>6
<1>8. KeyOf(l) # KeyOf(r)
  BY <1>3, <1>4
<1>9. Ours(k, l) /\ ~Ours(k, r)
  BY <1>3, <1>7, <1>8 DEF Ours, KeyOf
<1> QED
  BY <1>3, <1>5, <1>7, <1>9

\* What a line covers: its item, or the two items of its pair, ours first.
LEMMA LineCovers ==
    ASSUME ServiceInv, NEW k \in DOMAIN run, NEW wanted, NEW b \in Lines(k, wanted)
    PROVE  \/ b.covers = {b.item}
           \/ \E r \in run[k].items :
                 /\ b.covers = {b.item, r} /\ b.item # r
                 /\ b.item.source = run[k].left /\ r.state = b.item.state
<1>1. b.item \in run[k].items /\ Ours(k, b.item)
  BY LineIs
<1>2. CASE b.covers # {b.item}
  <2>1. PICK p : PairOf(k, b.item) = {p} /\ b.covers = Siblings(k, p)
    BY <1>2, LineIs
  <2>2. p \in PairOf(k, b.item)
    BY <2>1
  <2>3. PICK l \in run[k].items, r \in run[k].items :
           /\ l # r /\ b.item \in {l, r} /\ Siblings(k, p) = {l, r}
           /\ l.source = run[k].left
           /\ l.state = b.item.state /\ r.state = b.item.state /\ ~Ours(k, r)
    BY <1>1, <2>2, GroupOf
  <2>4. b.item = l
    BY <1>1, <2>3
  <2> QED
    BY <2>1, <2>3, <2>4
<1> QED
  BY <1>2

\* A record that needs a person is on exactly one line of every page that
\* shows its state.
LEMMA CoveringLine ==
    ASSUME ServiceInv, NEW k \in DOMAIN run, NEW wanted, NEW item \in run[k].items,
           item.state \in Worklist \cap wanted
    PROVE  \E line \in Lines(k, wanted) : {b \in Lines(k, wanted) : item \in b.covers} = {line}
<1>1. CASE PairOf(k, item) = {}
  <2>1. PICK line : line = Line(k, item)
    OBVIOUS
  <2>2. Ours(k, item)
    BY <1>1 DEF Ours
  <2>3. line \in Lines(k, wanted) /\ item \in line.covers
    BY <1>1, <2>1, <2>2 DEF Lines, Line
  <2>4. ASSUME NEW b \in Lines(k, wanted), item \in b.covers
        PROVE  b = line
    <3>1. CASE b.covers = {b.item}
      BY <2>1, <2>4, <3>1, LineIs
    <3>2. CASE b.covers # {b.item}
      <4>1. PICK p : b.covers = Siblings(k, p)
        BY <3>2, LineIs
      <4> QED
        BY <1>1, <2>4, <4>1 DEF Siblings
    <3> QED
      BY <3>1, <3>2
  <2> QED
    BY <2>3, <2>4
<1>2. CASE PairOf(k, item) # {}
  <2>1. PICK p \in PairOf(k, item) : TRUE
    BY <1>2
  <2>2. PICK l \in run[k].items, r \in run[k].items :
           /\ l # r /\ item \in {l, r} /\ Siblings(k, p) = {l, r}
           /\ KeyOf(l) = p.left /\ l.state = item.state
           /\ PairOf(k, l) = {p} /\ PairOf(k, r) = {p}
           /\ Ours(k, l) /\ ~Ours(k, r)
    BY <2>1, GroupOf
  <2>3. PICK line : line = Line(k, l)
    OBVIOUS
  <2>4. line \in Lines(k, wanted)
    BY <2>2, <2>3 DEF Lines
  <2>5. (CHOOSE q \in PairOf(k, l) : TRUE) = p
    BY <2>2
  <2>6. line.covers = Siblings(k, p)
    BY <2>2, <2>3, <2>5 DEF Line
  <2>7. item \in line.covers
    BY <2>2, <2>6
  <2>8. ASSUME NEW b \in Lines(k, wanted), item \in b.covers
        PROVE  b = line
    <3>1. b.item \in run[k].items /\ Ours(k, b.item) /\ b = Line(k, b.item)
      BY LineIs
    <3>2. b.item \in {l, r}
      <4>1. CASE b.covers = {b.item}
        BY <2>2, <2>8, <4>1
      <4>2. CASE b.covers # {b.item}
        <5>1. PICK o : PairOf(k, b.item) = {o} /\ b.covers = Siblings(k, o)
          BY <4>2, LineIs
        <5>2. o \in PairOf(k, item)
          BY <2>8, <5>1 DEF Siblings
        <5>3. o = p
          BY <2>2, <5>2
        <5>4. b.item \in Siblings(k, p)
          BY <3>1, <5>1, <5>3 DEF Siblings
        <5> QED
          BY <2>2, <5>4
      <4> QED
        BY <4>1, <4>2
    <3> QED
      BY <2>2, <2>3, <3>1, <3>2
  <2> QED
    BY <2>4, <2>7, <2>8
<1> QED
  BY <1>1, <1>2

\* The records of the lines are those that need a person.
LEMMA CoveredItems ==
    ASSUME ServiceInv, NEW k \in DOMAIN run, NEW wanted, NEW b \in Lines(k, wanted), NEW item \in b.covers
    PROVE  item \in run[k].items /\ item.state \in Worklist \cap wanted
BY LineIs, LineCovers

LEMMA PageHolds ==
    ASSUME ServiceInv
    PROVE  PageCoversTheWorklist
<1> SUFFICES ASSUME NEW k \in DOMAIN run
             PROVE  LET all == Lines(k, Worklist) IN
                    /\ \A wanted \in SelectedStates :
                          \A item \in run[k].items :
                             Cardinality({line \in Lines(k, wanted) : item \in line.covers}) =
                                 IF item.state \in Worklist \cap wanted THEN 1 ELSE 0
                    /\ WorklistTotal(k) = Cardinality(UNION {line.covers : line \in all})
                                             + run[k].counts["rejected_row"]
                    /\ Total(run[k].counts) =
                          SideTotal(k, run[k].left) + SideTotal(k, run[k].right) + run[k].counts["rejected_row"]
                    /\ \A line \in all : line.covers # {line.item} =>
                          line.item.source = run[k].left /\ Cardinality(line.covers) = 2
  BY DEF PageCoversTheWorklist
<1>1. PICK row : row = run[k]
  OBVIOUS
<1>2. PICK in : Answers(row, in) /\ FilesSay(row, in)
  BY <1>1 DEF ServiceInv, RunsInv
<1>3. IsFiniteSet(row.items)
  BY <1>2, ItemsFinite DEF ServiceInv
<1>4. PICK rejected \in Nat : row.counts = Counts(row.items, rejected)
  BY <1>2 DEF FilesSay
<1>5. \A item \in row.items : item.source \in {row.left, row.right} /\ item.state \in RecordState \ {"rejected_row"}
  BY <1>2 DEF FilesSay
<1>6. row.left # row.right
  BY <1>2 DEF Answers, IsInput
<1> DEFINE of(state) == StateCount(row.items, state)
<1>7. of("rejected_row") = 0
  <2>1. {item \in row.items : item.state = "rejected_row"} = {}
    BY <1>5
  <2> QED
    BY <2>1, FS_EmptySet DEF StateCount
<1>8. /\ Cardinality(InStates(row.items, Worklist)) =
            of("break") + of("suggested") + of("unmatched")
                + of("status_disagreement") + of("withdrawn") + of("rejected_row")
      /\ \A state : of(state) \in Nat
  BY <1>3, WorklistCounts
<1>9. \A state \in RecordState : row.counts[state] = of(state) + IF state = "rejected_row" THEN rejected ELSE 0
  BY <1>4 DEF Counts, StateCount
<1>10. row.counts["rejected_row"] = rejected
  BY <1>7, <1>9 DEF RecordState
<1>11. ASSUME NEW wanted, NEW item \in row.items
       PROVE  Cardinality({line \in Lines(k, wanted) : item \in line.covers}) =
                  IF item.state \in Worklist \cap wanted THEN 1 ELSE 0
  <2>1. CASE item.state \in Worklist \cap wanted
    <3>0. item \in run[k].items
      BY <1>1
    <3>1. PICK line \in Lines(k, wanted) : {b \in Lines(k, wanted) : item \in b.covers} = {line}
      BY <2>1, <3>0, CoveringLine
    <3>2. Cardinality({line}) = 1
      BY FS_Singleton
    <3> QED
      BY <2>1, <3>1, <3>2
  <2>2. CASE item.state \notin Worklist \cap wanted
    <3>1. {b \in Lines(k, wanted) : item \in b.covers} = {}
      BY <2>2, CoveredItems
    <3> QED
      BY <2>2, <3>1, FS_EmptySet
  <2> QED
    BY <2>1, <2>2
<1>12. UNION {line.covers : line \in Lines(k, Worklist)} = InStates(row.items, Worklist)
  <2>1. ASSUME NEW line \in Lines(k, Worklist), NEW item \in line.covers
        PROVE  item \in row.items /\ item.state \in Worklist
    BY <1>1, CoveredItems
  <2>2. ASSUME NEW item \in row.items, item.state \in Worklist
        PROVE  \E line \in Lines(k, Worklist) : item \in line.covers
    <3>1. PICK line \in Lines(k, Worklist) : {b \in Lines(k, Worklist) : item \in b.covers} = {line}
      BY <1>1, <2>2, CoveringLine
    <3> QED
      BY <3>1
  <2> QED
    BY <2>1, <2>2 DEF InStates
<1>13. WorklistTotal(k) = Cardinality(InStates(row.items, Worklist)) + rejected
  <2>1. PICK counts : counts = row.counts
    OBVIOUS
  <2>2. /\ counts["break"] = of("break") /\ counts["suggested"] = of("suggested")
        /\ counts["unmatched"] = of("unmatched") /\ counts["status_disagreement"] = of("status_disagreement")
        /\ counts["withdrawn"] = of("withdrawn") /\ counts["rejected_row"] = rejected
    <3>1. \A state \in RecordState : state # "rejected_row" => counts[state] = of(state)
      <4> HIDE DEF of
      <4> QED
        BY <1>8, <1>9, <2>1
    <3> HIDE DEF of
    <3> QED
      BY <1>10, <2>1, <3>1 DEF RecordState
  <2>3. WorklistTotal(k) = counts["break"] + counts["suggested"] + counts["unmatched"]
                              + counts["status_disagreement"] + counts["withdrawn"] + counts["rejected_row"]
    BY <1>1, <2>1 DEF WorklistTotal
  <2> HIDE DEF of
  <2> QED
    BY <1>7, <1>8, <2>2, <2>3
<1>14. Total(row.counts) = Cardinality(row.items) + rejected
  BY <1>3, <1>4, <1>5, CountsAddUp
<1>15. Cardinality(row.items) = SideTotal(k, row.left) + SideTotal(k, row.right)
  <2>1. PICK ours : ours = {item \in row.items : item.source = row.left}
    OBVIOUS
  <2>2. PICK theirs : theirs = {item \in row.items : item.source = row.right}
    OBVIOUS
  <2>3. ours \cup theirs = row.items /\ ours \cap theirs = {}
    BY <1>5, <1>6, <2>1, <2>2
  <2>4. IsFiniteSet(ours) /\ IsFiniteSet(theirs)
    BY <1>3, <2>1, <2>2, FS_Subset
  <2>5. Cardinality(ours \cup theirs) = Cardinality(ours) + Cardinality(theirs) - Cardinality(ours \cap theirs)
    BY <2>4, FS_Union
  <2>6. Cardinality(ours) \in Nat /\ Cardinality(theirs) \in Nat /\ Cardinality(ours \cap theirs) = 0
    BY <2>3, <2>4, FS_CardinalityType, FS_EmptySet
  <2>7. SideTotal(k, row.left) = Cardinality(ours) /\ SideTotal(k, row.right) = Cardinality(theirs)
    BY <1>1, <2>1, <2>2 DEF SideTotal
  <2>8. Cardinality(row.items) = Cardinality(ours) + Cardinality(theirs)
    <3>1. Cardinality(ours \cup theirs) = Cardinality(ours) + Cardinality(theirs)
      BY <2>5, <2>6
    <3> QED
      BY <2>3, <3>1
  <2> QED
    BY <2>7, <2>8
<1>16. ASSUME NEW line \in Lines(k, Worklist), line.covers # {line.item}
       PROVE  line.item.source = row.left /\ Cardinality(line.covers) = 2
  <2>1. PICK r : line.covers = {line.item, r} /\ line.item # r /\ line.item.source = row.left
    BY <1>1, <1>16, LineCovers
  <2>2. line.covers = {line.item} \cup {r} /\ r \notin {line.item}
    BY <2>1
  <2>3. IsFiniteSet({line.item}) /\ Cardinality({line.item}) = 1
    BY FS_Singleton
  <2>4. Cardinality({line.item} \cup {r}) = Cardinality({line.item}) + 1
    BY <2>2, <2>3, FS_AddElement
  <2> QED
    BY <2>1, <2>2, <2>3, <2>4
<1> QED
  BY <1>1, <1>10, <1>11, <1>12, <1>13, <1>14, <1>15, <1>16

\* The page and the summary agree in every run, however the page is filtered
\* and whatever arrived since (TR-606, AC2).
THEOREM PagesCoverTheWorklist == Spec => []PageCoversTheWorklist
<1>1. ServiceInv => PageCoversTheWorklist
  BY PageHolds
<1> QED
  BY <1>1, ServiceInductive, PTL

=============================================================================
