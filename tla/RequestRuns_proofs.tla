-------------------------- MODULE RequestRuns_proofs --------------------------
(***************************************************************************)
(* Theorems about runs whose requests overlap others: what a run reads     *)
(* step by step and writes down is compared with what the run of Reconcile *)
(* does at once, whose lemmas are about the tables of this module.         *)
(***************************************************************************)
EXTENDS Requests_proofs, SequenceTheorems

Runs == INSTANCE Reconcile_proofs

LEMMA RunsAssumptions ==
    /\ Runs!TablesAssumption /\ Runs!SourcePairsAssumption
    /\ Runs!ReferencesAssumption /\ Runs!MeasuresAssumption /\ Runs!WindowAssumption
    /\ Runs!NoRecordAssumption
    /\ Runs!BpsUnitAssumption /\ Runs!QtyBpsAssumption /\ Runs!ProfileAssumption
BY ServiceAssumption
   DEF Store!TablesAssumption, Store!SourcePairsAssumption, Store!ReferencesAssumption,
       Store!MeasuresAssumption, Store!WindowAssumption, Store!NoRecordAssumption,
       Store!BpsUnitAssumption, Store!QtyBpsAssumption, Store!ProfileAssumption,
       Runs!TablesAssumption, Runs!SourcePairsAssumption, Runs!ReferencesAssumption,
       Runs!MeasuresAssumption, Runs!WindowAssumption, Runs!NoRecordAssumption,
       Runs!BpsUnitAssumption, Runs!QtyBpsAssumption, Runs!ProfileAssumption,
       Store!RecordKey, Runs!RecordKey, Store!RecordStatus, Runs!RecordStatus,
       Store!Files!ParsedFile, Runs!Files!ParsedFile

----------------------------------------------------------------------------
(* Matching and comparison are the same on any tables.                     *)

LEMMA SameSides ==
    ASSUME NEW in, NEW side
    PROVE  /\ Store!Cancelled(side) = Runs!Cancelled(side)
           /\ Store!StatusDisagreements(in) = Runs!StatusDisagreements(in)
           /\ Store!Available(in, side) = Runs!Available(in, side)
BY DEF Store!Available, Runs!Available, Store!LiveIn, Runs!LiveIn,
       Store!StatusDisagreements, Runs!StatusDisagreements,
       Store!DisagreeingWith, Runs!DisagreeingWith, Store!Cancelled, Runs!Cancelled

LEMMA SameManual == ASSUME NEW in PROVE Store!ManualPairs(in) = Runs!ManualPairs(in)
<1>1. \A l, r : Store!ManuallyPaired(in, l, r) <=> Runs!ManuallyPaired(in, l, r)
  BY DEF Store!ManuallyPaired, Runs!ManuallyPaired, Store!DecisionsOf, Runs!DecisionsOf
<1>2. \A r : Store!Key(r) = Runs!Key(r)
  BY DEF Store!Key, Runs!Key
<1> QED
  BY <1>1, <1>2, SameSides DEF Store!ManualPairs, Runs!ManualPairs

LEMMA SameReference ==
    ASSUME NEW in
    PROVE  /\ Store!ReferencePairs(in) = Runs!ReferencePairs(in)
           /\ Store!Pairs(in) = Runs!Pairs(in)
           /\ Store!Revoked(in) = Runs!Revoked(in)
           /\ Store!StillAccepted(in) = Runs!StillAccepted(in)
           /\ Store!OpenLeft(in) = Runs!OpenLeft(in) /\ Store!OpenRight(in) = Runs!OpenRight(in)
<1>1. Store!ReferencePairs(in) = Runs!ReferencePairs(in)
  BY SameSides, SameManual DEF Store!ReferencePairs, Runs!ReferencePairs, Store!Lefts, Runs!Lefts,
     Store!Rights, Runs!Rights
<1>2. Store!Pairs(in) = Runs!Pairs(in)
  BY <1>1, SameManual DEF Store!Pairs, Runs!Pairs
<1>3. Store!Accepted(in) = Runs!Accepted(in)
  BY DEF Store!Accepted, Runs!Accepted, Store!DecisionsOf, Runs!DecisionsOf
<1>4. \A r : Store!Key(r) = Runs!Key(r)
  BY DEF Store!Key, Runs!Key
<1>5. Store!Revoked(in) = Runs!Revoked(in)
  BY <1>1, <1>3, <1>4 DEF Store!Revoked, Runs!Revoked
<1>6. Store!StillAccepted(in) = Runs!StillAccepted(in)
  BY <1>3, <1>5 DEF Store!StillAccepted, Runs!StillAccepted
<1>7. Store!OpenLeft(in) = Runs!OpenLeft(in)
  BY <1>2, SameSides DEF Store!OpenLeft, Runs!OpenLeft, Store!Lefts, Runs!Lefts
<1>8. Store!OpenRight(in) = Runs!OpenRight(in)
  BY <1>2, SameSides DEF Store!OpenRight, Runs!OpenRight, Store!Rights, Runs!Rights
<1> QED
  BY <1>1, <1>2, <1>5, <1>6, <1>7, <1>8

LEMMA SameRest ==
    ASSUME NEW in
    PROVE  /\ Store!Suggested(in) = Runs!Suggested(in)
           /\ Store!AcceptedUnmatched(in) = Runs!AcceptedUnmatched(in)
           /\ Store!Unmatched(in) = Runs!Unmatched(in)
<1>1. \A a, b : Store!Candidate(in, a, b) <=> Runs!Candidate(in, a, b)
  <2>1. \A a, b : Store!Plausible(a, b) <=> Runs!Plausible(a, b)
    BY DEF Store!Plausible, Runs!Plausible, Store!Gap, Runs!Gap, Store!Abs, Runs!Abs,
       Store!WithinBps, Runs!WithinBps, Store!Larger, Runs!Larger
  <2>2. \A a, b : Store!Blocked(in, a, b) <=> Runs!Blocked(in, a, b)
    BY DEF Store!Blocked, Runs!Blocked, Store!DecisionsOf, Runs!DecisionsOf, Store!Key, Runs!Key
  <2> QED
    BY <2>1, <2>2 DEF Store!Candidate, Runs!Candidate
<1>2. \A r : Store!Key(r) = Runs!Key(r)
  BY DEF Store!Key, Runs!Key
<1>3. Store!Suggestions(in) = Runs!Suggestions(in)
  BY <1>1, <1>2, SameReference DEF Store!Suggestions, Runs!Suggestions
<1>4. Store!Suggested(in) = Runs!Suggested(in)
  BY <1>3 DEF Store!Suggested, Runs!Suggested, Store!Lefts, Runs!Lefts, Store!Rights, Runs!Rights
<1>5. Store!AcceptedUnmatched(in) = Runs!AcceptedUnmatched(in)
  BY <1>2, SameReference DEF Store!AcceptedUnmatched, Runs!AcceptedUnmatched
<1>6. Store!Unmatched(in) = Runs!Unmatched(in)
  BY <1>2, <1>4, SameReference DEF Store!Unmatched, Runs!Unmatched
<1> QED
  BY <1>4, <1>5, <1>6

LEMMA SameResult == ASSUME NEW in PROVE Store!MatchResult(in) = Runs!MatchResult(in)
BY SameSides, SameManual, SameReference, SameRest DEF Store!MatchResult, Runs!MatchResult

LEMMA SameVerdict ==
    ASSUME NEW files, NEW decisions, NEW a, NEW b
    PROVE  /\ DB(files, decisions)!Verdict(DB(files, decisions)!FieldDiffs(a, b)) = Runs!Verdict(Runs!FieldDiffs(a, b))
           /\ Store!Verdict(Store!FieldDiffs(a, b)) = Runs!Verdict(Runs!FieldDiffs(a, b))
<1>1. DB(files, decisions)!FieldDiffs(a, b) = Runs!FieldDiffs(a, b)
  BY DEF DB!FieldDiffs, Runs!FieldDiffs, DB!Exact, Runs!Exact, DB!Measured, Runs!Measured, DB!Abs, Runs!Abs, DB!WithinBps, Runs!WithinBps,
     DB!Larger, Runs!Larger, DB!WithinAmount, Runs!WithinAmount
<1>2. Store!FieldDiffs(a, b) = Runs!FieldDiffs(a, b)
  BY DEF Store!FieldDiffs, Runs!FieldDiffs, Store!Exact, Runs!Exact, Store!Measured, Runs!Measured, Store!Abs, Runs!Abs, Store!WithinBps, Runs!WithinBps,
     Store!Larger, Runs!Larger, Store!WithinAmount, Runs!WithinAmount
<1> QED
  BY <1>1, <1>2 DEF DB!Verdict, Runs!Verdict, Store!Verdict

----------------------------------------------------------------------------
(* The steps of a run.                                                     *)

\* What matching is given: the deliveries and decisions as they were read.
ReadInput(q, has) ==
    [DB(AsRead(has.read), <<>>)!RunInput(Asked[q].left, Asked[q].right, Asked[q].period)
        EXCEPT !.prior = has.prior]

\* Nothing else in hand changes.
Only(fields, had, has) == \A field \in HandFields \ fields : has[field] = had[field]

\* What a run has in hand after each of its steps.
ReadsLeft(q, step, has) ==
    /\ At(q, "left") /\ step = "right"
    /\ has.read \in Readings(Asked[q].left, Asked[q].period)
    /\ has.stamp = {} /\ has.stamped = {}

ReadsRight(q, step, has) ==
    /\ At(q, "right") /\ step = "decisions"
    /\ \E right \in Readings(Asked[q].right, Asked[q].period) :
          has.read = request[q].has.read \cup right
    /\ ~Refused(Asked[q], AsRead(has.read))
    /\ has.stamp = {} /\ has.stamped = {}

ReadsDecisions(q, step, has) ==
    /\ At(q, "decisions") /\ step = "pairs"
    /\ has.prior = DB(<<>>, resolution)!LoadPriorResolutions(
                       Asked[q].left, Asked[q].right, Asked[q].period)
    /\ Only({"prior"}, request[q].has, has)

WritesPairs(q, step, has) ==
    /\ At(q, "pairs") /\ step = "find"
    /\ LET files  == AsRead(request[q].has.read)
           result == Runs!MatchResult(ReadInput(q, request[q].has))
       IN  /\ has.revoke = result.revocations
           /\ has.row.files = Cardinality(DOMAIN file_batch)
           /\ has.row.decisions = Cardinality(DOMAIN resolution)
           /\ has.row.pairs = DB(files, resolution)!PairRows(result)
           /\ has.row.items = DB(files, <<>>)!RecordItems(result, Asked[q].period)
    /\ Only({"revoke", "row"}, request[q].has, has)

FindsNone(q, step, has) ==
    /\ At(q, "find") /\ step = "items"
    /\ request[q].has.revoke = {} /\ Only({}, request[q].has, has)

FindsOne(q, step, has) ==
    /\ At(q, "find")
    /\ \E key \in request[q].has.revoke :
          /\ has.revoke = request[q].has.revoke \ {key}
          /\ has.stamp = DB(<<>>, DecisionsAfter(q))!Decisions!ResolutionFor(key)
    /\ step = IF has.stamp = {} THEN "find" ELSE "stamp"
    /\ Only({"revoke", "stamp"}, request[q].has, has)

StampsOne(q, step, has) ==
    /\ At(q, "stamp")
    /\ has.stamp = request[q].has.stamp \ {NextStamp(q)}
    /\ has.stamped = request[q].has.stamped \cup {NextStamp(q)}
    /\ step = IF has.stamp = {} THEN "find" ELSE "stamp"
    /\ Only({"stamp", "stamped"}, request[q].has, has)

WritesItems(q, step, has) ==
    /\ At(q, "items") /\ step = "answer"
    /\ LET asked == Asked[q]
           row   == request[q].has.row
       IN  \E left \in Readings(asked.left, asked.period),
              right \in Readings(asked.right, asked.period) :
           \E files \in {TakingAsCurrent(left \cup right, asked)} :
           \E withdrawn \in {DB(files, <<>>)!WithdrawnItems(asked.left, asked.period) \cup
                             DB(files, <<>>)!WithdrawnItems(asked.right, asked.period)},
              rejected \in {DB(files, <<>>)!RejectedCount(asked.left, asked.period) +
                            DB(files, <<>>)!RejectedCount(asked.right, asked.period)} :
              /\ ~ListedTwice(row.items, withdrawn)
              /\ has.row = [left      |-> asked.left,
                            right     |-> asked.right,
                            period    |-> asked.period,
                            files     |-> row.files,
                            decisions |-> row.decisions,
                            pairs     |-> row.pairs,
                            items     |-> row.items \cup withdrawn,
                            counts    |-> Store!Counts(row.items \cup withdrawn, rejected)]
    /\ Only({"row"}, request[q].has, has)

Finishes(q, step, has) ==
    /\ <<request[q].at, step>> \in {<<"answer", "answered">>, <<"answered", "committing">>}
    /\ Only({}, request[q].has, has)

RunMoves(q, step, has) ==
    \/ ReadsLeft(q, step, has) \/ ReadsRight(q, step, has) \/ ReadsDecisions(q, step, has)
    \/ WritesPairs(q, step, has) \/ FindsNone(q, step, has) \/ FindsOne(q, step, has)
    \/ StampsOne(q, step, has) \/ WritesItems(q, step, has) \/ Finishes(q, step, has)

LEMMA RunHandler ==
    ASSUME IndInv, NEW q \in Requests, Kind(q) = "run", Handler(q) \/ Dispatch(q)
    PROVE  \/ Stops(q)
           \/ \E step, locks, has :
                 /\ Becomes(q, step, request[q].after, locks, has)
                 /\ InHand(has) /\ tables' = tables /\ RunMoves(q, step, has)
<1> DEFINE had == request[q].has
           gone(step, has) == GoesOn(q, step, has) \/ Writing(q, step, has)
<1>h. InHand(had) /\ InHand(Nothing) /\ Nothing.stamp = {} /\ Nothing.stamped = {} /\ Shaped
  BY DEF IndInv, Shaped, InHand, HandFields, Nothing
<1>f. Fits(q, request[q].at)
  BY DEF IndInv
<1>0. ASSUME NEW step, NEW has, gone(step, has), InHand(has), RunMoves(q, step, has)
      PROVE  \E locks : /\ Becomes(q, step, request[q].after, locks, has)
                        /\ InHand(has) /\ tables' = tables /\ RunMoves(q, step, has)
  BY <1>0, <1>h, GoesOnBecomes, WritingBecomes
<1>s. \A answer : Ends(q, answer) /\ request[q].at \notin {"new", "ended"} => Stops(q)
  BY OpenSteps DEF Stops
<1>8. CASE ReadLeft(q)
  <2>1. PICK read \in Readings(Asked[q].left, Asked[q].period) :
           GoesOn(q, "right", [Nothing EXCEPT !.read = read])
    BY <1>8 DEF ReadLeft
  <2> DEFINE next == [Nothing EXCEPT !.read = read]
  <2>2. InHand(next) /\ next.read = read /\ next.stamp = {} /\ next.stamped = {}
    BY DEF InHand, HandFields, Nothing
  <2>3. gone("right", next) /\ At(q, "left")
    BY <1>8, <2>1 DEF ReadLeft
  <2> HIDE DEF next, gone
  <2>4. ReadsLeft(q, "right", next)
    BY <2>2, <2>3 DEF ReadsLeft
  <2> QED
    BY <1>0, <2>2, <2>3, <2>4 DEF RunMoves
<1>9. CASE ReadRight(q)
  <2>1. PICK right, read :
           /\ right \in Readings(Asked[q].right, Asked[q].period)
           /\ read = had.read \cup right
           /\ IF Refused(Asked[q], AsRead(read))
              THEN Ends(q, "message")
              ELSE GoesOn(q, "decisions", [Nothing EXCEPT !.read = read])
    BY <1>9 DEF ReadRight
  <2>2. CASE Ends(q, "message")
    BY <1>9, <1>s, <2>2 DEF ReadRight, At
  <2>3. CASE ~Ends(q, "message")
    <3> DEFINE next == [Nothing EXCEPT !.read = read]
    <3>1. InHand(next) /\ next.read = read /\ next.stamp = {} /\ next.stamped = {}
      BY DEF InHand, HandFields, Nothing
    <3>2. gone("decisions", next) /\ At(q, "right") /\ ~Refused(Asked[q], AsRead(read))
      BY <1>9, <2>1, <2>3 DEF ReadRight
    <3> HIDE DEF next, gone
    <3>3. ReadsRight(q, "decisions", next)
      BY <2>1, <3>1, <3>2 DEF ReadsRight
    <3> QED
      BY <1>0, <3>1, <3>2, <3>3 DEF RunMoves
  <2> QED
    BY <2>2, <2>3
<1>10. CASE ReadDecisions(q)
  <2>1. PICK prior : /\ prior = DB(<<>>, resolution)!LoadPriorResolutions(
                                     Asked[q].left, Asked[q].right, Asked[q].period)
                     /\ GoesOn(q, "pairs", [had EXCEPT !.prior = prior])
    BY <1>10 DEF ReadDecisions
  <2> DEFINE next == [had EXCEPT !.prior = prior]
  <2>2. InHand(next) /\ next.prior = prior /\ Only({"prior"}, had, next)
    BY <1>h DEF InHand, HandFields, Only
  <2>3. gone("pairs", next) /\ At(q, "decisions")
    BY <1>10, <2>1 DEF ReadDecisions
  <2> HIDE DEF next, gone
  <2>4. ReadsDecisions(q, "pairs", next)
    BY <2>1, <2>2, <2>3 DEF ReadsDecisions
  <2> QED
    BY <1>0, <2>2, <2>3, <2>4 DEF RunMoves
<1>11. CASE WritePairs(q)
  <2> DEFINE files  == AsRead(had.read)
             result == Runs!MatchResult(ReadInput(q, had))
             row    == [files     |-> Cardinality(DOMAIN file_batch),
                        decisions |-> Cardinality(DOMAIN resolution),
                        pairs     |-> DB(files, resolution)!PairRows(result),
                        items     |-> DB(files, <<>>)!RecordItems(result, Asked[q].period)]
             next   == [had EXCEPT !.revoke = result.revocations, !.row = row]
  <2>1. Store!MatchResult(ReadInput(q, had)) = result
    BY SameResult
  <2>2. Writing(q, "find", next) /\ At(q, "pairs")
    BY <1>11, <2>1 DEF WritePairs, ReadInput
  <2>3. /\ row.files = Cardinality(DOMAIN file_batch)
        /\ row.decisions = Cardinality(DOMAIN resolution)
        /\ row.pairs = DB(files, resolution)!PairRows(result)
        /\ row.items = DB(files, <<>>)!RecordItems(result, Asked[q].period)
    OBVIOUS
  <2> HIDE DEF row
  <2>4. /\ InHand(next) /\ next.revoke = result.revocations /\ next.row = row
        /\ Only({"revoke", "row"}, had, next)
    BY <1>h DEF InHand, HandFields, Only
  <2> HIDE DEF next
  <2>5. WritesPairs(q, "find", next)
    BY <2>2, <2>3, <2>4 DEF WritesPairs
  <2> QED
    BY <1>0, <2>2, <2>4, <2>5 DEF RunMoves
<1>12. CASE FindRevoked(q)
  <2>0. At(q, "find")
    BY <1>12 DEF FindRevoked
  <2>1. CASE had.revoke = {}
    <3>1. GoesOn(q, "items", had)
      BY <1>12, <2>1 DEF FindRevoked
    <3>2. FindsNone(q, "items", had)
      BY <2>0, <2>1 DEF FindsNone, Only
    <3> QED
      BY <1>0, <1>h, <3>1, <3>2 DEF RunMoves
  <2>2. CASE had.revoke # {}
    <3>1. PICK key, found, step :
             /\ key \in had.revoke
             /\ found = DB(<<>>, DecisionsAfter(q))!Decisions!ResolutionFor(key)
             /\ step = IF found = {} THEN "find" ELSE "stamp"
             /\ GoesOn(q, step, [had EXCEPT !.revoke = @ \ {key}, !.stamp = found])
      BY <1>12, <2>2 DEF FindRevoked
    <3> DEFINE next == [had EXCEPT !.revoke = @ \ {key}, !.stamp = found]
    <3>2. /\ InHand(next) /\ next.revoke = had.revoke \ {key} /\ next.stamp = found
          /\ Only({"revoke", "stamp"}, had, next)
      BY <1>h DEF InHand, HandFields, Only
    <3>3. gone(step, next)
      BY <3>1
    <3> HIDE DEF next, gone
    <3>4. FindsOne(q, step, next)
      BY <2>0, <3>1, <3>2 DEF FindsOne
    <3> QED
      BY <1>0, <3>2, <3>3, <3>4 DEF RunMoves
  <2> QED
    BY <2>1, <2>2
<1>6. CASE Stamp(q)
  <2> DEFINE rest == had.stamp \ {NextStamp(q)}
             next == [had EXCEPT !.stamp = rest, !.stamped = @ \cup {NextStamp(q)}]
             step == IF rest = {} THEN "find" ELSE "stamp"
  <2>1. Writing(q, step, next) /\ At(q, "stamp")
    BY <1>6 DEF Stamp, AfterStamps
  <2>2. /\ InHand(next)
        /\ next.stamp = rest /\ next.stamped = had.stamped \cup {NextStamp(q)}
        /\ Only({"stamp", "stamped"}, had, next)
    BY <1>h DEF InHand, HandFields, Only
  <2> HIDE DEF next
  <2>3. StampsOne(q, step, next)
    BY <2>1, <2>2 DEF StampsOne
  <2> QED
    BY <1>0, <2>1, <2>2, <2>3 DEF RunMoves
<1>13. CASE WriteItems(q)
  <2> DEFINE asked == Asked[q]
  <2>1. PICK left, right, files, withdrawn, rejected :
           /\ left \in Readings(asked.left, asked.period)
           /\ right \in Readings(asked.right, asked.period)
           /\ files = TakingAsCurrent(left \cup right, asked)
           /\ withdrawn = DB(files, <<>>)!WithdrawnItems(asked.left, asked.period) \cup
                          DB(files, <<>>)!WithdrawnItems(asked.right, asked.period)
           /\ rejected = DB(files, <<>>)!RejectedCount(asked.left, asked.period) +
                         DB(files, <<>>)!RejectedCount(asked.right, asked.period)
           /\ IF ListedTwice(had.row.items, withdrawn)
              THEN Ends(q, "failed")
              ELSE Writing(q, "answer",
                      [had EXCEPT !.row =
                          [left      |-> asked.left,
                           right     |-> asked.right,
                           period    |-> asked.period,
                           files     |-> had.row.files,
                           decisions |-> had.row.decisions,
                           pairs     |-> had.row.pairs,
                           items     |-> had.row.items \cup withdrawn,
                           counts    |-> Store!Counts(had.row.items \cup withdrawn, rejected)]])
    BY <1>13 DEF WriteItems
  <2>2. CASE Ends(q, "failed")
    BY <1>13, <1>s, <2>2 DEF WriteItems, At
  <2>3. CASE ~Ends(q, "failed")
    <3> DEFINE row  == [left      |-> asked.left,
                        right     |-> asked.right,
                        period    |-> asked.period,
                        files     |-> had.row.files,
                        decisions |-> had.row.decisions,
                        pairs     |-> had.row.pairs,
                        items     |-> had.row.items \cup withdrawn,
                        counts    |-> Store!Counts(had.row.items \cup withdrawn, rejected)]
               next == [had EXCEPT !.row = row]
    <3>1. gone("answer", next) /\ At(q, "items") /\ ~ListedTwice(had.row.items, withdrawn)
      BY <1>13, <2>1, <2>3 DEF WriteItems
    <3>2. InHand(next) /\ next.row = row /\ Only({"row"}, had, next)
      <4> HIDE DEF row
      <4> QED
        BY <1>h DEF InHand, HandFields, Only
    <3> HIDE DEF next, gone
    <3>3. WritesItems(q, "answer", next)
      BY <2>1, <3>1, <3>2 DEF WritesItems
    <3> HIDE DEF row
    <3> QED
      BY <1>0, <3>1, <3>2, <3>3 DEF RunMoves
  <2> QED
    BY <2>2, <2>3
<1>14. CASE Answer(q)
  <2>1. Becomes(q, "answered", request[q].after, request[q].locks, had)
    BY <1>14, <1>h, AnswerBecomes
  <2>2. Finishes(q, "answered", had) /\ tables' = tables
    BY <1>14 DEF Answer, At, Finishes, Only
  <2> QED
    BY <1>h, <2>1, <2>2 DEF RunMoves
<1>15. CASE Dispatch(q)
  <2>1. GoesOn(q, "committing", had) /\ Finishes(q, "committing", had)
    BY <1>15 DEF Dispatch, At, Finishes, Only
  <2> QED
    BY <1>0, <1>h, <2>1 DEF RunMoves
<1>16. ~(\/ Check(q) \/ ReadPrevious(q) \/ Insert(q) \/ MarkPrevious(q)
         \/ ReadCollisions(q) \/ Record(q))
  BY <1>f DEF Fits, Check, ReadPrevious, Insert, MarkPrevious, ReadCollisions, Record, At
<1> HIDE DEF gone
<1> QED
  BY <1>8, <1>9, <1>10, <1>11, <1>12, <1>6, <1>13, <1>14, <1>15, <1>16 DEF Handler

----------------------------------------------------------------------------
(* What the committed tables hold, and what a request has in hand of them, *)
(* whatever overlaps.                                                      *)

IsSound(d) ==
    /\ d \in Store!Decisions!Resolution
    /\ d.kind = "accept_unmatched" <=> d.right = NoRecord
    /\ d.left # d.right

TablesTyped ==
    /\ None \notin DOMAIN file_batch
    /\ file_batch = [b \in DOMAIN file_batch |-> file_batch[b]]
    /\ \A b \in DOMAIN file_batch : file_batch[b] \in Store!Files!FileBatch
    /\ resolution = [i \in DOMAIN resolution |-> resolution[i]]
    /\ \A i \in DOMAIN resolution : IsSound(resolution[i])
    /\ \E S : run \in Seq(S)

\* The items of a run say one thing of each stored record.
OneState(items) ==
    \A i, j \in items : <<i.batch, i.reference>> = <<j.batch, j.reference>> => i = j

\* What an upload replaces is stored.
UploadHolds(q, step, has) ==
    (Kind(q) = "upload" /\ step \in {"insert"} \cup Numbered) =>
        has.previous \in {None} \cup DOMAIN file_batch

\* What a run has read is stored and can be reconciled, and what it is to
\* write says one thing of each record.
RunHolds(q, step, has) ==
    Kind(q) = "run" =>
        /\ step \in {"right", "decisions", "pairs"} => has.read \subseteq DOMAIN file_batch
        /\ step \in {"decisions", "pairs"} => ~Refused(Asked[q], AsRead(has.read))
        /\ step = "pairs" => Runs!AreDecisions(has.prior)
        /\ step \in {"find", "stamp", "items"} \cup Numbered => OneState(has.row.items)

Holds(q, step, has) == UploadHolds(q, step, has) /\ RunHolds(q, step, has)

HandInv ==
    /\ IdInv
    /\ TablesTyped
    /\ \A q \in Requests : Holds(q, request[q].at, request[q].has)
    /\ OneStatePerRecord

\* What is stored stays, but for the mark of what superseded it.
FilesStay ==
    /\ DOMAIN file_batch \subseteq DOMAIN file_batch'
    /\ \A b \in DOMAIN file_batch :
          [file_batch'[b] EXCEPT !.superseded_by = None] = [file_batch[b] EXCEPT !.superseded_by = None]

LEMMA ReadStays ==
    ASSUME FilesStay, NEW read, read \subseteq DOMAIN file_batch
    PROVE  AsRead(read)' = AsRead(read)
<1>1. \A b \in read :
         [file_batch'[b] EXCEPT !.superseded_by = None] = [file_batch[b] EXCEPT !.superseded_by = None]
  BY DEF FilesStay
<1> QED
  BY <1>1 DEF AsRead

LEMMA HoldsStay ==
    ASSUME FilesStay, NEW q, NEW step, NEW has, Holds(q, step, has)
    PROVE  Holds(q, step, has)'
<1>1. UploadHolds(q, step, has)'
  BY DEF Holds, UploadHolds, FilesStay, Kind
<1>2. RunHolds(q, step, has)'
  <2>1. SUFFICES ASSUME Kind(q) = "run" PROVE RunHolds(q, step, has)'
    BY DEF RunHolds, Kind
  <2>2. ASSUME step \in {"right", "decisions", "pairs"}
        PROVE  /\ has.read \subseteq DOMAIN file_batch /\ has.read \subseteq DOMAIN file_batch'
               /\ AsRead(has.read)' = AsRead(has.read)
    <3>1. has.read \subseteq DOMAIN file_batch
      BY <2>1, <2>2 DEF Holds, RunHolds
    <3> QED
      BY <3>1, ReadStays DEF FilesStay
  <2>3. ASSUME step \in {"decisions", "pairs"}
        PROVE  (~Refused(Asked[q], AsRead(has.read)))'
    <3>1. ~Refused(Asked[q], AsRead(has.read)) /\ AsRead(has.read)' = AsRead(has.read)
      BY <2>1, <2>2, <2>3 DEF Holds, RunHolds
    <3> QED
      BY <3>1
  <2> QED
    BY <2>1, <2>2, <2>3 DEF Holds, RunHolds, Refused
<1> QED
  BY <1>1, <1>2 DEF Holds

----------------------------------------------------------------------------
(* The steps of a request that is not a run, and the steps there are.      *)

LEMMA Moves ==
    ASSUME IndInv, Next
    PROVE  Restart \/ \E q \in Requests :
               \/ Begin(q) \/ Stops(q) \/ Commit(q)
               \/ Kind(q) # "run" /\ (Reads(q) \/ Wrote(q) \/ Passes(q) \/ Answer(q))
               \/ Kind(q) = "run" /\ \E step, locks, has :
                     /\ Becomes(q, step, request[q].after, locks, has)
                     /\ InHand(has) /\ tables' = tables /\ RunMoves(q, step, has)
<1>h. Shaped
  BY DEF IndInv
<1>1. CASE Restart
  BY <1>1
<1>2. ASSUME NEW q \in Requests, Begin(q) \/ Progress(q) \/ StatementFails(q) \/ CommitFails(q)
      PROVE  \/ Begin(q) \/ Stops(q) \/ Commit(q)
             \/ Kind(q) # "run" /\ (Reads(q) \/ Wrote(q) \/ Passes(q) \/ Answer(q))
             \/ Kind(q) = "run" /\ \E step, locks, has :
                   /\ Becomes(q, step, request[q].after, locks, has)
                   /\ InHand(has) /\ tables' = tables /\ RunMoves(q, step, has)
  <2>h. InHand(request[q].has)
    BY <1>h DEF Shaped
  <2>1. CASE Begin(q) \/ Commit(q)
    BY <2>1
  <2>2. CASE Handler(q) \/ Dispatch(q)
    <3>1. CASE Kind(q) = "run"
      BY <2>2, <3>1, RunHandler
    <3>2. CASE Kind(q) # "run" /\ Handler(q)
      BY <1>h, <3>2, HandlerSteps
    <3>3. CASE Kind(q) # "run" /\ Dispatch(q)
      BY <2>h, <3>3 DEF Dispatch, Reads, ReadingSteps, At
    <3> QED
      BY <2>2, <3>1, <3>2, <3>3
  <2>4. CASE TimesOut(q)
    BY <2>4, OpenSteps DEF TimesOut, Blocked, WaitsFor, Needs, Writes, Stops
  <2>5. CASE IsAborted(q)
    BY <2>5 DEF IsAborted, Deadlocked, Stops
  <2>6. CASE StatementFails(q)
    BY <2>6, OpenSteps DEF StatementFails, Writes, Stops
  <2>7. CASE CommitFails(q)
    BY <2>7, OpenSteps DEF CommitFails, At, Stops
  <2> QED
    BY <1>2, <2>1, <2>2, <2>4, <2>5, <2>6, <2>7 DEF Progress, GivesUp
<1> QED
  BY <1>1, <1>2 DEF Next

----------------------------------------------------------------------------
(* What a run reads of some deliveries, and the items it makes of them.    *)

LEMMA SidesRead ==
    ASSUME NEW files, \A b \in DOMAIN files : files[b] \in Store!Files!FileBatch,
           NEW source, NEW period, DB(files, <<>>)!Unambiguous(source, period)
    PROVE  /\ Runs!IsSide(DB(files, <<>>)!Side(source, period), source)
           /\ \A r \in DB(files, <<>>)!Side(source, period) :
                 /\ DB(files, <<>>)!CurrentFile(source, period) \in DOMAIN files
                 /\ files[DB(files, <<>>)!CurrentFile(source, period)].source = source
<1> DEFINE current == DB(files, <<>>)!Current(source, period)
           places  == DB(files, <<>>)!CurrentRecords(source, period)
           row(p)  == files[p[1]].records[p[2]]
<1>1. \A b \in current : b \in DOMAIN files /\ files[b].source = source
  BY DEF DB!Current, DB!Files!CurrentBatch, DB!Files!SamePeriod
<1>2. ASSUME NEW p \in places
      PROVE  /\ p[1] \in current /\ p[2] \in DOMAIN files[p[1]].records
             /\ row(p) \in RecordRow
  <2>1. PICK b \in current : \E n \in DOMAIN files[b].records : p = <<b, n>>
    BY DEF DB!CurrentRecords
  <2>2. PICK n \in DOMAIN files[b].records : p = <<b, n>>
    BY <2>1
  <2>3. files[b] \in Store!Files!FileBatch
    BY <1>1
  <2>4. files[b].records \in Seq(RecordRow)
    BY <2>3 DEF Store!Files!FileBatch
  <2>5. files[b].records[n] \in RecordRow
    BY <2>2, <2>4
  <2> QED
    BY <2>2, <2>5
<1>3. \A r : r \in DB(files, <<>>)!Side(source, period) <=>
                \E p \in places : r = Store!Normalized(source, row(p))
  BY DEF DB!Side, DB!RowAt, DB!Normalized, Store!Normalized
<1>4. RecordRow \subseteq [reference : References, status : Store!RecordStatus, bucket : Buckets,
                           time : Times, quantity : Quantities, price : Int, amount : Int]
  BY ServiceAssumption DEF Store!TablesAssumption
<1>5. \A p, o \in places : row(p).reference = row(o).reference => p = o
  BY DEF DB!Unambiguous, DB!RowAt
<1> HIDE DEF current, places
<1>6. \A p \in places : LET r == Store!Normalized(source, row(p)) IN
         /\ r.source = source /\ r.reference \in References /\ r.cancelled \in BOOLEAN
         /\ r.bucket \in Buckets /\ r.time \in Times /\ r.quantity \in Quantities
         /\ r.reference = row(p).reference
  <2> TAKE p \in places
  <2>1. row(p) \in [reference : References, status : Store!RecordStatus, bucket : Buckets,
                    time : Times, quantity : Quantities, price : Int, amount : Int]
    BY <1>2, <1>4
  <2> HIDE DEF row
  <2> QED
    BY <2>1 DEF Store!Normalized
<1>7. Runs!IsSide(DB(files, <<>>)!Side(source, period), source)
  <2> HIDE DEF row
  <2> QED
    BY <1>3, <1>5, <1>6 DEF Runs!IsSide
<1>8. ASSUME NEW r \in DB(files, <<>>)!Side(source, period)
      PROVE  DB(files, <<>>)!CurrentFile(source, period) \in current
  <2>1. \E b : b \in current
    BY <1>2, <1>3
  <2> QED
    BY <2>1 DEF DB!CurrentFile, current
<1> QED
  BY <1>1, <1>7, <1>8

LEMMA ItemsOfRead ==
    ASSUME NEW files, NEW in, Runs!IsInput(in), NEW period, NEW item
    PROVE  item \in DB(files, <<>>)!RecordItems(Runs!MatchResult(in), period) <=>
              \E r \in in.left \cup in.right : \E state :
                 /\ Runs!Ends(in, r, state)
                 /\ item = Store!Item(r.source, DB(files, <<>>)!CurrentFile(r.source, period),
                                      r.reference, state)
<1> DEFINE written(r, state) ==
              Store!Item(r.source, DB(files, <<>>)!CurrentFile(r.source, period), r.reference, state)
           result == Runs!MatchResult(in)
<1>1. /\ result.manual \cup result.reference = Runs!Pairs(in)
      /\ result.suggested = Runs!Suggested(in) /\ result.unmatched = Runs!Unmatched(in)
      /\ result.accepted_unmatched = Runs!AcceptedUnmatched(in)
      /\ result.status_disagreements = Runs!StatusDisagreements(in)
      /\ result.excluded = Runs!Cancelled(in.left) \cup Runs!Cancelled(in.right)
  BY DEF Runs!MatchResult, Runs!Pairs
<1>2. item \in DB(files, <<>>)!RecordItems(result, period) <=>
         \/ \E r \in Runs!Cancelled(in.left) \cup Runs!Cancelled(in.right) : item = written(r, "excluded")
         \/ \E r \in Runs!StatusDisagreements(in) : item = written(r, "status_disagreement")
         \/ \E r \in Runs!AcceptedUnmatched(in) : item = written(r, "accepted_unmatched")
         \/ \E r \in Runs!Unmatched(in) : item = written(r, "unmatched")
         \/ \E r \in Runs!Suggested(in) : item = written(r, "suggested")
         \/ \E p \in Runs!Pairs(in) : \E r \in {p[1], p[2]} :
               item = written(r, Runs!Verdict(Runs!FieldDiffs(p[1], p[2])))
  <2> HIDE DEF result
  <2>1. item \in DB(files, <<>>)!RecordItems(result, period) <=>
         \/ \E r \in result.excluded : item = written(r, "excluded")
         \/ \E r \in result.status_disagreements : item = written(r, "status_disagreement")
         \/ \E r \in result.accepted_unmatched : item = written(r, "accepted_unmatched")
         \/ \E r \in result.unmatched : item = written(r, "unmatched")
         \/ \E r \in result.suggested : item = written(r, "suggested")
         \/ \E p \in result.manual \cup result.reference : \E r \in {p[1], p[2]} :
               item = written(r, Runs!Verdict(Runs!FieldDiffs(p[1], p[2])))
    BY SameVerdict DEF DB!RecordItems, DB!Item, Store!Item
  <2> HIDE DEF written
  <2> QED
    BY <1>1, <2>1
<1> HIDE DEF written, result
<1>3. item \in DB(files, <<>>)!RecordItems(result, period) <=>
         \E r, state : Runs!Ends(in, r, state) /\ item = written(r, state)
  BY <1>2 DEF Runs!Ends
<1> QED
  BY <1>3, RunsAssumptions, Runs!EndsInPlay DEF written, result

\* What a run is to match is the input of a run.
LEMMA ReadIsInput ==
    ASSUME TablesTyped, NEW q \in Requests, Kind(q) = "run", NEW has,
           has.read \subseteq DOMAIN file_batch, ~Refused(Asked[q], AsRead(has.read)),
           Runs!AreDecisions(has.prior)
    PROVE  /\ Runs!IsInput(ReadInput(q, has))
           /\ LET files == AsRead(has.read)
                  in    == ReadInput(q, has)
              IN  /\ in.leftSource = Asked[q].left /\ in.rightSource = Asked[q].right
                  /\ in.left = DB(files, <<>>)!Side(Asked[q].left, Asked[q].period)
                  /\ in.right = DB(files, <<>>)!Side(Asked[q].right, Asked[q].period)
                  /\ in.prior = has.prior
                  /\ \A r \in in.left \cup in.right :
                        /\ DB(files, <<>>)!CurrentFile(r.source, Asked[q].period) \in DOMAIN files
                        /\ files[DB(files, <<>>)!CurrentFile(r.source, Asked[q].period)].source = r.source
<1> DEFINE L == Asked[q].left
           R == Asked[q].right
           period == Asked[q].period
           files == AsRead(has.read)
           in == ReadInput(q, has)
<1>1. /\ in.leftSource = L /\ in.rightSource = R
      /\ in.left = DB(files, <<>>)!Side(L, period) /\ in.right = DB(files, <<>>)!Side(R, period)
      /\ in.prior = has.prior
  BY DEF ReadInput, DB!RunInput
<1>2. L \in Sources /\ R \in Sources /\ L # R
  <2>1. <<L, R>> \in SourcePairs
    BY AskedAssumption DEF Kind
  <2> QED
    BY <2>1, ServiceAssumption DEF Store!SourcePairsAssumption
<1>3. \A b \in DOMAIN files : files[b] \in Store!Files!FileBatch
  <2>1. ASSUME NEW batch \in Store!Files!FileBatch
        PROVE  [batch EXCEPT !.superseded_by = None] \in Store!Files!FileBatch
    BY DEF Store!Files!FileBatch, None
  <2> QED
    BY <2>1 DEF AsRead, TablesTyped
<1>4. DB(files, <<>>)!Unambiguous(L, period) /\ DB(files, <<>>)!Unambiguous(R, period)
  BY DEF Refused
<1> HIDE DEF files, in, L, R, period
<1>5. ASSUME NEW source \in {L, R}
      PROVE  /\ Runs!IsSide(DB(files, <<>>)!Side(source, period), source)
             /\ \A r \in DB(files, <<>>)!Side(source, period) :
                   /\ DB(files, <<>>)!CurrentFile(source, period) \in DOMAIN files
                   /\ files[DB(files, <<>>)!CurrentFile(source, period)].source = source
  BY <1>3, <1>4, <1>5, SidesRead
<1>6. Runs!IsInput(in)
  BY <1>1, <1>2, <1>5 DEF Runs!IsInput
<1>7. \A r \in in.left : r.source = L
  BY <1>1, <1>5 DEF Runs!IsSide
<1>8. \A r \in in.right : r.source = R
  BY <1>1, <1>5 DEF Runs!IsSide
<1>9. \A r \in in.left \cup in.right :
         /\ DB(files, <<>>)!CurrentFile(r.source, period) \in DOMAIN files
         /\ files[DB(files, <<>>)!CurrentFile(r.source, period)].source = r.source
  BY <1>1, <1>5, <1>7, <1>8
<1> QED
  BY <1>1, <1>6, <1>9 DEF files, in, L, R, period

LEMMA ReadItemsOnce ==
    ASSUME NEW files, NEW in, Runs!IsInput(in), NEW period,
           \A r \in in.left \cup in.right :
              files[DB(files, <<>>)!CurrentFile(r.source, period)].source = r.source
    PROVE  OneState(DB(files, <<>>)!RecordItems(Runs!MatchResult(in), period))
<1> DEFINE items == DB(files, <<>>)!RecordItems(Runs!MatchResult(in), period)
           file(r) == DB(files, <<>>)!CurrentFile(r.source, period)
<1>1. ASSUME NEW i \in items, NEW j \in items, i.batch = j.batch, i.reference = j.reference
      PROVE  i = j
  <2>a. PICK r \in in.left \cup in.right :
           \E s : Runs!Ends(in, r, s) /\ i = Store!Item(r.source, file(r), r.reference, s)
    BY ItemsOfRead
  <2>b. PICK o \in in.left \cup in.right :
           \E t : Runs!Ends(in, o, t) /\ j = Store!Item(o.source, file(o), o.reference, t)
    BY ItemsOfRead
  <2>1. PICK s : Runs!Ends(in, r, s) /\ i = Store!Item(r.source, file(r), r.reference, s)
    BY <2>a
  <2>2. PICK t : Runs!Ends(in, o, t) /\ j = Store!Item(o.source, file(o), o.reference, t)
    BY <2>b
  <2>3. file(r) = file(o) /\ r.reference = o.reference
    BY <1>1, <2>1, <2>2 DEF Store!Item
  <2>4. r.source = o.source
    BY <2>3
  <2> HIDE DEF file
  <2>5. r = o
    <3>1. Runs!Key(r) = Runs!Key(o)
      BY <2>3, <2>4 DEF Runs!Key
    <3> QED
      BY <3>1, RunsAssumptions, Runs!KeysOfSides
  <2>6. s = t
    BY <2>1, <2>2, <2>5, RunsAssumptions, Runs!EndsOnce
  <2> QED
    BY <2>1, <2>2, <2>5, <2>6
<1> QED
  BY <1>1 DEF OneState

----------------------------------------------------------------------------
(* What a request has in hand stays so.                                    *)

LEMMA KeepsHand ==
    ASSUME HandInv, IdInv', tables' = tables, NEW q \in Requests,
           NEW step, NEW after, NEW locks, NEW has, Becomes(q, step, after, locks, has),
           Holds(q, step, has)
    PROVE  HandInv'
<1>1. file_batch' = file_batch /\ resolution' = resolution /\ run' = run
  BY DEF tables
<1>2. FilesStay
  BY <1>1 DEF FilesStay
<1>3. ASSUME NEW p \in Requests
      PROVE  Holds(p, request[p].at, request[p].has)'
  <2>3. PICK s, h : s = request'[p].at /\ h = request'[p].has
    OBVIOUS
  <2>1. Holds(p, s, h)
    BY <2>3 DEF Becomes, HandInv
  <2>2. \A s1, h1 : Holds(p, s1, h1) => Holds(p, s1, h1)'
    BY <1>2, HoldsStay
  <2>4. Holds(p, s, h)'
    BY <2>1, <2>2, <2>3
  <2> QED
    BY <2>3, <2>4 DEF Holds, UploadHolds, RunHolds, Kind, Refused
<1>4. TablesTyped' /\ OneStatePerRecord'
  BY <1>1 DEF HandInv, TablesTyped, OneStatePerRecord, IsSound
<1> QED
  BY <1>3, <1>4 DEF HandInv

LEMMA TypedVersions == ASSUME HandInv PROVE Versioned
<1> SUFFICES ASSUME NEW b \in DOMAIN file_batch
             PROVE  /\ b \in Nat \ {None}
                    /\ file_batch[b].period \in Nat \X Nat
                    /\ file_batch[b].version \in Nat \ {0}
  BY DEF Versioned
<1>1. b \in Nat \ {None}
  BY DEF HandInv, IdInv, Bounded, TablesTyped
<1>2. file_batch[b] \in Store!Files!FileBatch
  BY DEF HandInv, TablesTyped
<1> QED
  BY <1>1, <1>2, PeriodsAssumption DEF Store!Files!FileBatch

LEMMA OtherHand ==
    ASSUME HandInv, IdInv', NEW q \in Requests,
           Kind(q) # "run" /\ (Reads(q) \/ Wrote(q) \/ Passes(q) \/ Answer(q))
    PROVE  HandInv'
<1>h. /\ Shaped /\ Fits(q, request[q].at)
      /\ UploadHolds(q, request[q].at, request[q].has)
  BY DEF HandInv, IdInv, DigestInv, IndInv, Holds
<1>1. \A step, has : RunHolds(q, step, has)
  BY DEF RunHolds
<1>2. CASE Reads(q)
  <2>1. PICK step, has :
           /\ <<request[q].at, step>> \in ReadingSteps
           /\ request[q].at = "answered" => has = request[q].has
           /\ request[q].at = "previous" =>
                 \E read \in Readings(Asked[q].source, Asked[q].period) :
                    has.previous = Max(read \cup {None})
           /\ GoesOn(q, step, has)
    BY <1>2 DEF Reads
  <2>2. Becomes(q, step, request[q].after, request[q].locks, has) /\ tables' = tables
    BY <1>h, <2>1, GoesOnBecomes
  <2>3. CASE request[q].at = "previous"
    <3>1. Replaces(q, has.previous)
      BY <2>1, <2>3, TypedVersions, ReadingReplaces
    <3>2. has.previous \in {None} \cup DOMAIN file_batch
      BY <3>1 DEF Replaces, Store!Files!CurrentBatch
    <3> QED
      BY <1>1, <2>2, <3>2, KeepsHand DEF Holds, UploadHolds
  <2>4. CASE request[q].at = "answered"
    <3>1. UploadHolds(q, step, has)
      BY <1>h, <2>1, <2>4 DEF UploadHolds, Numbered
    <3> QED
      BY <1>1, <2>2, <3>1, KeepsHand DEF Holds
  <2>5. CASE request[q].at \notin {"previous", "answered"}
    <3>1. step \notin {"insert"} \cup Numbered
      BY <2>1, <2>5 DEF ReadingSteps, Numbered
    <3> QED
      BY <1>1, <2>2, <3>1, KeepsHand DEF Holds, UploadHolds
  <2> QED
    BY <2>3, <2>4, <2>5
<1>3. CASE Wrote(q)
  <2>1. PICK step, has :
           /\ <<request[q].at, step>> \in WritingSteps(q)
           /\ request[q].at \in {"insert", "mark"} => has.previous = request[q].has.previous
           /\ Writing(q, step, has)
    BY <1>3 DEF Wrote
  <2>2. /\ Becomes(q, step, request[q].after, request[q].locks \cup Needs(q), has)
        /\ tables' = tables
    BY <1>h, <2>1, WritingBecomes
  <2>3. UploadHolds(q, step, has)
    <3>1. SUFFICES ASSUME Kind(q) = "upload" PROVE has.previous \in {None} \cup DOMAIN file_batch
      BY DEF UploadHolds
    <3>2. request[q].at \in {"insert", "mark"}
      BY <1>h, <2>1, <3>1 DEF Fits, WritingSteps
    <3> QED
      BY <1>h, <2>1, <3>1, <3>2 DEF UploadHolds, Numbered
  <2> HIDE DEF HandInv
  <2> QED
    BY <1>1, <2>2, <2>3, KeepsHand DEF Holds
<1>4. CASE Passes(q)
  <2>1. /\ Becomes(q, "previous", request[q].after, request[q].locks, request[q].has)
        /\ tables' = tables
    BY <1>h, <1>4, PassesBecomes DEF Passes
  <2>2. UploadHolds(q, "previous", request[q].has)
    BY DEF UploadHolds, Numbered
  <2> QED
    BY <1>1, <2>1, <2>2, KeepsHand DEF Holds
<1>5. CASE Answer(q)
  <2>1. /\ Becomes(q, "answered", request[q].after, request[q].locks, request[q].has)
        /\ tables' = tables /\ request[q].at = "answer"
    BY <1>h, <1>5, AnswerBecomes DEF Answer, At
  <2>2. UploadHolds(q, "answered", request[q].has)
    BY <1>h, <2>1 DEF UploadHolds, Numbered
  <2> QED
    BY <1>1, <2>1, <2>2, KeepsHand DEF Holds
<1> QED
  BY <1>2, <1>3, <1>4, <1>5

LEMMA BeginStopsHand ==
    ASSUME HandInv, IdInv', NEW q \in Requests, Begin(q) \/ Stops(q)
    PROVE  HandInv'
<1>h. Shaped
  BY DEF HandInv, IdInv, DigestInv, IndInv
<1>1. CASE Begin(q)
  <2>1. /\ Becomes(q, FirstStep[Kind(q)], Ended, request[q].locks, request[q].has)
        /\ tables' = tables
    BY <1>h, <1>1, BeginBecomes
  <2>2. \A has : Holds(q, FirstStep[Kind(q)], has)
    BY FirstSteps DEF Holds, UploadHolds, RunHolds, Numbered
  <2> QED
    BY <2>1, <2>2, KeepsHand
<1>2. CASE Stops(q)
  <2>1. PICK answer : Ends(q, answer)
    BY <1>2 DEF Stops
  <2>2. PICK has : Becomes(q, "ended", request[q].after, {}, has)
    BY <1>h, <2>1, FinishedBecomes DEF Ends
  <2>3. Holds(q, "ended", has) /\ tables' = tables
    BY <2>1 DEF Holds, UploadHolds, RunHolds, Numbered, Ends
  <2> QED
    BY <2>2, <2>3, KeepsHand
<1> QED
  BY <1>1, <1>2

\* A reading of the current delivery is of stored ones.
LEMMA ReadingStored ==
    ASSUME NEW source, NEW period, NEW read \in Readings(source, period)
    PROVE  read \subseteq DOMAIN file_batch
  BY DEF Readings, Store!Files!CurrentBatch

LEMMA PriorTyped ==
    ASSUME TablesTyped, DOMAIN resolution \subseteq Nat, NEW L, NEW R, NEW period
    PROVE  Runs!AreDecisions(DB(<<>>, resolution)!LoadPriorResolutions(L, R, period))
<1> DEFINE prior == DB(<<>>, resolution)!LoadPriorResolutions(L, R, period)
<1>1. DOMAIN prior \subseteq DOMAIN resolution
  BY DEF DB!LoadPriorResolutions, DB!Decisions!PriorResolutions
<1>2. \A i \in DOMAIN prior : prior[i] = Store!Decisions!Oriented(resolution[i], R)
  BY DEF DB!LoadPriorResolutions, DB!Decisions!PriorResolutions, DB!Decisions!Oriented,
         Store!Decisions!Oriented
<1>3. ASSUME NEW i \in DOMAIN prior
      PROVE  /\ prior[i].kind \in {"manual_match", "accept_unmatched", "reject_suggestion"}
             /\ prior[i].left \in Runs!RecordKey
             /\ IF prior[i].kind = "accept_unmatched" THEN prior[i].right = NoRecord
                ELSE prior[i].right \in Runs!RecordKey
  <2>1. IsSound(resolution[i])
    BY <1>1 DEF TablesTyped
  <2>2. /\ resolution[i].kind \in {"manual_match", "accept_unmatched", "reject_suggestion"}
        /\ resolution[i].left \in Identity /\ resolution[i].right \in Identity \cup {NoRecord}
        /\ resolution[i].kind = "accept_unmatched" <=> resolution[i].right = NoRecord
    BY <2>1 DEF IsSound, Store!Decisions!Resolution, Store!Decisions!Kind
  <2>3. Identity \subseteq Runs!RecordKey
    BY RunsAssumptions DEF Runs!TablesAssumption
  <2>4. \/ /\ resolution[i].right # NoRecord
           /\ prior[i] = [kind |-> resolution[i].kind, left |-> resolution[i].right,
                          right |-> resolution[i].left]
        \/ prior[i] = [kind |-> resolution[i].kind, left |-> resolution[i].left,
                       right |-> resolution[i].right]
    BY <1>2 DEF Store!Decisions!Oriented
  <2> HIDE DEF prior
  <2> QED
    BY <2>2, <2>3, <2>4
<1> HIDE DEF prior
<1>4. Runs!AreDecisions(prior)
  BY <1>1, <1>3 DEF Runs!AreDecisions
<1> QED
  BY <1>4 DEF prior

\* The items a run adds at the end say one thing of each record, too.
LEMMA WithdrawnOneState ==
    ASSUME NEW files, NEW L, NEW R, NEW period
    PROVE  OneState(DB(files, <<>>)!WithdrawnItems(L, period) \cup
                    DB(files, <<>>)!WithdrawnItems(R, period))
<1> DEFINE items(source) == DB(files, <<>>)!WithdrawnItems(source, period)
<1>1. ASSUME NEW source, NEW item \in items(source)
      PROVE  item = Store!Item(files[item.batch].source, item.batch, item.reference, "withdrawn")
  <2>1. PICK reference, batch :
           /\ batch \in DB(files, <<>>)!LatestSuperseded(source, period, reference)
           /\ item = Store!Item(source, batch, reference, "withdrawn")
    BY DEF DB!WithdrawnItems, DB!Item, Store!Item
  <2>2. files[batch].source = source
    BY <2>1 DEF DB!LatestSuperseded, DB!Files!SupersededBatches, DB!Files!SamePeriod
  <2> QED
    BY <2>1, <2>2 DEF Store!Item
<1> HIDE DEF items
<1>2. \A item \in items(L) \cup items(R) :
         item = Store!Item(files[item.batch].source, item.batch, item.reference, "withdrawn")
  BY <1>1
<1>3. OneState(items(L) \cup items(R))
  BY <1>2 DEF OneState
<1> QED
  BY <1>3 DEF items

LEMMA RunHand ==
    ASSUME HandInv, IdInv', NEW q \in Requests, Kind(q) = "run", tables' = tables,
           NEW step, NEW locks, NEW has, Becomes(q, step, request[q].after, locks, has),
           InHand(has), RunMoves(q, step, has)
    PROVE  HandInv'
<1> DEFINE had == request[q].has
           at  == request[q].at
<1>h. /\ TablesTyped /\ DOMAIN resolution \subseteq Nat
      /\ RunHolds(q, at, had)
  BY DEF HandInv, IdInv, Bounded, Holds
<1>f. Fits(q, at)
  BY DEF HandInv, IdInv, DigestInv, IndInv
<1>u. UploadHolds(q, step, has)
  BY DEF UploadHolds
<1>1. SUFFICES RunHolds(q, step, has)
  BY <1>u, KeepsHand DEF Holds
<1> USE DEF At
<1>2. CASE ReadsLeft(q, step, has)
  BY <1>2, ReadingStored DEF ReadsLeft, RunHolds, Numbered
<1>3. CASE ReadsRight(q, step, has)
  <2>1. has.read \subseteq DOMAIN file_batch
    BY <1>h, <1>3, ReadingStored DEF ReadsRight, RunHolds
  <2> QED
    BY <1>3, <2>1 DEF ReadsRight, RunHolds, Numbered
<1>4. CASE ReadsDecisions(q, step, has)
  <2>1. has.read = had.read
    BY <1>4 DEF ReadsDecisions, Only, HandFields
  <2>2. Runs!AreDecisions(has.prior)
    BY <1>h, <1>4, PriorTyped DEF ReadsDecisions
  <2>3. had.read \subseteq DOMAIN file_batch /\ ~Refused(Asked[q], AsRead(had.read))
    BY <1>h, <1>4 DEF ReadsDecisions, RunHolds
  <2> QED
    BY <1>4, <2>1, <2>2, <2>3 DEF ReadsDecisions, RunHolds, Numbered
<1>5. CASE WritesPairs(q, step, has)
  <2> DEFINE files == AsRead(had.read)
             in == ReadInput(q, had)
  <2>1. /\ had.read \subseteq DOMAIN file_batch /\ ~Refused(Asked[q], AsRead(had.read))
        /\ Runs!AreDecisions(had.prior)
    BY <1>h, <1>5 DEF WritesPairs, RunHolds
  <2>2. /\ Runs!IsInput(in)
        /\ \A r \in in.left \cup in.right :
              files[DB(files, <<>>)!CurrentFile(r.source, Asked[q].period)].source = r.source
    BY <1>h, <2>1, ReadIsInput
  <2>3. has.row.items = DB(files, <<>>)!RecordItems(Runs!MatchResult(in), Asked[q].period)
    BY <1>5 DEF WritesPairs
  <2> HIDE DEF files, in
  <2>4. OneState(has.row.items)
    BY <2>2, <2>3, ReadItemsOnce
  <2> QED
    BY <1>5, <2>4 DEF WritesPairs, RunHolds, Numbered
<1>6. CASE FindsNone(q, step, has) \/ FindsOne(q, step, has) \/ StampsOne(q, step, has)
  <2>1. has.row = had.row
    BY <1>6 DEF FindsNone, FindsOne, StampsOne, Only, HandFields
  <2>2. at \in {"find", "stamp"} /\ step \in {"find", "stamp", "items"}
    BY <1>6 DEF FindsNone, FindsOne, StampsOne
  <2> QED
    BY <1>h, <2>1, <2>2 DEF RunHolds
<1>7. CASE WritesItems(q, step, has)
  <2>1. PICK files, withdrawn, rejected :
           /\ withdrawn = DB(files, <<>>)!WithdrawnItems(Asked[q].left, Asked[q].period) \cup
                          DB(files, <<>>)!WithdrawnItems(Asked[q].right, Asked[q].period)
           /\ ~ListedTwice(had.row.items, withdrawn)
           /\ has.row = [left      |-> Asked[q].left,
                         right     |-> Asked[q].right,
                         period    |-> Asked[q].period,
                         files     |-> had.row.files,
                         decisions |-> had.row.decisions,
                         pairs     |-> had.row.pairs,
                         items     |-> had.row.items \cup withdrawn,
                         counts    |-> Store!Counts(had.row.items \cup withdrawn, rejected)]
    BY <1>7 DEF WritesItems
  <2>2. has.row.items = had.row.items \cup withdrawn
    BY <2>1
  <2>3. OneState(had.row.items) /\ OneState(withdrawn)
    BY <1>h, <1>7, <2>1, WithdrawnOneState DEF WritesItems, RunHolds
  <2>4. OneState(has.row.items)
    BY <2>1, <2>2, <2>3 DEF OneState, ListedTwice
  <2> QED
    BY <1>7, <2>4 DEF WritesItems, RunHolds, Numbered
<1>8. CASE Finishes(q, step, has)
  <2>1. has.row = had.row
    BY <1>8 DEF Finishes, Only, HandFields
  <2>2. at \in Numbered /\ step \in Numbered /\ step \notin {"right", "decisions", "pairs"}
    BY <1>8 DEF Finishes, Numbered
  <2> QED
    BY <1>h, <2>1, <2>2 DEF RunHolds
<1> QED
  BY <1>2, <1>3, <1>4, <1>5, <1>6, <1>7, <1>8 DEF RunMoves

----------------------------------------------------------------------------
(* What a commit leaves in the tables.                                     *)

LEMMA CommitFiles ==
    ASSUME HandInv, NEW q \in Requests, Commit(q), Kind(q) = "upload"
    PROVE  /\ None \notin DOMAIN file_batch'
           /\ file_batch' = [b \in DOMAIN file_batch' |-> file_batch'[b]]
           /\ \A b \in DOMAIN file_batch' : file_batch'[b] \in Store!Files!FileBatch
           /\ FilesStay
<1> DEFINE id       == request[q].has.id
           previous == request[q].has.previous
           new      == Store!Files!NewBatch(Asked[q].source, Asked[q].period, Asked[q].content, previous)
<1>1. id \in Nat \ {None} /\ id \notin DOMAIN file_batch
  BY CommittedId DEF HandInv, Rows
<1>2. previous \in {None} \cup DOMAIN file_batch
  BY DEF HandInv, Holds, UploadHolds, Commit, At, Numbered
<1>3. /\ Asked[q].source \in Sources /\ Asked[q].content \in Contents /\ Asked[q].period \in Periods
  BY AskedAssumption DEF Kind
<1>4. new \in Store!Files!FileBatch
  <2>1. previous # None => file_batch[previous].version \in Nat \ {0}
    BY <1>2, TypedVersions DEF Versioned
  <2>2. IF previous = None THEN 1 \in Nat \ {0} ELSE file_batch[previous].version + 1 \in Nat \ {0}
    BY <2>1
  <2>3. Parsed[Asked[q].source][Asked[q].content] \in Store!Files!ParsedFile
    BY <1>3, ServiceAssumption DEF Store!TablesAssumption
  <2>4. /\ Parsed[Asked[q].source][Asked[q].content].records \in Seq(RecordRow)
        /\ Parsed[Asked[q].source][Asked[q].content].errors \in Nat
    BY <2>3 DEF Store!Files!ParsedFile
  <2> HIDE DEF previous
  <2> QED
    BY <1>3, <2>2, <2>4 DEF Store!Files!NewBatch, Store!Files!FileBatch, Store!Files!None, None
<1>5. file_batch' = FilesAfter(q)
  BY DEF Commit
<1> HIDE DEF new
<1>6. FilesAfter(q) =
         [b \in DOMAIN file_batch \cup {id} |->
             IF b = id THEN new
             ELSE IF b = previous THEN [file_batch[b] EXCEPT !.superseded_by = id]
             ELSE file_batch[b]]
  BY DEF FilesAfter, new
<1> HIDE DEF id, previous
<1>7. DOMAIN file_batch' = DOMAIN file_batch \cup {id}
  BY <1>5, <1>6
<1>8. ASSUME NEW batch \in Store!Files!FileBatch
      PROVE  LET marked == [batch EXCEPT !.superseded_by = id] IN
             /\ marked \in Store!Files!FileBatch
             /\ [marked EXCEPT !.superseded_by = None] = [batch EXCEPT !.superseded_by = None]
  BY <1>1 DEF Store!Files!FileBatch
<1>9. ASSUME NEW b \in DOMAIN file_batch
      PROVE  /\ file_batch'[b] \in Store!Files!FileBatch
             /\ [file_batch'[b] EXCEPT !.superseded_by = None] = [file_batch[b] EXCEPT !.superseded_by = None]
  <2>1. file_batch[b] \in Store!Files!FileBatch /\ b # id
    BY <1>1 DEF HandInv, TablesTyped
  <2>2. file_batch'[b] \in {file_batch[b], [file_batch[b] EXCEPT !.superseded_by = id]}
    BY <1>5, <1>6, <2>1
  <2> QED
    BY <1>8, <2>1, <2>2
<1>10. file_batch'[id] = new
  BY <1>5, <1>6
<1>11. file_batch' = [b \in DOMAIN file_batch' |-> file_batch'[b]]
  BY <1>5, <1>6
<1>12. None \notin DOMAIN file_batch'
  BY <1>1, <1>7 DEF HandInv, TablesTyped
<1>13. FilesStay
  BY <1>7, <1>9 DEF FilesStay
<1> QED
  BY <1>4, <1>7, <1>9, <1>10, <1>11, <1>12, <1>13

LEMMA NewIsSound ==
    ASSUME NEW q \in Requests, Kind(q) = "decision"
    PROVE  IsSound(NewDecision(q))
<1>1. /\ Asked[q].left \in Identity
      /\ \/ /\ Asked[q].decision = "accept_unmatched" /\ Asked[q].right = NoRecord
         \/ /\ Asked[q].decision \in {"manual_match", "reject_suggestion"}
            /\ Asked[q].right \in Identity \ {Asked[q].left}
  BY AskedAssumption DEF Kind
<1>2. NoRecord \notin Identity
  BY ServiceAssumption DEF Store!TablesAssumption, Store!NoRecordAssumption
<1> QED
  BY <1>1, <1>2 DEF NewDecision, Store!Decisions!Row, IsSound, Store!Decisions!Resolution,
     Store!Decisions!Kind, Store!Decisions!Stamp

LEMMA CommitDecisions ==
    ASSUME HandInv, NEW q \in Requests, Commit(q), Kind(q) \in {"decision", "run"}
    PROVE  /\ resolution' = [i \in DOMAIN resolution' |-> resolution'[i]]
           /\ \A i \in DOMAIN resolution' : IsSound(resolution'[i])
<1> DEFINE id == request[q].has.id
<1>1. resolution' = DecisionsAfter(q)
  BY DEF Commit
<1>2. /\ \A i \in DOMAIN resolution : IsDecision(resolution[i]) /\ IsSound(resolution[i])
      /\ Kind(q) = "run" => id = None
  BY CommittedId DEF HandInv, IdInv, TablesTyped
<1>3. ASSUME NEW d, IsSound(d), NEW mark \in {"withdrawn", "superseded"}
      PROVE  IsSound([d EXCEPT !.stamp = mark])
  BY <1>3 DEF IsSound, Store!Decisions!Resolution, Store!Decisions!Stamp
<1>4. /\ DOMAIN DecisionsAfter(q) = DOMAIN resolution \cup ({id} \ {None})
      /\ id # None => DecisionsAfter(q)[id] = NewDecision(q)
      /\ \A i \in DOMAIN resolution \ {id} :
            /\ i \notin request[q].has.stamped => DecisionsAfter(q)[i] = resolution[i]
            /\ i \in request[q].has.stamped =>
                  \E mark \in {"withdrawn", "superseded"} :
                     DecisionsAfter(q)[i] = [resolution[i] EXCEPT !.stamp = mark]
  BY <1>2, DecisionsAfterRows
<1>5. id # None => IsSound(NewDecision(q))
  BY <1>2, NewIsSound
<1>6. ASSUME NEW i \in DOMAIN DecisionsAfter(q)
      PROVE  IsSound(DecisionsAfter(q)[i])
  <2>1. CASE i = id /\ id # None
    BY <1>4, <1>5, <2>1
  <2>2. CASE i \in DOMAIN resolution \ {id}
    <3>1. IsSound(resolution[i])
      BY <1>2, <2>2
    <3>2. CASE i \notin request[q].has.stamped
      BY <1>4, <2>2, <3>1, <3>2
    <3>3. CASE i \in request[q].has.stamped
      <4>1. PICK mark \in {"withdrawn", "superseded"} :
               DecisionsAfter(q)[i] = [resolution[i] EXCEPT !.stamp = mark]
        BY <1>4, <2>2, <3>3
      <4>2. IsSound([resolution[i] EXCEPT !.stamp = mark])
        BY <1>3, <3>1
      <4> QED
        BY <4>1, <4>2
    <3> QED
      BY <3>2, <3>3
  <2>3. None \notin DOMAIN resolution
    BY DEF HandInv, IdInv
  <2> QED
    BY <1>4, <2>1, <2>2, <2>3
<1>7. DecisionsAfter(q) = [i \in DOMAIN DecisionsAfter(q) |-> DecisionsAfter(q)[i]]
  BY DEF DecisionsAfter
<1> QED
  BY <1>1, <1>6, <1>7

LEMMA CommitHand ==
    ASSUME HandInv, IdInv', NEW q \in Requests, Commit(q)
    PROVE  HandInv' /\ FilesStay
<1>k. Kind(q) \in {"upload", "decision", "run"}
  BY AskedAssumption DEF Kind
<1>1. PICK has : Becomes(q, "ended", request[q].after, {}, has)
  BY CommitBecomes DEF HandInv, IdInv, DigestInv, IndInv
<1>2. FilesStay
  <2>1. CASE Kind(q) = "upload"
    BY <2>1, CommitFiles
  <2>2. CASE Kind(q) # "upload"
    BY <2>2 DEF Commit, FilesStay
  <2> QED
    BY <2>1, <2>2
<1>3. ASSUME NEW p \in Requests
      PROVE  Holds(p, request[p].at, request[p].has)'
  <2>1. PICK s, h : s = request'[p].at /\ h = request'[p].has
    OBVIOUS
  <2>2. Holds(p, s, h)
    <3>1. CASE p = q
      BY <1>1, <2>1, <3>1 DEF Becomes, Holds, UploadHolds, RunHolds, Numbered
    <3>2. CASE p # q
      BY <1>1, <2>1, <3>2 DEF Becomes, HandInv
    <3> QED
      BY <3>1, <3>2
  <2>3. Holds(p, s, h)'
    BY <1>2, <2>2, HoldsStay
  <2> QED
    BY <2>1, <2>3 DEF Holds, UploadHolds, RunHolds, Kind, Refused
<1>4. PICK S : run \in Seq(S)
  BY DEF HandInv, TablesTyped
<1>5. (\E T : run' \in Seq(T)) /\ OneStatePerRecord'
  <2>1. CASE Kind(q) # "run"
    <3>1. run' = run
      BY <2>1 DEF Commit
    <3> QED
      BY <1>4, <3>1 DEF HandInv, OneStatePerRecord
  <2>2. CASE Kind(q) = "run"
    <3>1. PICK row : row = request[q].has.row
      OBVIOUS
    <3>2. run' = Append(run, row)
      BY <2>2, <3>1 DEF Commit
    <3>3. OneState(row.items)
      BY <2>2, <3>1 DEF HandInv, Holds, RunHolds, Commit, At, Numbered
    <3>4. run \in Seq(S \cup {row})
      BY <1>4
    <3>5. run' \in Seq(S \cup {row})
      BY <3>2, <3>4
    <3>6. \A k \in DOMAIN run' : run'[k] = row \/ (k \in DOMAIN run /\ run'[k] = run[k])
      BY <3>2, <3>4
    <3>7. OneStatePerRecord
      BY DEF HandInv
    <3> QED
      BY <3>3, <3>5, <3>6, <3>7 DEF OneStatePerRecord, OneState
  <2> QED
    BY <2>1, <2>2
<1>6. TablesTyped'
  <2>1. TablesTyped
    BY DEF HandInv
  <2>2. CASE Kind(q) = "upload"
    <3>1. resolution' = resolution
      BY <2>2 DEF Commit
    <3> QED
      BY <1>5, <2>1, <2>2, <3>1, CommitFiles DEF TablesTyped, IsSound
  <2>3. CASE Kind(q) \in {"decision", "run"}
    <3>1. file_batch' = file_batch
      BY <2>3 DEF Commit
    <3> QED
      BY <1>5, <2>1, <2>3, <3>1, CommitDecisions DEF TablesTyped, IsSound
  <2> QED
    BY <1>k, <2>2, <2>3
<1> QED
  BY <1>2, <1>3, <1>5, <1>6 DEF HandInv

LEMMA RestartHand == ASSUME HandInv, IdInv', Restart PROVE HandInv'
<1>1. tables' = tables /\ request' = [p \in Requests |-> AfterRestart(p)]
  BY DEF Restart, AfterRestart
<1>2. \A p \in Requests : request'[p].at \in {"new", "ended"}
  BY <1>1, OpenSteps, FinishedRequest DEF AfterRestart
<1>3. \A p \in Requests : Holds(p, request[p].at, request[p].has)'
  BY <1>2 DEF Holds, UploadHolds, RunHolds, Numbered
<1>4. TablesTyped' /\ OneStatePerRecord'
  BY <1>1 DEF HandInv, TablesTyped, OneStatePerRecord, IsSound, tables
<1> QED
  BY <1>3, <1>4 DEF HandInv

LEMMA InitHand == ASSUME Init PROVE HandInv
<1>1. /\ file_batch = Loaded /\ resolution = Decided /\ run = <<>>
      /\ \A q \in Requests : request[q] = New
  BY DEF Init
<1>2. Loaded \in Seq(Store!Files!FileBatch) /\ Decided \in Seq(Store!Decisions!Resolution)
  BY LoadedAssumption, DecidedAssumption
<1>3. /\ \A b \in DOMAIN Loaded : b # None /\ Loaded[b] \in Store!Files!FileBatch
      /\ \A i \in DOMAIN Decided : IsSound(Decided[i])
  BY <1>2, DecidedAssumption DEF None, IsSound
<1>4. /\ Loaded = [b \in DOMAIN Loaded |-> Loaded[b]]
      /\ Decided = [i \in DOMAIN Decided |-> Decided[i]]
  BY <1>2
<1>5. run \in Seq({})
  BY <1>1
<1>6. TablesTyped
  BY <1>1, <1>3, <1>4, <1>5 DEF TablesTyped
<1>7. \A q \in Requests : Holds(q, request[q].at, request[q].has)
  BY <1>1 DEF New, Holds, UploadHolds, RunHolds, Numbered
<1>8. OneStatePerRecord
  BY <1>1 DEF OneStatePerRecord
<1> QED
  BY <1>6, <1>7, <1>8, InitIds DEF HandInv

LEMMA NextHand == ASSUME HandInv, [Next]_vars PROVE HandInv'
<1>1. IdInv' /\ IndInv
  BY NextIds DEF HandInv, IdInv, DigestInv
<1>2. CASE UNCHANGED vars
  <2>1. request' = request /\ file_batch' = file_batch /\ resolution' = resolution /\ run' = run
    BY <1>2 DEF vars, tables
  <2>2. \A q \in Requests : Holds(q, request[q].at, request[q].has)'
    BY <2>1 DEF HandInv, Holds, UploadHolds, RunHolds, Kind, Refused, AsRead
  <2>3. TablesTyped' /\ OneStatePerRecord'
    BY <2>1 DEF HandInv, TablesTyped, OneStatePerRecord, IsSound
  <2> QED
    BY <1>1, <2>2, <2>3 DEF HandInv
<1>3. CASE Restart
  BY <1>1, <1>3, RestartHand
<1>4. ASSUME NEW q \in Requests,
             \/ Begin(q) \/ Stops(q) \/ Commit(q)
             \/ Kind(q) # "run" /\ (Reads(q) \/ Wrote(q) \/ Passes(q) \/ Answer(q))
             \/ Kind(q) = "run" /\ \E step, locks, has :
                   /\ Becomes(q, step, request[q].after, locks, has)
                   /\ InHand(has) /\ tables' = tables /\ RunMoves(q, step, has)
      PROVE  HandInv'
  BY <1>1, <1>4, BeginStopsHand, CommitHand, OtherHand, RunHand
<1> QED
  BY <1>1, <1>2, <1>3, <1>4, Moves

LEMMA HandInductive == Spec => []HandInv
<1>1. Init => HandInv
  BY InitHand
<1>2. HandInv /\ [Next]_vars => HandInv'
  BY NextHand
<1> QED
  BY <1>1, <1>2, PTL DEF Spec

\* No run says two things of one stored row (TR-509), whatever files and
\* decisions commit while it reads: the sides it matches and the withdrawals
\* it adds are read at different moments, and the constraint on run and
\* record is what keeps them apart.
THEOREM RunsSayOneThing == Spec => []OneStatePerRecord
<1>1. HandInv => OneStatePerRecord
  BY DEF HandInv
<1> QED
  BY <1>1, HandInductive, PTL

----------------------------------------------------------------------------
(* Requests that overlapped go on to have overlapped.                      *)

LEMMA BegunStay ==
    ASSUME IndInv, [Next]_vars
    PROVE  Begun \subseteq Begun' /\ \A p \in Begun : request'[p].after = request[p].after
<1>h. Shaped
  BY DEF IndInv
<1>0. ASSUME NEW q \in Requests, NEW step, NEW after, NEW locks, NEW has,
             Becomes(q, step, after, locks, has), step # "new",
             q \in Begun => after = request[q].after
      PROVE  Begun \subseteq Begun' /\ \A p \in Begun : request'[p].after = request[p].after
  BY <1>0 DEF Becomes, Begun, At
<1>1. CASE UNCHANGED vars
  BY <1>1 DEF vars, Begun, At
<1>2. CASE Restart
  <2>1. request' = [p \in Requests |-> AfterRestart(p)]
    BY <1>2 DEF Restart, AfterRestart
  <2>2. \A p \in Requests : /\ request'[p].after = request[p].after
                            /\ request[p].at # "new" => request'[p].at # "new"
    BY <2>1, FinishedRequest DEF AfterRestart
  <2> QED
    BY <2>2 DEF Begun, At
<1>3. ASSUME NEW q \in Requests, Begin(q)
      PROVE  Begun \subseteq Begun' /\ \A p \in Begun : request'[p].after = request[p].after
  <2>1. Becomes(q, FirstStep[Kind(q)], Ended, request[q].locks, request[q].has)
    BY <1>h, <1>3, BeginBecomes
  <2>2. FirstStep[Kind(q)] # "new" /\ q \notin Begun
    BY <1>3, FirstSteps DEF Begin, Begun
  <2> QED
    BY <1>0, <2>1, <2>2
<1>4. ASSUME NEW q \in Requests, Stops(q) \/ Commit(q)
      PROVE  Begun \subseteq Begun' /\ \A p \in Begun : request'[p].after = request[p].after
  <2>1. \E has : Becomes(q, "ended", request[q].after, {}, has)
    BY <1>h, <1>4, FinishedBecomes, CommitBecomes DEF Stops, Ends
  <2> QED
    BY <1>0, <2>1
<1>5. ASSUME NEW q \in Requests, Reads(q) \/ Wrote(q) \/ Passes(q) \/ Answer(q)
      PROVE  Begun \subseteq Begun' /\ \A p \in Begun : request'[p].after = request[p].after
  <2>1. \E step, locks, has : /\ Becomes(q, step, request[q].after, locks, has)
                              /\ step # "new"
    <3>1. CASE Reads(q)
      <4>1. PICK step, has : <<request[q].at, step>> \in ReadingSteps /\ GoesOn(q, step, has)
        BY <3>1 DEF Reads
      <4>2. step # "new"
        BY <4>1 DEF ReadingSteps
      <4> QED
        BY <1>h, <4>1, <4>2, GoesOnBecomes
    <3>2. CASE Wrote(q)
      <4>1. PICK step, has : <<request[q].at, step>> \in WritingSteps(q) /\ Writing(q, step, has)
        BY <3>2 DEF Wrote
      <4>2. Kind(q) \in {"decision", "run"} \/ request[q].at # "stamp"
        BY DEF IndInv, Fits
      <4>3. step # "new"
        BY <4>1, <4>2 DEF WritingSteps, AfterStamps
      <4> QED
        BY <1>h, <4>1, <4>3, WritingBecomes
    <3>3. CASE Passes(q)
      BY <1>h, <3>3, PassesBecomes
    <3>4. CASE Answer(q)
      BY <1>h, <3>4, AnswerBecomes
    <3> QED
      BY <1>5, <3>1, <3>2, <3>3, <3>4
  <2> QED
    BY <1>0, <2>1
<1>6. ASSUME NEW q \in Requests, NEW step, NEW locks, NEW has,
             Becomes(q, step, request[q].after, locks, has), RunMoves(q, step, has)
      PROVE  Begun \subseteq Begun' /\ \A p \in Begun : request'[p].after = request[p].after
  <2>1. step # "new"
    BY <1>6 DEF RunMoves, ReadsLeft, ReadsRight, ReadsDecisions, WritesPairs, FindsNone, FindsOne,
       StampsOne, WritesItems, Finishes
  <2> QED
    BY <1>0, <1>6, <2>1
<1> QED
  BY <1>1, <1>2, <1>3, <1>4, <1>5, <1>6, Moves

LEMMA RacesGoOn ==
    ASSUME IndInv, [Next]_vars, NEW q \in Requests, NEW kinds
    PROVE  /\ Raced(q, kinds) => Raced(q, kinds)'
           /\ UploadsSerial' => UploadsSerial
           /\ DecisionsSerial' => DecisionsSerial
<1>1. \A p, o \in Requests : Overlap(p, o) => Overlap(p, o)'
  BY BegunStay DEF Overlap
<1> QED
  BY <1>1 DEF Raced, UploadsSerial, DecisionsSerial, Kind

\* A request that commits races every other that has begun and is not over.
LEMMA CommitOverlaps ==
    ASSUME RaceInv, NEW p \in Requests, Commit(p), NEW q \in Requests \ {p},
           request[q].at \notin {"new", "ended"}
    PROVE  Overlap(p, q) /\ Overlap(p, q)'
<1>1. p \notin Ended /\ q \notin Ended /\ {p, q} \subseteq Begun
  BY DEF Commit, At, Ended, Begun
<1>2. request[p].after \subseteq Ended /\ request[q].after \subseteq Ended
  BY DEF RaceInv
<1>3. PICK has : Becomes(p, "ended", request[p].after, {}, has)
  BY CommitBecomes DEF RaceInv, IdInv, DigestInv, IndInv
<1>4. {p, q} \subseteq Begun' /\ request'[p].after = request[p].after /\ request'[q].after = request[q].after
  BY <1>1, <1>3 DEF Becomes, Begun, At
<1> QED
  BY <1>1, <1>2, <1>4 DEF Overlap

----------------------------------------------------------------------------
(* The deliveries as the lemmas about runs need them.                      *)

LEMMA ChainsRise ==
    ASSUME HandInv, InOrderNow
    PROVE  Runs!Rising
<1> DEFINE same(i, j) ==
        Store!Files!SamePeriod(file_batch[j], file_batch[i].source, file_batch[i].period)
<1>1. SUFFICES ASSUME NEW one \in DOMAIN file_batch, NEW j \in DOMAIN file_batch,
                      one < j, same(one, j), file_batch[one].version >= file_batch[j].version
               PROVE  FALSE
  BY TypedVersions DEF Runs!Rising, Runs!Files!SamePeriod, Store!Files!SamePeriod, Versioned
<1>2. \A i \in DOMAIN file_batch : i \in Nat /\ file_batch[i].version \in Nat
  BY TypedVersions DEF Versioned
<1>3. ASSUME NEW i \in DOMAIN file_batch
      PROVE  /\ file_batch[i].superseded_by = None =>
                   \A b \in DOMAIN file_batch : same(i, b) => b <= i
             /\ file_batch[i].superseded_by # None =>
                   /\ file_batch[i].superseded_by \in DOMAIN file_batch
                   /\ file_batch[i].superseded_by > i
                   /\ same(i, file_batch[i].superseded_by)
                   /\ file_batch[file_batch[i].superseded_by].version = file_batch[i].version + 1
                   /\ \A b \in DOMAIN file_batch :
                         same(i, b) => (b <= i \/ b >= file_batch[i].superseded_by)
  BY DEF InOrderNow, Store!Files!VersionChain, Store!Files!Chained, None, Store!Files!None
<1> DEFINE S == {i \in DOMAIN file_batch :
                    i < j /\ same(i, j) /\ file_batch[i].version >= file_batch[j].version}
<1>4. S \in SUBSET Nat /\ S # {} /\ j \in Nat /\ \A i \in S : i <= j
  BY <1>1, <1>2
<1>5. PICK i \in S : \A b \in S : b <= i
  BY <1>4, Greatest
<1>6. PICK next : next = file_batch[i].superseded_by
  OBVIOUS
<1>7. \A a, b \in DOMAIN file_batch : same(i, a) /\ same(i, b) => same(a, b)
  BY DEF Store!Files!SamePeriod
<1> HIDE DEF same
<1>8. i \in DOMAIN file_batch /\ i < j /\ same(i, j) /\ file_batch[i].version >= file_batch[j].version
  OBVIOUS
<1>9. next # None
  BY <1>2, <1>3, <1>6, <1>8
<1>10. /\ next \in DOMAIN file_batch /\ next > i /\ same(i, next) /\ next <= j
       /\ file_batch[next].version = file_batch[i].version + 1
  BY <1>2, <1>3, <1>6, <1>8, <1>9
<1>11. next # j
  BY <1>2, <1>8, <1>10
<1>12. next \in S
  BY <1>2, <1>7, <1>8, <1>10, <1>11
<1> QED
  BY <1>2, <1>5, <1>10, <1>12

LEMMA FilesAsStored == ASSUME HandInv, InOrderNow PROVE Runs!FilesStored
<1>1. \E last \in Nat : DOMAIN file_batch \subseteq 0..last
  <2>1. PICK n \in Nat : \A b \in DOMAIN file_batch : b <= n
    BY DEF HandInv, IdInv, Bounded
  <2>2. DOMAIN file_batch \subseteq Nat
    BY DEF HandInv, IdInv, Bounded
  <2>3. DOMAIN file_batch \subseteq 0..n
    BY <2>1, <2>2
  <2> QED
    BY <2>3
<1>2. \A b \in DOMAIN file_batch : file_batch[b] \in Runs!Batches!FileBatch
  BY DEF HandInv, TablesTyped, Store!Files!FileBatch, Runs!Batches!FileBatch
<1>3. Runs!Batches!VersionChain
  BY DEF InOrderNow, Store!Files!VersionChain, Store!Files!Chained, Store!Files!None,
     Store!Files!SamePeriod, Runs!Batches!VersionChain, Runs!Batches!Chained, Runs!Batches!None,
     Runs!Batches!SamePeriod
<1> QED
  BY <1>1, <1>2, <1>3, ChainsRise DEF Runs!FilesStored

\* There is one current delivery at most, and it is what a query returns.
LEMMA ReadsCurrent ==
    ASSUME HandInv, InOrderNow, NEW source, NEW period
    PROVE  /\ Store!Files!CurrentBatch(source, period) = Runs!Current(source, period)
           /\ Readings(source, period) = {Runs!Current(source, period)}
<1>1. Store!Files!CurrentBatch(source, period) = Runs!Current(source, period)
  BY DEF Store!Files!CurrentBatch, Store!Files!SamePeriod, Runs!Current, Runs!Files!CurrentBatch,
     Runs!Files!SamePeriod, Store!Files!None, Runs!Files!None
<1>2. \A b \in Runs!Current(source, period) : b = Runs!CurrentFile(source, period)
  BY FilesAsStored, RunsAssumptions, Runs!CurrentIsOne
<1>3. Readings(source, period) = {Runs!Current(source, period)}
  <2>1. PICK current : current = Runs!Current(source, period)
    OBVIOUS
  <2>2. Readings(source, period) = IF current = {} THEN {{}} ELSE {{b} : b \in current}
    BY <1>1, <2>1 DEF Readings
  <2>3. CASE current = {}
    BY <2>1, <2>2, <2>3
  <2>4. CASE current # {}
    <3>1. PICK b : current = {b}
      BY <1>2, <2>1, <2>4
    <3> QED
      BY <2>1, <2>2, <3>1
  <2> QED
    BY <2>3, <2>4
<1> QED
  BY <1>1, <1>3

\* A run of the two current deliveries reads of them what they are.
LEMMA CurrentAsRead ==
    ASSUME HandInv, InOrderNow, NEW L, NEW R, NEW period, NEW source \in {L, R}
    PROVE  LET files == AsRead(Runs!Current(L, period) \cup Runs!Current(R, period)) IN
           /\ DB(files, <<>>)!Current(source, period) = Runs!Current(source, period)
           /\ DB(files, <<>>)!CurrentFile(source, period) = Runs!CurrentFile(source, period)
           /\ DB(files, <<>>)!Side(source, period) = Runs!Side(source, period)
           /\ DB(files, <<>>)!Unambiguous(source, period) <=> Runs!Unambiguous(source, period)
<1> DEFINE read  == Runs!Current(L, period) \cup Runs!Current(R, period)
           files == AsRead(read)
<1>1. \A s : Runs!Current(s, period) =
                {b \in DOMAIN file_batch : /\ file_batch[b].source = s /\ file_batch[b].period = period
                                           /\ file_batch[b].superseded_by = None}
  BY DEF Runs!Current, Runs!Files!CurrentBatch, Runs!Files!SamePeriod, Runs!Files!None, None
<1>2. ASSUME NEW b \in read
      PROVE  /\ b \in DOMAIN files /\ b \in DOMAIN file_batch
             /\ files[b].source = file_batch[b].source /\ files[b].period = file_batch[b].period
             /\ files[b].superseded_by = None
             /\ files[b].records = file_batch[b].records
  <2>1. b \in DOMAIN file_batch
    BY <1>1
  <2>2. file_batch[b] \in Store!Files!FileBatch
    BY <2>1 DEF HandInv, TablesTyped
  <2>3. files[b] = [file_batch[b] EXCEPT !.superseded_by = None] /\ b \in DOMAIN files
    BY DEF AsRead
  <2> QED
    BY <2>1, <2>2, <2>3 DEF Store!Files!FileBatch
<1>3. DOMAIN files = read
  BY DEF AsRead
<1>4. Runs!Current(source, period) \subseteq read
  OBVIOUS
<1> HIDE DEF read, files
<1>5. DB(files, <<>>)!Current(source, period) =
         {b \in DOMAIN files : /\ files[b].source = source /\ files[b].period = period
                               /\ files[b].superseded_by = None}
  BY DEF DB!Current, DB!Files!CurrentBatch, DB!Files!SamePeriod, DB!Files!None, None
<1>6. DB(files, <<>>)!Current(source, period) = Runs!Current(source, period)
  <2>1. ASSUME NEW b
        PROVE  b \in DB(files, <<>>)!Current(source, period) <=> b \in Runs!Current(source, period)
    <3>1. CASE b \in read
      <4>1. file_batch[b].superseded_by = None
        BY <1>1, <3>1 DEF read
      <4> QED
        BY <1>1, <1>2, <1>5, <3>1, <4>1
    <3>2. CASE b \notin read
      BY <1>3, <1>4, <1>5, <3>2
    <3> QED
      BY <3>1, <3>2
  <2> QED
    BY <2>1, <1>1, <1>5
<1>7. DB(files, <<>>)!CurrentFile(source, period) = Runs!CurrentFile(source, period)
  BY <1>6 DEF DB!CurrentFile, Runs!CurrentFile
<1>8. \A b \in Runs!Current(source, period) : files[b].records = file_batch[b].records
  BY <1>2, <1>4
<1>9. DB(files, <<>>)!CurrentRecords(source, period) = Runs!CurrentRecords(source, period)
  BY <1>6, <1>8 DEF DB!CurrentRecords, Runs!CurrentRecords
<1>10. \A p \in Runs!CurrentRecords(source, period) : DB(files, <<>>)!RowAt(p) = Runs!RowAt(p)
  <2> SUFFICES ASSUME NEW p \in Runs!CurrentRecords(source, period)
               PROVE  files[p[1]].records[p[2]] = file_batch[p[1]].records[p[2]]
    BY DEF DB!RowAt, Runs!RowAt
  <2>1. p[1] \in Runs!Current(source, period)
    BY RunsAssumptions, Runs!RecordsRead
  <2> QED
    BY <1>8, <2>1
<1>11. DB(files, <<>>)!Side(source, period) = Runs!Side(source, period)
  <2>1. \A row : DB(files, <<>>)!Normalized(source, row) = Runs!Normalized(source, row)
    BY DEF DB!Normalized, Runs!Normalized
  <2> QED
    BY <1>9, <1>10, <2>1 DEF DB!Side, Runs!Side
<1>12. DB(files, <<>>)!Unambiguous(source, period) <=> Runs!Unambiguous(source, period)
  BY <1>9, <1>10 DEF DB!Unambiguous, Runs!Unambiguous
<1> QED
  BY <1>6, <1>7, <1>11, <1>12 DEF files, read

----------------------------------------------------------------------------
(* A run that no upload overlaps has the current deliveries in hand.       *)

\* These are the items of a run over the current deliveries, whichever
\* decisions it read.
OfCurrent(items, L, R, period) ==
    \E in :
        /\ Runs!IsInput(in)
        /\ in.leftSource = L /\ in.rightSource = R
        /\ in.left = Runs!Side(L, period) /\ in.right = Runs!Side(R, period)
        /\ Runs!Unambiguous(L, period) /\ Runs!Unambiguous(R, period)
        /\ items = Runs!RecordItems(Runs!MatchResult(in), period)

Fresh(q, step, has) ==
    LET L      == Asked[q].left
        R      == Asked[q].right
        period == Asked[q].period
    IN  /\ step = "right" => has.read = Runs!Current(L, period)
        /\ step \in {"decisions", "pairs"} =>
              has.read = Runs!Current(L, period) \cup Runs!Current(R, period)
        /\ step \in {"find", "stamp", "items"} => OfCurrent(has.row.items, L, R, period)
        /\ step \in Numbered => \E in : Runs!Written(has.row, in)

FreshUnlessRaced ==
    \A q \in Requests :
        (Kind(q) = "run" /\ ~Raced(q, {"upload"})) => Fresh(q, request[q].at, request[q].has)

SummaryInv ==
    /\ HandInv
    /\ SerialInv
    /\ UploadsSerial => FreshUnlessRaced

\* What a run has read of the two current deliveries are their records, and
\* the items it makes of them are theirs.
LEMMA FreshInput ==
    ASSUME HandInv, InOrderNow, NEW q \in Requests, Kind(q) = "run",
           At(q, "pairs"), Fresh(q, "pairs", request[q].has)
    PROVE  LET had    == request[q].has
               L      == Asked[q].left
               R      == Asked[q].right
               period == Asked[q].period
               in     == ReadInput(q, had)
           IN  /\ Runs!IsInput(in)
               /\ in.leftSource = L /\ in.rightSource = R
               /\ in.left = Runs!Side(L, period) /\ in.right = Runs!Side(R, period)
               /\ in.prior = had.prior
               /\ Runs!Unambiguous(L, period) /\ Runs!Unambiguous(R, period)
               /\ DB(AsRead(had.read), <<>>)!RecordItems(Runs!MatchResult(in), period) =
                     Runs!RecordItems(Runs!MatchResult(in), period)
<1> DEFINE had    == request[q].has
           L      == Asked[q].left
           R      == Asked[q].right
           period == Asked[q].period
           files  == AsRead(had.read)
           in     == ReadInput(q, had)
<1>1. /\ TablesTyped /\ had.read \subseteq DOMAIN file_batch /\ ~Refused(Asked[q], files)
      /\ Runs!AreDecisions(had.prior)
  BY DEF HandInv, Holds, RunHolds, At
<1>2. had.read = Runs!Current(L, period) \cup Runs!Current(R, period)
  BY DEF Fresh
<1>3. ASSUME NEW source \in {L, R}
      PROVE  /\ DB(files, <<>>)!CurrentFile(source, period) = Runs!CurrentFile(source, period)
             /\ DB(files, <<>>)!Side(source, period) = Runs!Side(source, period)
             /\ DB(files, <<>>)!Unambiguous(source, period) <=> Runs!Unambiguous(source, period)
  <2>1. files = AsRead(Runs!Current(L, period) \cup Runs!Current(R, period))
    BY <1>2
  <2> HIDE DEF L, R, period, in, files
  <2>2. LET read == AsRead(Runs!Current(L, period) \cup Runs!Current(R, period)) IN
        /\ DB(read, <<>>)!CurrentFile(source, period) = Runs!CurrentFile(source, period)
        /\ DB(read, <<>>)!Side(source, period) = Runs!Side(source, period)
        /\ DB(read, <<>>)!Unambiguous(source, period) <=> Runs!Unambiguous(source, period)
    BY CurrentAsRead, SMTT(60)
  <2> QED
    BY <2>1, <2>2
<1>4. /\ Runs!IsInput(in)
      /\ in.leftSource = L /\ in.rightSource = R
      /\ in.left = DB(files, <<>>)!Side(L, period) /\ in.right = DB(files, <<>>)!Side(R, period)
      /\ in.prior = had.prior
  BY <1>1, ReadIsInput
<1>5. DB(files, <<>>)!Unambiguous(L, period) /\ DB(files, <<>>)!Unambiguous(R, period)
  BY <1>1 DEF Refused
<1> DEFINE items == DB(files, <<>>)!RecordItems(Runs!MatchResult(in), period)
<1>6. items = DB(files, <<>>)!RecordItems(Runs!MatchResult(in), period)
  OBVIOUS
<1> HIDE DEF items
<1> HIDE DEF files, in, L, R, period
<1>7. /\ in.left = Runs!Side(L, period) /\ in.right = Runs!Side(R, period)
      /\ Runs!Unambiguous(L, period) /\ Runs!Unambiguous(R, period)
  BY <1>3, <1>4, <1>5
<1>8. \A r \in in.left \cup in.right : r.source \in {L, R}
  BY <1>4 DEF Runs!IsInput, Runs!IsSide
<1>9. ASSUME NEW item
      PROVE  item \in items <=> item \in Runs!RecordItems(Runs!MatchResult(in), period)
  <2>0. Runs!IsInput(in)
    BY <1>4
  <2>1. item \in DB(files, <<>>)!RecordItems(Runs!MatchResult(in), period) <=>
           \E r \in in.left \cup in.right : \E state :
              /\ Runs!Ends(in, r, state)
              /\ item = Store!Item(r.source, DB(files, <<>>)!CurrentFile(r.source, period),
                                   r.reference, state)
    BY <2>0, ItemsOfRead, SMTT(60)
  <2>2. item \in Runs!RecordItems(Runs!MatchResult(in), period) <=>
           \E r \in in.left \cup in.right : \E state :
              /\ Runs!Ends(in, r, state)
              /\ item = Runs!Item(r.source, Runs!CurrentFile(r.source, period), r.reference, state)
    BY <1>4, RunsAssumptions, Runs!ItemsWritten
  <2>3. \A r \in in.left \cup in.right :
           DB(files, <<>>)!CurrentFile(r.source, period) = Runs!CurrentFile(r.source, period)
    BY <1>3, <1>8
  <2>4. \A r, file, state : Store!Item(r.source, file, r.reference, state) =
                               Runs!Item(r.source, file, r.reference, state)
    BY DEF Store!Item, Runs!Item
  <2>5. ASSUME NEW r \in in.left \cup in.right, NEW state
        PROVE  Store!Item(r.source, DB(files, <<>>)!CurrentFile(r.source, period), r.reference, state) =
                  Runs!Item(r.source, Runs!CurrentFile(r.source, period), r.reference, state)
    BY <2>3, <2>4
  <2> QED
    BY <2>1, <2>2, <2>5, Zenon DEF items
<1>10. items = Runs!RecordItems(Runs!MatchResult(in), period)
  <2>1. items \subseteq Runs!RecordItems(Runs!MatchResult(in), period)
    BY <1>9
  <2>2. Runs!RecordItems(Runs!MatchResult(in), period) \subseteq items
    BY <1>9
  <2> QED
    BY <2>1, <2>2, Zenon
<1> QED
  BY <1>4, <1>6, <1>7, <1>10 DEF files, in, L, R, period

\* What a run over the two current deliveries finds in them.
LEMMA FreshPairs ==
    ASSUME HandInv, InOrderNow, NEW q \in Requests, Kind(q) = "run", NEW step, NEW has,
           At(q, "pairs"), Fresh(q, "pairs", request[q].has), WritesPairs(q, step, has)
    PROVE  OfCurrent(has.row.items, Asked[q].left, Asked[q].right, Asked[q].period)
<1>1. PICK in : in = ReadInput(q, request[q].has)
  OBVIOUS
<1>2. has.row.items = DB(AsRead(request[q].has.read), <<>>)!RecordItems(Runs!MatchResult(in), Asked[q].period)
  BY <1>1 DEF WritesPairs
<1>3. /\ Runs!IsInput(in) /\ in.leftSource = Asked[q].left /\ in.rightSource = Asked[q].right
      /\ in.left = Runs!Side(Asked[q].left, Asked[q].period)
      /\ in.right = Runs!Side(Asked[q].right, Asked[q].period)
      /\ Runs!Unambiguous(Asked[q].left, Asked[q].period)
      /\ Runs!Unambiguous(Asked[q].right, Asked[q].period)
      /\ has.row.items = Runs!RecordItems(Runs!MatchResult(in), Asked[q].period)
  BY <1>1, <1>2, FreshInput
<1> QED
  BY <1>3 DEF OfCurrent

LEMMA SameCounts == ASSUME NEW all, NEW n PROVE Store!Counts(all, n) = Runs!Counts(all, n)
<1>1. \A S : Store!Cardinality(S) = Runs!Cardinality(S)
  BY DEF Store!Cardinality, Runs!Cardinality
<1> HIDE DEF Store!Cardinality, Runs!Cardinality
<1>2. Store!RecordState = Runs!RecordState
  BY DEF Store!RecordState, Runs!RecordState
<1> QED
  BY <1>1, <1>2 DEF Store!Counts, Runs!Counts

\* What is withdrawn and rejected it reads as it is.
LEMMA FreshRow ==
    ASSUME HandInv, InOrderNow, NEW q \in Requests, NEW step, NEW has, WritesItems(q, step, has)
    PROVE  LET L      == Asked[q].left
               R      == Asked[q].right
               period == Asked[q].period
               had    == request[q].has.row
               items  == had.items \cup Runs!WithdrawnItems(L, period) \cup Runs!WithdrawnItems(R, period)
           IN  has.row = [left      |-> L,
                          right     |-> R,
                          period    |-> period,
                          files     |-> had.files,
                          decisions |-> had.decisions,
                          pairs     |-> had.pairs,
                          items     |-> items,
                          counts    |-> Runs!Counts(items, Runs!RejectedCount(L, period)
                                                              + Runs!RejectedCount(R, period))]
<1> DEFINE L      == Asked[q].left
           R      == Asked[q].right
           period == Asked[q].period
           items  == request[q].has.row.items
<1>1. PICK left, right, files, withdrawn, rejected :
         /\ left \in Readings(L, period) /\ right \in Readings(R, period)
         /\ files = TakingAsCurrent(left \cup right, Asked[q])
         /\ withdrawn = DB(files, <<>>)!WithdrawnItems(L, period) \cup
                        DB(files, <<>>)!WithdrawnItems(R, period)
         /\ rejected = DB(files, <<>>)!RejectedCount(L, period) +
                       DB(files, <<>>)!RejectedCount(R, period)
         /\ has.row = [left      |-> L,
                       right     |-> R,
                       period    |-> period,
                       files     |-> request[q].has.row.files,
                       decisions |-> request[q].has.row.decisions,
                       pairs     |-> request[q].has.row.pairs,
                       items     |-> items \cup withdrawn,
                       counts    |-> Store!Counts(items \cup withdrawn, rejected)]
  BY DEF WritesItems
<1>2. files = file_batch
  <2>1. \A s : Store!Files!CurrentBatch(s, period) = Runs!Current(s, period)
    BY ReadsCurrent
  <2>2. left = Runs!Current(L, period) /\ right = Runs!Current(R, period)
    BY <1>1, ReadsCurrent
  <2>3. (Store!Files!CurrentBatch(L, period) \cup Store!Files!CurrentBatch(R, period))
           \ (left \cup right) = {}
    BY <2>1, <2>2
  <2>4. files = [b \in DOMAIN file_batch \ {} |-> file_batch[b]]
    BY <1>1, <2>3 DEF TakingAsCurrent
  <2>5. DOMAIN file_batch \ {} = DOMAIN file_batch
    OBVIOUS
  <2>6. files = [b \in DOMAIN file_batch |-> file_batch[b]]
    BY <2>4, <2>5
  <2> QED
    BY <2>6 DEF HandInv, TablesTyped
<1>3. ASSUME NEW source
      PROVE  /\ DB(file_batch, <<>>)!WithdrawnItems(source, period) = Runs!WithdrawnItems(source, period)
             /\ DB(file_batch, <<>>)!RejectedCount(source, period) = Runs!RejectedCount(source, period)
  <2>1. /\ DB(file_batch, <<>>)!Current(source, period) = Runs!Current(source, period)
        /\ DB(file_batch, <<>>)!CurrentFile(source, period) = Runs!CurrentFile(source, period)
    BY DEF DB!Current, DB!Files!CurrentBatch, DB!Files!SamePeriod, DB!Files!None, DB!CurrentFile,
           Runs!Current, Runs!Files!CurrentBatch, Runs!Files!SamePeriod, Runs!Files!None,
           Runs!CurrentFile
  <2>2. /\ DB(file_batch, <<>>)!Files!SupersededBatches(source, period) =
              Runs!Files!SupersededBatches(source, period)
        /\ \A records : DB(file_batch, <<>>)!Files!ReferencesIn(records) = Runs!Files!ReferencesIn(records)
    BY DEF DB!Files!SupersededBatches, DB!Files!SamePeriod, DB!Files!None, DB!Files!ReferencesIn,
           Runs!Files!SupersededBatches, Runs!Files!SamePeriod, Runs!Files!None, Runs!Files!ReferencesIn
  <2>3. \A reference : DB(file_batch, <<>>)!LatestSuperseded(source, period, reference) =
                          Runs!LatestSuperseded(source, period, reference)
    BY <2>2 DEF DB!LatestSuperseded, Runs!LatestSuperseded
  <2>4. DB(file_batch, <<>>)!Files!CurrentBatch(source, period) = Runs!Files!CurrentBatch(source, period)
    BY <2>1 DEF DB!Current, Runs!Current
  <2>5. DB(file_batch, <<>>)!Files!WithdrawnReferences(source, period) =
           Runs!Files!WithdrawnReferences(source, period)
    BY <2>2, <2>4 DEF DB!Files!WithdrawnReferences, Runs!Files!WithdrawnReferences
  <2>6. DB(file_batch, <<>>)!WithdrawnItems(source, period) = Runs!WithdrawnItems(source, period)
    BY <2>3, <2>5 DEF DB!WithdrawnItems, Runs!WithdrawnItems, DB!Item, Runs!Item
  <2>7. DB(file_batch, <<>>)!RejectedCount(source, period) = Runs!RejectedCount(source, period)
    BY <2>1 DEF DB!RejectedCount, Runs!RejectedCount
  <2> QED
    BY <2>6, <2>7
<1>4. /\ withdrawn = Runs!WithdrawnItems(L, period) \cup Runs!WithdrawnItems(R, period)
      /\ rejected = Runs!RejectedCount(L, period) + Runs!RejectedCount(R, period)
  BY <1>1, <1>2, <1>3
<1>5. items \cup withdrawn =
         items \cup Runs!WithdrawnItems(L, period) \cup Runs!WithdrawnItems(R, period)
  BY <1>4
<1>6. Store!Counts(items \cup withdrawn, rejected) = Runs!Counts(items \cup withdrawn, rejected)
  BY SameCounts
<1> HIDE DEF L, R, period, items
<1>7. has.row = [left      |-> L,
                 right     |-> R,
                 period    |-> period,
                 files     |-> request[q].has.row.files,
                 decisions |-> request[q].has.row.decisions,
                 pairs     |-> request[q].has.row.pairs,
                 items     |-> items \cup Runs!WithdrawnItems(L, period)
                                  \cup Runs!WithdrawnItems(R, period),
                 counts    |-> Runs!Counts(items \cup Runs!WithdrawnItems(L, period)
                                              \cup Runs!WithdrawnItems(R, period),
                                           Runs!RejectedCount(L, period)
                                              + Runs!RejectedCount(R, period))]
  BY <1>1, <1>4, <1>5, <1>6
<1> QED
  BY <1>7 DEF L, R, period, items

\* The row it writes is that of a run over them.
LEMMA FreshItems ==
    ASSUME HandInv, InOrderNow, NEW q \in Requests, Kind(q) = "run", NEW step, NEW has,
           OfCurrent(request[q].has.row.items, Asked[q].left, Asked[q].right, Asked[q].period),
           WritesItems(q, step, has)
    PROVE  \E in : Runs!Written(has.row, in)
<1> DEFINE L      == Asked[q].left
           R      == Asked[q].right
           period == Asked[q].period
           items  == request[q].has.row.items
<1>0. PICK all, counts :
         /\ all = items \cup Runs!WithdrawnItems(L, period) \cup Runs!WithdrawnItems(R, period)
         /\ counts = Runs!Counts(all, Runs!RejectedCount(L, period) + Runs!RejectedCount(R, period))
         /\ has.row = [left      |-> L,
                       right     |-> R,
                       period    |-> period,
                       files     |-> request[q].has.row.files,
                       decisions |-> request[q].has.row.decisions,
                       pairs     |-> request[q].has.row.pairs,
                       items     |-> all,
                       counts    |-> counts]
  BY FreshRow
<1>1. /\ has.row.left = L /\ has.row.right = R /\ has.row.period = period
      /\ has.row.items = items \cup Runs!WithdrawnItems(L, period) \cup Runs!WithdrawnItems(R, period)
      /\ has.row.counts = Runs!Counts(has.row.items, Runs!RejectedCount(L, period)
                                                        + Runs!RejectedCount(R, period))
  BY <1>0
<1>2. PICK in : /\ Runs!IsInput(in)
                /\ in.leftSource = L /\ in.rightSource = R
                /\ in.left = Runs!Side(L, period) /\ in.right = Runs!Side(R, period)
                /\ Runs!Unambiguous(L, period) /\ Runs!Unambiguous(R, period)
                /\ items = Runs!RecordItems(Runs!MatchResult(in), period)
  BY DEF OfCurrent
<1> HIDE DEF L, R, period, items
<1> QED
  BY <1>1, <1>2 DEF Runs!Written

LEMMA RunFresh ==
    ASSUME HandInv, InOrderNow, NEW q \in Requests, Kind(q) = "run", NEW step, NEW has,
           RunMoves(q, step, has), Fresh(q, request[q].at, request[q].has)
    PROVE  Fresh(q, step, has)
<1> DEFINE had == request[q].has
<1> USE DEF At
<1>1. CASE ReadsLeft(q, step, has)
  <2>1. has.read = Runs!Current(Asked[q].left, Asked[q].period)
    BY <1>1, ReadsCurrent DEF ReadsLeft
  <2> QED
    BY <1>1, <2>1 DEF ReadsLeft, Fresh, Numbered
<1>2. CASE ReadsRight(q, step, has)
  <2>1. PICK right \in Readings(Asked[q].right, Asked[q].period) : has.read = had.read \cup right
    BY <1>2 DEF ReadsRight
  <2>2. right = Runs!Current(Asked[q].right, Asked[q].period)
    BY ReadsCurrent
  <2>3. had.read = Runs!Current(Asked[q].left, Asked[q].period)
    BY <1>2 DEF ReadsRight, Fresh
  <2> QED
    BY <1>2, <2>1, <2>2, <2>3 DEF ReadsRight, Fresh, Numbered
<1>3. CASE ReadsDecisions(q, step, has)
  <2>1. has.read = had.read
    BY <1>3 DEF ReadsDecisions, Only, HandFields
  <2> QED
    BY <1>3, <2>1 DEF ReadsDecisions, Fresh, Numbered
<1>4. CASE WritesPairs(q, step, has)
  <2>1. Fresh(q, "pairs", had) /\ step = "find" /\ request[q].at = "pairs"
    BY <1>4 DEF WritesPairs
  <2>2. OfCurrent(has.row.items, Asked[q].left, Asked[q].right, Asked[q].period)
    BY <1>4, <2>1, FreshPairs
  <2> QED
    BY <2>1, <2>2 DEF Fresh, Numbered
<1>5. CASE FindsNone(q, step, has) \/ FindsOne(q, step, has) \/ StampsOne(q, step, has)
  <2>1. has.row = had.row
    BY <1>5 DEF FindsNone, FindsOne, StampsOne, Only, HandFields
  <2>2. request[q].at \in {"find", "stamp"} /\ step \in {"find", "stamp", "items"}
    BY <1>5 DEF FindsNone, FindsOne, StampsOne
  <2> QED
    BY <2>1, <2>2 DEF Fresh, Numbered
<1>6. CASE WritesItems(q, step, has)
  <2>1. OfCurrent(had.row.items, Asked[q].left, Asked[q].right, Asked[q].period) /\ step = "answer"
    BY <1>6 DEF WritesItems, Fresh
  <2>2. \E in : Runs!Written(has.row, in)
    BY <1>6, <2>1, FreshItems
  <2> QED
    BY <2>1, <2>2 DEF Fresh, Numbered
<1>7. CASE Finishes(q, step, has)
  <2>1. has.row = had.row
    BY <1>7 DEF Finishes, Only, HandFields
  <2>2. request[q].at \in Numbered /\ step \in Numbered /\ step \notin {"right", "decisions", "pairs", "find", "stamp", "items"}
    BY <1>7 DEF Finishes, Numbered
  <2> QED
    BY <2>1, <2>2 DEF Fresh
<1> QED
  BY <1>1, <1>2, <1>3, <1>4, <1>5, <1>6, <1>7 DEF RunMoves

LEMMA CurrentStays ==
    ASSUME file_batch' = file_batch, NEW source, NEW period
    PROVE  /\ Runs!Current(source, period)' = Runs!Current(source, period)
           /\ Runs!CurrentFile(source, period)' = Runs!CurrentFile(source, period)
           /\ Runs!Side(source, period)' = Runs!Side(source, period)
           /\ Runs!Unambiguous(source, period)' <=> Runs!Unambiguous(source, period)
           /\ Runs!WithdrawnItems(source, period)' = Runs!WithdrawnItems(source, period)
           /\ Runs!RejectedCount(source, period)' = Runs!RejectedCount(source, period)
<1>1. Runs!Files!CurrentBatch(source, period)' = Runs!Files!CurrentBatch(source, period)
  BY DEF Runs!Files!CurrentBatch, Runs!Files!SamePeriod
<1>2. Runs!Current(source, period)' = Runs!Current(source, period)
  BY <1>1 DEF Runs!Current
<1>3. Runs!CurrentFile(source, period)' = Runs!CurrentFile(source, period)
  BY <1>2 DEF Runs!CurrentFile
<1>4. Runs!CurrentRecords(source, period)' = Runs!CurrentRecords(source, period)
  BY <1>2 DEF Runs!CurrentRecords
<1>5. \A p : Runs!RowAt(p)' = Runs!RowAt(p)
  BY DEF Runs!RowAt
<1>6. Runs!Side(source, period)' = Runs!Side(source, period)
  BY <1>4, <1>5 DEF Runs!Side
<1>7. Runs!Unambiguous(source, period)' <=> Runs!Unambiguous(source, period)
  BY <1>4, <1>5 DEF Runs!Unambiguous
<1>8. Runs!Files!SupersededBatches(source, period)' = Runs!Files!SupersededBatches(source, period)
  BY DEF Runs!Files!SupersededBatches, Runs!Files!SamePeriod
<1>9. Runs!Files!WithdrawnReferences(source, period)' = Runs!Files!WithdrawnReferences(source, period)
  BY <1>1, <1>8 DEF Runs!Files!WithdrawnReferences
<1>10. \A reference : Runs!LatestSuperseded(source, period, reference)' =
                         Runs!LatestSuperseded(source, period, reference)
  BY <1>8 DEF Runs!LatestSuperseded
<1>11. Runs!WithdrawnItems(source, period)' = Runs!WithdrawnItems(source, period)
  BY <1>9, <1>10 DEF Runs!WithdrawnItems
<1>12. Runs!RejectedCount(source, period)' = Runs!RejectedCount(source, period)
  BY <1>2, <1>3 DEF Runs!RejectedCount
<1> QED
  BY <1>2, <1>3, <1>6, <1>7, <1>11, <1>12

LEMMA FreshStays ==
    ASSUME file_batch' = file_batch, NEW q, NEW step, NEW has, Fresh(q, step, has)
    PROVE  Fresh(q, step, has)'
<1>1. ASSUME NEW result, NEW period
      PROVE  Runs!RecordItems(result, period)' = Runs!RecordItems(result, period)
  <2>1. \A source : Runs!CurrentFile(source, period)' = Runs!CurrentFile(source, period)
    BY CurrentStays
  <2> QED
    BY <2>1 DEF Runs!RecordItems
<1>2. ASSUME NEW items, NEW L, NEW R, NEW period, OfCurrent(items, L, R, period)
      PROVE  OfCurrent(items, L, R, period)'
  BY <1>1, <1>2, CurrentStays DEF OfCurrent
<1>3. ASSUME NEW new, NEW in, Runs!Written(new, in)
      PROVE  Runs!Written(new, in)'
  BY <1>1, <1>3, CurrentStays DEF Runs!Written
<1>4. step \in {"find", "stamp", "items"} =>
         OfCurrent(has.row.items, Asked[q].left, Asked[q].right, Asked[q].period)'
  BY <1>2 DEF Fresh
<1>5. step \in Numbered => \E in : Runs!Written(has.row, in)'
  BY <1>3 DEF Fresh
<1>6. /\ step = "right" => has.read = Runs!Current(Asked[q].left, Asked[q].period)'
      /\ step \in {"decisions", "pairs"} =>
            has.read = Runs!Current(Asked[q].left, Asked[q].period)' \cup
                          Runs!Current(Asked[q].right, Asked[q].period)'
  BY CurrentStays DEF Fresh
<1> QED
  BY <1>4, <1>5, <1>6 DEF Fresh

\* A step that stores no file keeps all this.
LEMMA KeepsFresh ==
    ASSUME SummaryInv, HandInv', SerialInv', [Next]_vars, file_batch' = file_batch,
           NEW q \in Requests, NEW step, NEW after, NEW locks, NEW has,
           Becomes(q, step, after, locks, has),
           (Kind(q) = "run" /\ InOrderNow /\ Fresh(q, request[q].at, request[q].has)) =>
              Fresh(q, step, has)
    PROVE  SummaryInv'
<1> SUFFICES ASSUME UploadsSerial', NEW p \in Requests, Kind(p) = "run", ~Raced(p, {"upload"})'
             PROVE  Fresh(p, request[p].at, request[p].has)'
  BY DEF SummaryInv, FreshUnlessRaced, Kind, Fresh
<1>1. IndInv
  BY DEF SummaryInv, HandInv, IdInv, DigestInv
<1>2. UploadsSerial /\ ~Raced(p, {"upload"})
  BY <1>1, RacesGoOn
<1>3. InOrderNow /\ Fresh(p, request[p].at, request[p].has)
  BY <1>2 DEF SummaryInv, SerialInv, FreshUnlessRaced
<1>4. Fresh(p, request'[p].at, request'[p].has)
  BY <1>3 DEF Becomes
<1>5. PICK s, h : s = request'[p].at /\ h = request'[p].has
  OBVIOUS
<1>6. Fresh(p, s, h)'
  BY <1>4, <1>5, FreshStays
<1> QED
  BY <1>5, <1>6 DEF Fresh

\* One that stores a file races every run on its way.
LEMMA UploadFresh ==
    ASSUME SummaryInv, HandInv', SerialInv', [Next]_vars,
           NEW q \in Requests, Kind(q) = "upload", Commit(q)
    PROVE  SummaryInv'
<1> SUFFICES ASSUME NEW p \in Requests, Kind(p) = "run", ~Raced(p, {"upload"})'
             PROVE  Fresh(p, request[p].at, request[p].has)'
  BY DEF SummaryInv, FreshUnlessRaced, Kind, Fresh
<1>1. RaceInv /\ Shaped
  BY DEF SummaryInv, SerialInv, HandInv, IdInv, DigestInv, IndInv
<1>2. PICK has : Becomes(q, "ended", request[q].after, {}, has)
  BY <1>1, CommitBecomes
<1>3. p # q
  BY DEF Kind
<1>4. request'[p] = request[p]
  BY <1>2, <1>3 DEF Becomes
<1>5. request[p].at \in {"new", "ended"}
  <2>1. SUFFICES ASSUME request[p].at \notin {"new", "ended"} PROVE FALSE
    OBVIOUS
  <2>2. Overlap(q, p)'
    BY <1>1, <1>3, <2>1, CommitOverlaps
  <2>3. Overlap(p, q)' <=> Overlap(q, p)'
    BY DEF Overlap
  <2> QED
    BY <1>3, <2>2, <2>3 DEF Raced, Kind
<1> QED
  BY <1>4, <1>5 DEF Fresh, Numbered

LEMMA NextSummary == ASSUME SummaryInv, [Next]_vars PROVE SummaryInv'
<1>1. HandInv' /\ SerialInv'
  BY NextHand, NextSerial DEF SummaryInv
<1>2. IndInv /\ Shaped /\ HandInv
  BY DEF SummaryInv, HandInv, IdInv, DigestInv, IndInv
<1>3. CASE UNCHANGED vars
  <2>1. request' = request /\ file_batch' = file_batch
    BY <1>3 DEF vars, tables
  <2>2. SUFFICES ASSUME UploadsSerial', NEW p \in Requests, Kind(p) = "run", ~Raced(p, {"upload"})'
                 PROVE  Fresh(p, request[p].at, request[p].has)'
    BY <1>1 DEF SummaryInv, FreshUnlessRaced, Kind, Fresh
  <2>3. UploadsSerial /\ ~Raced(p, {"upload"})
    BY <1>2, <2>2, RacesGoOn
  <2>4. PICK s, h : s = request[p].at /\ h = request[p].has
    OBVIOUS
  <2>5. Fresh(p, s, h)'
    BY <2>1, <2>2, <2>3, <2>4, FreshStays DEF SummaryInv, FreshUnlessRaced
  <2> QED
    BY <2>1, <2>4, <2>5 DEF Fresh
<1>4. CASE Restart
  <2>1. request' = [p \in Requests |-> AfterRestart(p)]
    BY <1>4 DEF Restart, AfterRestart
  <2>2. \A p \in Requests : request'[p].at \in {"new", "ended"}
    BY <2>1, OpenSteps, FinishedRequest DEF AfterRestart
  <2>3. \A p \in Requests : Fresh(p, request[p].at, request[p].has)'
    BY <2>2 DEF Fresh, Numbered
  <2> QED
    BY <1>1, <2>3 DEF SummaryInv, FreshUnlessRaced
<1>5. ASSUME NEW q \in Requests, NEW step, NEW after, NEW locks, NEW has,
             Becomes(q, step, after, locks, has), step = "ended" \/ Kind(q) # "run",
             file_batch' = file_batch
      PROVE  SummaryInv'
  <2>1. Kind(q) = "run" => Fresh(q, step, has)
    BY <1>5 DEF Fresh, Numbered
  <2> QED
    BY <1>1, <1>5, <2>1, KeepsFresh
<1>6. ASSUME NEW q \in Requests, Begin(q)
      PROVE  SummaryInv'
  <2>1. Becomes(q, FirstStep[Kind(q)], Ended, request[q].locks, request[q].has)
    BY <1>2, <1>6, BeginBecomes
  <2>2. Kind(q) = "run" => Fresh(q, FirstStep[Kind(q)], request[q].has)
    BY DEF Fresh, FirstStep, Numbered
  <2>3. file_batch' = file_batch
    BY <1>6 DEF Begin, tables
  <2> QED
    BY <1>1, <2>1, <2>2, <2>3, KeepsFresh
<1>7. ASSUME NEW q \in Requests, Stops(q)
      PROVE  SummaryInv'
  <2>1. PICK has : Becomes(q, "ended", request[q].after, {}, has)
    BY <1>2, <1>7, FinishedBecomes DEF Stops, Ends
  <2>2. file_batch' = file_batch
    BY <1>7 DEF Stops, Ends, tables
  <2> QED
    BY <1>5, <2>1, <2>2
<1>8. ASSUME NEW q \in Requests, Commit(q)
      PROVE  SummaryInv'
  <2>1. PICK has : Becomes(q, "ended", request[q].after, {}, has)
    BY <1>2, <1>8, CommitBecomes
  <2>2. CASE Kind(q) = "upload"
    BY <1>1, <1>8, <2>2, UploadFresh
  <2>3. CASE Kind(q) # "upload"
    <3>1. file_batch' = file_batch
      BY <1>8, <2>3 DEF Commit
    <3> QED
      BY <1>5, <2>1, <3>1
  <2> QED
    BY <2>2, <2>3
<1>9. ASSUME NEW q \in Requests, Kind(q) # "run", Reads(q) \/ Wrote(q) \/ Passes(q) \/ Answer(q)
      PROVE  SummaryInv'
  <2>1. \E step, locks, has : Becomes(q, step, request[q].after, locks, has) /\ file_batch' = file_batch
    <3>1. CASE Reads(q)
      BY <1>2, <3>1, GoesOnBecomes DEF Reads, tables
    <3>2. CASE Wrote(q)
      BY <1>2, <3>2, WritingBecomes DEF Wrote, tables
    <3>3. CASE Passes(q)
      BY <1>2, <3>3, PassesBecomes DEF Passes, tables
    <3>4. CASE Answer(q)
      BY <1>2, <3>4, AnswerBecomes DEF Answer, tables
    <3> QED
      BY <1>9, <3>1, <3>2, <3>3, <3>4
  <2> QED
    BY <1>5, <1>9, <2>1
<1>10. ASSUME NEW q \in Requests, Kind(q) = "run", NEW step, NEW locks, NEW has,
              Becomes(q, step, request[q].after, locks, has), tables' = tables, RunMoves(q, step, has)
       PROVE  SummaryInv'
  <2>1. file_batch' = file_batch
    BY <1>10 DEF tables
  <2>2. (InOrderNow /\ Fresh(q, request[q].at, request[q].has)) => Fresh(q, step, has)
    BY <1>2, <1>10, RunFresh
  <2> QED
    BY <1>1, <1>10, <2>1, <2>2, KeepsFresh
<1> QED
  BY <1>2, <1>3, <1>4, <1>6, <1>7, <1>8, <1>9, <1>10, Moves

----------------------------------------------------------------------------
(* Reconcile and its theorems are about the same tables.                   *)

LEMMA SameReads ==
    ASSUME NEW source, NEW period
    PROVE  /\ Store!Current(source, period) = Runs!Current(source, period)
           /\ Store!CurrentFile(source, period) = Runs!CurrentFile(source, period)
           /\ Store!CurrentRecords(source, period) = Runs!CurrentRecords(source, period)
           /\ Store!Unambiguous(source, period) <=> Runs!Unambiguous(source, period)
           /\ Store!Side(source, period) = Runs!Side(source, period)
           /\ Store!WithdrawnItems(source, period) = Runs!WithdrawnItems(source, period)
           /\ Store!RejectedCount(source, period) = Runs!RejectedCount(source, period)
           /\ Store!RowsDelivered(source, period) = Runs!RowsDelivered(source, period)
           /\ Store!Files!WithdrawnReferences(source, period) = Runs!Files!WithdrawnReferences(source, period)
           /\ {Store!RowAt(p).reference : p \in Store!CurrentRecords(source, period)} =
                 {Runs!RowAt(p).reference : p \in Runs!CurrentRecords(source, period)}
<1>1. /\ Store!Files!CurrentBatch(source, period) = Runs!Files!CurrentBatch(source, period)
      /\ Store!Files!SupersededBatches(source, period) = Runs!Files!SupersededBatches(source, period)
      /\ \A records : Store!Files!ReferencesIn(records) = Runs!Files!ReferencesIn(records)
  BY DEF Store!Files!CurrentBatch, Store!Files!SamePeriod, Store!Files!None, Store!Files!ReferencesIn,
     Store!Files!SupersededBatches, Runs!Files!CurrentBatch, Runs!Files!SamePeriod, Runs!Files!None,
     Runs!Files!SupersededBatches, Runs!Files!ReferencesIn
<1>2. Store!Current(source, period) = Runs!Current(source, period)
  BY <1>1 DEF Store!Current, Runs!Current
<1>3. Store!CurrentFile(source, period) = Runs!CurrentFile(source, period)
  BY <1>2 DEF Store!CurrentFile, Runs!CurrentFile
<1>4. Store!CurrentRecords(source, period) = Runs!CurrentRecords(source, period)
  BY <1>2 DEF Store!CurrentRecords, Runs!CurrentRecords
<1>5. \A p : Store!RowAt(p) = Runs!RowAt(p)
  BY DEF Store!RowAt, Runs!RowAt
<1>6. Store!Unambiguous(source, period) <=> Runs!Unambiguous(source, period)
  BY <1>4, <1>5 DEF Store!Unambiguous, Runs!Unambiguous
<1>7. Store!Side(source, period) = Runs!Side(source, period)
  <2>1. \A row : Store!Normalized(source, row) = Runs!Normalized(source, row)
    BY DEF Store!Normalized, Runs!Normalized
  <2> QED
    BY <1>4, <1>5, <2>1 DEF Store!Side, Runs!Side
<1>8. Store!Files!WithdrawnReferences(source, period) = Runs!Files!WithdrawnReferences(source, period)
  BY <1>1 DEF Store!Files!WithdrawnReferences, Runs!Files!WithdrawnReferences
<1>9. Store!WithdrawnItems(source, period) = Runs!WithdrawnItems(source, period)
  <2>1. \A reference : Store!LatestSuperseded(source, period, reference) =
                          Runs!LatestSuperseded(source, period, reference)
    BY <1>1 DEF Store!LatestSuperseded, Runs!LatestSuperseded
  <2>2. \A batch, reference : Store!Item(source, batch, reference, "withdrawn") =
                                 Runs!Item(source, batch, reference, "withdrawn")
    BY DEF Store!Item, Runs!Item
  <2> QED
    BY <1>8, <2>1, <2>2 DEF Store!WithdrawnItems, Runs!WithdrawnItems
<1>10. /\ Store!RejectedCount(source, period) = Runs!RejectedCount(source, period)
       /\ Store!RowsDelivered(source, period) = Runs!RowsDelivered(source, period)
  BY <1>2, <1>3 DEF Store!RejectedCount, Runs!RejectedCount, Store!RowsDelivered, Runs!RowsDelivered
<1>11. {Store!RowAt(p).reference : p \in Store!CurrentRecords(source, period)} =
          {Runs!RowAt(p).reference : p \in Runs!CurrentRecords(source, period)}
  BY <1>4, <1>5
<1> QED
  BY <1>2, <1>3, <1>4, <1>6, <1>7, <1>8, <1>9, <1>10, <1>11

LEMMA SameSummary == ASSUME NEW new PROVE Store!AddsUp(new) <=> Runs!AddsUp(new)
<1>1. \A S : Store!Cardinality(S) = Runs!Cardinality(S)
  BY DEF Store!Cardinality, Runs!Cardinality
<1> HIDE DEF Store!Cardinality, Runs!Cardinality
<1>2. Store!Total(new.counts) = Runs!Total(new.counts)
  BY DEF Store!Total, Runs!Total
<1>3. /\ Store!RowsDelivered(new.left, new.period) = Runs!RowsDelivered(new.left, new.period)
      /\ Store!RowsDelivered(new.right, new.period) = Runs!RowsDelivered(new.right, new.period)
      /\ Store!Cardinality(Store!Files!WithdrawnReferences(new.left, new.period)) =
            Runs!Cardinality(Runs!Files!WithdrawnReferences(new.left, new.period))
      /\ Store!Cardinality(Store!Files!WithdrawnReferences(new.right, new.period)) =
            Runs!Cardinality(Runs!Files!WithdrawnReferences(new.right, new.period))
  BY <1>1, SameReads
<1>4. (\A source \in {new.left, new.right} :
          {item.reference : item \in {i \in new.items : i.source = source}} =
             Store!Files!WithdrawnReferences(source, new.period)
                \cup {Store!RowAt(p).reference : p \in Store!CurrentRecords(source, new.period)}) <=>
      (\A source \in {new.left, new.right} :
          {item.reference : item \in {i \in new.items : i.source = source}} =
             Runs!Files!WithdrawnReferences(source, new.period)
                \cup {Runs!RowAt(p).reference : p \in Runs!CurrentRecords(source, new.period)})
  <2>1. ASSUME NEW source
        PROVE  Store!Files!WithdrawnReferences(source, new.period)
                  \cup {Store!RowAt(p).reference : p \in Store!CurrentRecords(source, new.period)} =
               Runs!Files!WithdrawnReferences(source, new.period)
                  \cup {Runs!RowAt(p).reference : p \in Runs!CurrentRecords(source, new.period)}
    BY SameReads
  <2> QED
    BY <2>1, Zenon
<1> QED
  BY <1>2, <1>3, <1>4 DEF Store!AddsUp, Runs!AddsUp

\* What a step commits is one request, which commits in it.
LEMMA CommittedCommits ==
    ASSUME Shaped, [Next]_vars, NEW q \in CommittedNow
    PROVE  Commit(q) /\ tables' # tables
<1>1. q \in Requests /\ tables' # tables /\ At(q, "committing") /\ request'[q].at = "ended"
  BY DEF CommittedNow
<1>2. PICK p \in Requests : Commit(p)
  BY <1>1, OnlyCommits
<1>3. PICK has : Becomes(p, "ended", request[p].after, {}, has)
  BY <1>2, CommitBecomes
<1>4. p = q
  BY <1>1, <1>3 DEF Becomes, At
<1> QED
  BY <1>1, <1>2, <1>4

\* The summary of a run adds up (AC2, TR-509), whatever decisions and other
\* runs it overlaps, unless an upload does or two of one source overlapped.
THEOREM SummariesAddUpUnlessRaced == Spec => SummaryAddsUpUnlessRaced
<1>1. Init => SummaryInv
  <2> SUFFICES ASSUME Init PROVE SummaryInv
    OBVIOUS
  <2>1. HandInv /\ SerialInv
    BY InitHand, InitSerial
  <2>2. \A q \in Requests : request[q].at = "new"
    BY DEF Init, New
  <2> QED
    BY <2>1, <2>2 DEF SummaryInv, FreshUnlessRaced, Fresh, Numbered
<1>2. SummaryInv /\ [Next]_vars => SummaryInv'
  BY NextSummary
<1>3. ASSUME SummaryInv, [Next]_vars, NEW q \in CommittedNow,
             Kind(q) = "run", ~Raced(q, {"upload"}), UploadsSerial
      PROVE  Store!AddsUp(Store!NewRun')
  <2>1. Shaped /\ HandInv /\ InOrderNow
    BY <1>3 DEF SummaryInv, HandInv, IdInv, DigestInv, IndInv, SerialInv
  <2>2. Commit(q) /\ q \in Requests
    BY <1>3, <2>1, CommittedCommits DEF CommittedNow
  <2>3. PICK row : row = request[q].has.row
    OBVIOUS
  <2>4. PICK S : run \in Seq(S)
    BY <2>1 DEF HandInv, TablesTyped
  <2>5. run' = Append(run, row)
    BY <1>3, <2>2, <2>3 DEF Commit
  <2>6. Store!NewRun' = row
    BY <2>4, <2>5 DEF Store!NewRun
  <2>7. Fresh(q, "committing", request[q].has)
    BY <1>3, <2>2 DEF SummaryInv, FreshUnlessRaced, Commit, At
  <2>8. PICK in : Runs!Written(row, in)
    BY <2>3, <2>7 DEF Fresh, Numbered
  <2>9. Runs!AddsUp(row)
    BY <2>1, <2>8, FilesAsStored, RunsAssumptions, Runs!RunAddsUp
  <2> QED
    BY <2>6, <2>9, SameSummary
<1>4. SummaryInv /\ [Next]_vars =>
         [\A q \in CommittedNow :
             (Kind(q) = "run" /\ ~Raced(q, {"upload"}) /\ UploadsSerial) =>
                Store!AddsUp(Store!NewRun')]_vars
  BY <1>3
<1> QED
  BY <1>1, <1>2, <1>4, PTL DEF Spec, SummaryAddsUpUnlessRaced

----------------------------------------------------------------------------
(* What a run reverses, when nothing that decides overlaps it.             *)

\* The acceptances that stand.
Accepting ==
    {i \in DOMAIN resolution : Store!Live(resolution[i]) /\ resolution[i].kind = "accept_unmatched"}

\* A run knows the acceptances that stand; it looks for such ones as it has
\* not stamped yet, and has found and stamped nothing else.
Reverses(q, step, has) ==
    /\ step \in {"right", "decisions", "pairs"} => has.stamp = {} /\ has.stamped = {}
    /\ step = "pairs" =>
          \A i \in DOMAIN has.prior :
             has.prior[i].kind = "accept_unmatched" =>
                i \in Accepting /\ resolution[i].left = has.prior[i].left
    /\ step \in {"find", "stamp"} =>
          \A key \in has.revoke :
             \E i \in Accepting \ (has.stamp \cup has.stamped) : resolution[i].left = key
    /\ step = "find" => has.stamp = {}
    /\ step = "stamp" => has.stamp # {} /\ has.stamp \subseteq Accepting
    /\ step \in {"find", "stamp", "items"} \cup Numbered => has.stamped \subseteq Accepting

ReversesUnlessRaced ==
    \A q \in Requests :
        (Kind(q) = "run" /\ ~Raced(q, {"decision", "run"})) =>
            Reverses(q, request[q].at, request[q].has)

ReversalInv ==
    /\ HandInv
    /\ RaceInv
    /\ DecisionsSerial => ReversesUnlessRaced

\* Of decisions that took turns no two that stand contradict each other.
LEMMA SerialAgree ==
    ASSUME RaceInv, DecisionsSerial, NEW i \in DOMAIN resolution, NEW j \in DOMAIN resolution,
           i # j, Store!Live(resolution[i]), Store!Live(resolution[j])
    PROVE  ~Store!Decisions!Contradicts(resolution[i], resolution[j])
<1> SUFFICES ASSUME Store!Decisions!Contradicts(resolution[i], resolution[j]) PROVE FALSE
  OBVIOUS
<1>1. PICK p \in Ended, q \in Ended :
         /\ Kind(p) = "decision" /\ Kind(q) = "decision"
         /\ request[p].has.id = i /\ request[q].has.id = j /\ Overlap(p, q)
  BY DEF RaceInv, ContradictionNeedsARace
<1>2. p \in Requests /\ q \in Requests
  BY DEF Ended
<1> QED
  BY <1>1, <1>2 DEF DecisionsSerial

\* What a run knows of the acceptances is what stands.
LEMMA ReadAccepting ==
    ASSUME TablesTyped, NEW q, NEW prior,
           prior = DB(<<>>, resolution)!LoadPriorResolutions(Asked[q].left, Asked[q].right, Asked[q].period)
    PROVE  \A i \in DOMAIN prior :
              prior[i].kind = "accept_unmatched" =>
                 i \in Accepting /\ resolution[i].left = prior[i].left
<1>1. ASSUME NEW i \in DOMAIN prior
      PROVE  /\ i \in DOMAIN resolution /\ Store!Live(resolution[i])
             /\ prior[i] = DB(<<>>, resolution)!Decisions!Oriented(resolution[i], Asked[q].right)
  BY DEF DB!LoadPriorResolutions, DB!Decisions!PriorResolutions, DB!Decisions!AboutSources,
         DB!Decisions!Live, Store!Live
<1> SUFFICES ASSUME NEW i \in DOMAIN prior, prior[i].kind = "accept_unmatched"
             PROVE  i \in Accepting /\ resolution[i].left = prior[i].left
  OBVIOUS
<1>2. resolution[i].kind = "accept_unmatched" => resolution[i].right = NoRecord
  BY <1>1 DEF TablesTyped, IsSound
<1>3. ASSUME NEW row, NEW R, NEW decision, decision = DB(<<>>, resolution)!Decisions!Oriented(row, R)
      PROVE  decision.kind = row.kind /\ (row.right = NoRecord => decision.left = row.left)
  <2>1. CASE row.right # NoRecord /\ row.left[1] = R
    BY <1>3, <2>1 DEF DB!Decisions!Oriented
  <2>2. CASE ~(row.right # NoRecord /\ row.left[1] = R)
    BY <1>3, <2>2 DEF DB!Decisions!Oriented
  <2> QED
    BY <2>1, <2>2
<1>4. prior[i].kind = resolution[i].kind
  BY <1>1, <1>3
<1>5. prior[i].left = resolution[i].left
  BY <1>1, <1>2, <1>3, <1>4
<1> QED
  BY <1>1, <1>4, <1>5 DEF Accepting

\* Who sees the decisions with some of them stamped finds, for the record of
\* an acceptance that stands and is not among those, that acceptance.
LEMMA FindsAcceptance ==
    ASSUME HandInv, RaceInv, DecisionsSerial, NEW seen, NEW stamped,
           DOMAIN seen = DOMAIN resolution,
           \A j \in DOMAIN resolution :
              IF j \in stamped THEN ~Store!Live(seen[j]) ELSE seen[j] = resolution[j],
           NEW i \in Accepting \ stamped, NEW key, resolution[i].left = key
    PROVE  DB(<<>>, seen)!Decisions!ResolutionFor(key) = {i}
<1>2. DOMAIN seen = DOMAIN resolution
  OBVIOUS
<1>3. ASSUME NEW j \in DOMAIN resolution
      PROVE  /\ j \in stamped => ~DB(<<>>, seen)!Decisions!Live(seen[j])
             /\ j \notin stamped => seen[j] = resolution[j]
  BY DEF DB!Decisions!Live, Store!Live
<1>4. /\ i \in DOMAIN resolution /\ i \notin stamped /\ Store!Live(resolution[i])
      /\ resolution[i].kind = "accept_unmatched"
  BY DEF Accepting
<1>5. ASSUME NEW j
      PROVE  j \in DB(<<>>, seen)!Decisions!LiveTouching(key) =>
                /\ j \in DOMAIN resolution /\ Store!Live(resolution[j])
                /\ seen[j] = resolution[j]
                /\ key \in Store!Decisions!IdentitiesOf(resolution[j])
  BY <1>2, <1>3 DEF DB!Decisions!LiveTouching, DB!Decisions!Live, Store!Live,
     DB!Decisions!IdentitiesOf, Store!Decisions!IdentitiesOf
<1>6. i \in DB(<<>>, seen)!Decisions!LiveTouching(key) /\ seen[i] = resolution[i]
  BY <1>2, <1>3, <1>4 DEF DB!Decisions!LiveTouching, DB!Decisions!Live, Store!Live,
     DB!Decisions!IdentitiesOf
<1>7. ASSUME NEW j \in DB(<<>>, seen)!Decisions!LiveTouching(key),
             seen[j].kind # "reject_suggestion"
      PROVE  j = i
  <2>1. key \in Store!Decisions!IdentitiesOf(resolution[i]) \cap Store!Decisions!IdentitiesOf(resolution[j])
    BY <1>5 DEF Store!Decisions!IdentitiesOf
  <2>2. "reject_suggestion" \notin {resolution[i].kind, resolution[j].kind}
    BY <1>4, <1>5, <1>7
  <2>3. Store!Decisions!Contradicts(resolution[i], resolution[j])
    BY <2>1, <2>2 DEF Store!Decisions!Contradicts
  <2> QED
    BY <1>4, <1>5, <2>3, SerialAgree
<1> DEFINE live == DB(<<>>, seen)!Decisions!LiveTouching(key)
           governing == {j \in live : seen[j].kind # "reject_suggestion"}
<1>8. governing = {i}
  <2>1. i \in governing
    BY <1>4, <1>6
  <2>2. \A j \in governing : j = i
    BY <1>7
  <2> QED
    BY <2>1, <2>2
<1>9. DB(<<>>, seen)!Decisions!ResolutionFor(key) = {j \in {i} : \A o \in {i} : o <= j}
  BY <1>8 DEF DB!Decisions!ResolutionFor
<1>10. i \in Nat
  BY <1>4 DEF HandInv, IdInv, Bounded
<1> QED
  BY <1>9, <1>10

\* So does a run, which sees what it has stamped itself.
LEMMA RunFindsAcceptance ==
    ASSUME HandInv, RaceInv, DecisionsSerial, NEW q \in Requests, Kind(q) = "run",
           NEW i \in Accepting \ request[q].has.stamped, NEW key, resolution[i].left = key
    PROVE  DB(<<>>, DecisionsAfter(q))!Decisions!ResolutionFor(key) = {i}
<1> DEFINE stamped == request[q].has.stamped
<1>1. /\ request[q].has.id = None /\ None \notin DOMAIN resolution
      /\ \A j \in DOMAIN resolution : IsDecision(resolution[j])
  BY DEF HandInv, IdInv, OwnId
<1> DEFINE seen == DecisionsAfter(q)
<1>3. DOMAIN seen = DOMAIN resolution
  BY <1>1, DecisionsAfterRows
<1>4. ASSUME NEW j \in DOMAIN resolution
      PROVE  IF j \in stamped THEN ~Store!Live(seen[j]) ELSE seen[j] = resolution[j]
  <2>1. /\ j \notin stamped => seen[j] = resolution[j]
        /\ j \in stamped =>
              \E mark \in {"withdrawn", "superseded"} : seen[j] = [resolution[j] EXCEPT !.stamp = mark]
    BY <1>1, DecisionsAfterRows
  <2> HIDE DEF seen
  <2> QED
    BY <1>1, <2>1 DEF Store!Live, IsDecision, DecisionFields
<1> HIDE DEF stamped, seen
<1>5. i \in Accepting \ stamped
  BY DEF stamped
<1>6. DB(<<>>, seen)!Decisions!ResolutionFor(key) = {i}
  BY <1>3, <1>4, <1>5, FindsAcceptance
<1> QED
  BY <1>6 DEF seen

LEMMA RunReverses ==
    ASSUME HandInv, RaceInv, DecisionsSerial, NEW q \in Requests, Kind(q) = "run",
           NEW step, NEW has, RunMoves(q, step, has), Reverses(q, request[q].at, request[q].has)
    PROVE  Reverses(q, step, has)
<1> DEFINE had == request[q].has
<1> USE DEF At
<1>1. CASE ReadsLeft(q, step, has) \/ ReadsRight(q, step, has)
  BY <1>1 DEF ReadsLeft, ReadsRight, Reverses, Numbered
<1>2. CASE ReadsDecisions(q, step, has)
  <2>1. has.stamp = had.stamp /\ has.stamped = had.stamped
    BY <1>2 DEF ReadsDecisions, Only, HandFields
  <2>2. \A i \in DOMAIN has.prior :
           has.prior[i].kind = "accept_unmatched" =>
              i \in Accepting /\ resolution[i].left = has.prior[i].left
    BY <1>2, ReadAccepting DEF ReadsDecisions, HandInv
  <2> QED
    BY <1>2, <2>1, <2>2 DEF ReadsDecisions, Reverses, Numbered
<1>3. CASE WritesPairs(q, step, has)
  <2>1. /\ has.stamp = {} /\ has.stamped = {} /\ step = "find"
        /\ \A i \in DOMAIN had.prior :
              had.prior[i].kind = "accept_unmatched" =>
                 i \in Accepting /\ resolution[i].left = had.prior[i].left
    BY <1>3 DEF WritesPairs, Only, HandFields, Reverses
  <2>2. has.revoke = Runs!Revoked(ReadInput(q, had)) /\ ReadInput(q, had).prior = had.prior
    BY <1>3 DEF WritesPairs, Runs!MatchResult, ReadInput, DB!RunInput
  <2>3. ASSUME NEW key \in has.revoke
        PROVE  \E i \in Accepting : resolution[i].left = key
    <3>1. PICK in : in = ReadInput(q, had)
      OBVIOUS
    <3>2. PICK i \in DOMAIN in.prior : in.prior[i].kind = "accept_unmatched" /\ in.prior[i].left = key
      BY <2>2, <2>3, <3>1 DEF Runs!Revoked, Runs!Accepted, Runs!DecisionsOf
    <3> QED
      BY <2>1, <2>2, <3>1, <3>2
  <2> QED
    BY <2>1, <2>3 DEF Reverses, Numbered
<1>4. CASE FindsNone(q, step, has)
  <2>1. has.stamped = had.stamped
    BY <1>4 DEF FindsNone, Only, HandFields
  <2> QED
    BY <1>4, <2>1 DEF FindsNone, Reverses, Numbered
<1>5. CASE FindsOne(q, step, has)
  <2>1. PICK key \in had.revoke :
           /\ has.revoke = had.revoke \ {key}
           /\ has.stamp = DB(<<>>, DecisionsAfter(q))!Decisions!ResolutionFor(key)
    BY <1>5 DEF FindsOne
  <2>2. /\ had.stamp = {} /\ had.stamped \subseteq Accepting /\ has.stamped = had.stamped
        /\ \A k \in had.revoke : \E i \in Accepting \ had.stamped : resolution[i].left = k
    BY <1>5 DEF FindsOne, Only, HandFields, Reverses
  <2>3. PICK i \in Accepting \ had.stamped : resolution[i].left = key
    BY <2>1, <2>2
  <2>4. has.stamp = {i}
    BY <2>1, <2>3, RunFindsAcceptance
  <2>5. step = "stamp"
    BY <1>5, <2>4 DEF FindsOne
  <2>6. \A k \in has.revoke : \E j \in Accepting \ (has.stamp \cup has.stamped) : resolution[j].left = k
    BY <2>1, <2>2, <2>3, <2>4
  <2> QED
    BY <2>2, <2>3, <2>4, <2>5, <2>6 DEF Reverses, Numbered
<1>6. CASE StampsOne(q, step, has)
  <2>1. /\ has.stamp = had.stamp \ {NextStamp(q)} /\ has.stamped = had.stamped \cup {NextStamp(q)}
        /\ step = IF has.stamp = {} THEN "find" ELSE "stamp"
        /\ has.revoke = had.revoke
    BY <1>6 DEF StampsOne, Only, HandFields
  <2>2. /\ had.stamp # {} /\ had.stamp \subseteq Accepting /\ had.stamped \subseteq Accepting
        /\ \A key \in had.revoke :
              \E i \in Accepting \ (had.stamp \cup had.stamped) : resolution[i].left = key
    BY <1>6 DEF StampsOne, Reverses
  <2>3. NextStamp(q) \in had.stamp
    <3>1. had.stamp \subseteq Nat
      BY <2>2 DEF Accepting, HandInv, IdInv, Bounded
    <3> QED
      BY <2>2, <3>1, Least DEF NextStamp, Min
  <2>4. has.stamp \cup has.stamped = had.stamp \cup had.stamped /\ has.stamped \subseteq Accepting
    BY <2>1, <2>2, <2>3
  <2> QED
    BY <2>1, <2>2, <2>4 DEF Reverses, Numbered
<1>7. CASE WritesItems(q, step, has) \/ Finishes(q, step, has)
  <2>1. has.stamped = had.stamped
    BY <1>7 DEF WritesItems, Finishes, Only, HandFields
  <2>2. had.stamped \subseteq Accepting /\ step \in {"answer", "answered", "committing"}
    BY <1>7 DEF WritesItems, Finishes, Reverses, Numbered
  <2> QED
    BY <2>1, <2>2 DEF Reverses
<1> QED
  BY <1>1, <1>2, <1>3, <1>4, <1>5, <1>6, <1>7 DEF RunMoves

LEMMA ReversesStays ==
    ASSUME resolution' = resolution, NEW q, NEW step, NEW has, Reverses(q, step, has)
    PROVE  Reverses(q, step, has)'
<1>1. Accepting' = Accepting
  BY DEF Accepting, Store!Live
<1> QED
  BY <1>1 DEF Reverses

\* A step that stores no decision keeps all this.
LEMMA KeepsReverses ==
    ASSUME ReversalInv, HandInv', RaceInv', [Next]_vars, resolution' = resolution,
           NEW q \in Requests, NEW step, NEW after, NEW locks, NEW has,
           Becomes(q, step, after, locks, has),
           (Kind(q) = "run" /\ DecisionsSerial /\ Reverses(q, request[q].at, request[q].has)) =>
              Reverses(q, step, has)
    PROVE  ReversalInv'
<1> SUFFICES ASSUME DecisionsSerial', NEW p \in Requests, Kind(p) = "run",
                    ~Raced(p, {"decision", "run"})'
             PROVE  Reverses(p, request[p].at, request[p].has)'
  BY DEF ReversalInv, ReversesUnlessRaced, Kind
<1>1. IndInv
  BY DEF ReversalInv, HandInv, IdInv, DigestInv
<1>2. DecisionsSerial /\ ~Raced(p, {"decision", "run"})
  BY <1>1, RacesGoOn
<1>3. Reverses(p, request[p].at, request[p].has)
  BY <1>2 DEF ReversalInv, ReversesUnlessRaced
<1>4. Reverses(p, request'[p].at, request'[p].has)
  BY <1>2, <1>3 DEF Becomes
<1>5. PICK s, h : s = request'[p].at /\ h = request'[p].has
  OBVIOUS
<1>6. Reverses(p, s, h)'
  BY <1>4, <1>5, ReversesStays
<1> QED
  BY <1>5, <1>6 DEF Reverses

\* One that stores decisions races every other run on its way.
LEMMA CommitReverses ==
    ASSUME ReversalInv, HandInv', RaceInv', [Next]_vars,
           NEW q \in Requests, Kind(q) \in {"decision", "run"}, Commit(q)
    PROVE  ReversalInv'
<1> SUFFICES ASSUME NEW p \in Requests, Kind(p) = "run", ~Raced(p, {"decision", "run"})'
             PROVE  Reverses(p, request[p].at, request[p].has)'
  BY DEF ReversalInv, ReversesUnlessRaced, Kind
<1>1. RaceInv /\ Shaped
  BY DEF ReversalInv, HandInv, IdInv, DigestInv, IndInv
<1>2. PICK has : Becomes(q, "ended", request[q].after, {}, has)
  BY <1>1, CommitBecomes
<1>3. CASE p = q
  BY <1>2, <1>3 DEF Becomes, Reverses, Numbered
<1>4. CASE p # q
  <2>1. request'[p] = request[p]
    BY <1>2, <1>4 DEF Becomes
  <2>2. request[p].at \in {"new", "ended"}
    <3>1. SUFFICES ASSUME request[p].at \notin {"new", "ended"} PROVE FALSE
      OBVIOUS
    <3>2. Overlap(q, p)'
      BY <1>1, <1>4, <3>1, CommitOverlaps
    <3>3. Overlap(p, q)' <=> Overlap(q, p)'
      BY DEF Overlap
    <3> QED
      BY <1>4, <3>2, <3>3 DEF Raced, Kind
  <2> QED
    BY <2>1, <2>2 DEF Reverses, Numbered
<1> QED
  BY <1>3, <1>4

LEMMA NextReversal == ASSUME ReversalInv, [Next]_vars PROVE ReversalInv'
<1>1. HandInv' /\ RaceInv'
  BY NextHand, NextRaces DEF ReversalInv
<1>2. IndInv /\ Shaped /\ HandInv /\ RaceInv
  BY DEF ReversalInv, HandInv, IdInv, DigestInv, IndInv
<1>3. CASE UNCHANGED vars
  <2>1. request' = request /\ resolution' = resolution
    BY <1>3 DEF vars, tables
  <2>2. SUFFICES ASSUME DecisionsSerial', NEW p \in Requests, Kind(p) = "run", ~Raced(p, {"decision", "run"})'
                 PROVE  Reverses(p, request[p].at, request[p].has)'
    BY <1>1 DEF ReversalInv, ReversesUnlessRaced, Kind, Reverses
  <2>3. DecisionsSerial /\ ~Raced(p, {"decision", "run"})
    BY <1>2, <2>2, RacesGoOn
  <2>4. PICK s, h : s = request[p].at /\ h = request[p].has
    OBVIOUS
  <2>5. Reverses(p, s, h)'
    BY <2>1, <2>2, <2>3, <2>4, ReversesStays DEF ReversalInv, ReversesUnlessRaced
  <2> QED
    BY <2>1, <2>4, <2>5 DEF Reverses
<1>4. CASE Restart
  <2>1. request' = [p \in Requests |-> AfterRestart(p)]
    BY <1>4 DEF Restart, AfterRestart
  <2>2. \A p \in Requests : request'[p].at \in {"new", "ended"}
    BY <2>1, OpenSteps, FinishedRequest DEF AfterRestart
  <2>3. \A p \in Requests : Reverses(p, request[p].at, request[p].has)'
    BY <2>2 DEF Reverses, Numbered
  <2> QED
    BY <1>1, <2>3 DEF ReversalInv, ReversesUnlessRaced
<1>5. ASSUME NEW q \in Requests, NEW step, NEW after, NEW locks, NEW has,
             Becomes(q, step, after, locks, has), step = "ended" \/ Kind(q) # "run",
             resolution' = resolution
      PROVE  ReversalInv'
  <2>1. Kind(q) = "run" => Reverses(q, step, has)
    BY <1>5 DEF Reverses, Numbered
  <2> QED
    BY <1>1, <1>5, <2>1, KeepsReverses
<1>6. ASSUME NEW q \in Requests, Begin(q)
      PROVE  ReversalInv'
  <2>1. Becomes(q, FirstStep[Kind(q)], Ended, request[q].locks, request[q].has)
    BY <1>2, <1>6, BeginBecomes
  <2>2. Kind(q) = "run" => Reverses(q, FirstStep[Kind(q)], request[q].has)
    BY DEF Reverses, FirstStep, Numbered
  <2>3. resolution' = resolution
    BY <1>6 DEF Begin, tables
  <2> QED
    BY <1>1, <2>1, <2>2, <2>3, KeepsReverses
<1>7. ASSUME NEW q \in Requests, Stops(q)
      PROVE  ReversalInv'
  <2>1. PICK has : Becomes(q, "ended", request[q].after, {}, has)
    BY <1>2, <1>7, FinishedBecomes DEF Stops, Ends
  <2>2. resolution' = resolution
    BY <1>7 DEF Stops, Ends, tables
  <2> QED
    BY <1>5, <2>1, <2>2
<1>8. ASSUME NEW q \in Requests, Commit(q)
      PROVE  ReversalInv'
  <2>1. PICK has : Becomes(q, "ended", request[q].after, {}, has)
    BY <1>2, <1>8, CommitBecomes
  <2>2. CASE Kind(q) \in {"decision", "run"}
    BY <1>1, <1>8, <2>2, CommitReverses
  <2>3. CASE Kind(q) \notin {"decision", "run"}
    <3>1. resolution' = resolution
      BY <1>8, <2>3 DEF Commit
    <3> QED
      BY <1>5, <2>1, <3>1
  <2> QED
    BY <2>2, <2>3
<1>9. ASSUME NEW q \in Requests, Kind(q) # "run", Reads(q) \/ Wrote(q) \/ Passes(q) \/ Answer(q)
      PROVE  ReversalInv'
  <2>1. \E step, locks, has : Becomes(q, step, request[q].after, locks, has) /\ resolution' = resolution
    <3>1. CASE Reads(q)
      BY <1>2, <3>1, GoesOnBecomes DEF Reads, tables
    <3>2. CASE Wrote(q)
      BY <1>2, <3>2, WritingBecomes DEF Wrote, tables
    <3>3. CASE Passes(q)
      BY <1>2, <3>3, PassesBecomes DEF Passes, tables
    <3>4. CASE Answer(q)
      BY <1>2, <3>4, AnswerBecomes DEF Answer, tables
    <3> QED
      BY <1>9, <3>1, <3>2, <3>3, <3>4
  <2> QED
    BY <1>5, <1>9, <2>1
<1>10. ASSUME NEW q \in Requests, Kind(q) = "run", NEW step, NEW locks, NEW has,
              Becomes(q, step, request[q].after, locks, has), tables' = tables, RunMoves(q, step, has)
       PROVE  ReversalInv'
  <2>1. resolution' = resolution
    BY <1>10 DEF tables
  <2>2. (DecisionsSerial /\ Reverses(q, request[q].at, request[q].has)) => Reverses(q, step, has)
    BY <1>2, <1>10, RunReverses
  <2> QED
    BY <1>1, <1>10, <2>1, <2>2, KeepsReverses
<1> QED
  BY <1>2, <1>3, <1>4, <1>6, <1>7, <1>8, <1>9, <1>10, Moves

\* A run that no decision and no other run overlapped reverses acceptances
\* that stood and nothing else, if decisions took turns: then the row found
\* for a record that an acceptance is about is that acceptance.
THEOREM UnracedRunsReverseAcceptances == Spec => UnracedRunReversesAcceptances
<1>1. Init => ReversalInv
  <2> SUFFICES ASSUME Init PROVE ReversalInv
    OBVIOUS
  <2>1. HandInv /\ RaceInv
    BY InitHand, InitRaces
  <2>2. \A q \in Requests : request[q].at = "new"
    BY DEF Init, New
  <2> QED
    BY <2>1, <2>2 DEF ReversalInv, ReversesUnlessRaced, Reverses, Numbered
<1>2. ReversalInv /\ [Next]_vars => ReversalInv'
  BY NextReversal
<1>3. ASSUME ReversalInv, [Next]_vars, NEW q \in CommittedNow,
             Kind(q) = "run", ~Raced(q, {"decision", "run"}), DecisionsSerial,
             NEW i \in DOMAIN resolution, resolution'[i] # resolution[i]
      PROVE  resolution[i].kind = "accept_unmatched" /\ Store!Live(resolution[i])
  <2>1. /\ Shaped /\ \A j \in DOMAIN resolution : IsDecision(resolution[j])
        /\ OwnId(q) /\ None \notin DOMAIN resolution
    BY <1>3 DEF ReversalInv, HandInv, IdInv, DigestInv, IndInv, CommittedNow
  <2>2. Commit(q) /\ q \in Requests
    BY <1>3, <2>1, CommittedCommits DEF CommittedNow
  <2>3. resolution' = DecisionsAfter(q) /\ request[q].has.id = None
    BY <1>3, <2>1, <2>2 DEF Commit, OwnId
  <2>4. i \in request[q].has.stamped
    BY <1>3, <2>1, <2>2, <2>3, DecisionsAfterRows
  <2>5. Reverses(q, "committing", request[q].has)
    BY <1>3, <2>2 DEF ReversalInv, ReversesUnlessRaced, Commit, At
  <2> QED
    BY <2>4, <2>5 DEF Reverses, Numbered, Accepting
<1>4. ReversalInv /\ [Next]_vars =>
         [\A q \in CommittedNow :
             (Kind(q) = "run" /\ ~Raced(q, {"decision", "run"}) /\ DecisionsSerial) =>
                 \A i \in DOMAIN resolution :
                     resolution'[i] # resolution[i] =>
                         resolution[i].kind = "accept_unmatched" /\ Store!Live(resolution[i])]_vars
  BY <1>3
<1> QED
  BY <1>1, <1>2, <1>4, PTL DEF Spec, UnracedRunReversesAcceptances

----------------------------------------------------------------------------
(* While no two requests have overlapped, a run has in hand, step by step, *)
(* what the run of Reconcile makes of the tables at once.                  *)

\* What matching makes of the two current deliveries and the live decisions.
RunResult(q) == Runs!MatchResult(Runs!RunInput(Asked[q].left, Asked[q].right, Asked[q].period))

\* The decisions behind some records, as the tables have them.
Behind(keys) == UNION {Runs!Decisions!ResolutionFor(key) : key \in keys}

\* The row of a run with a result.
RowOf(q, result) ==
    LET L      == Asked[q].left
        R      == Asked[q].right
        period == Asked[q].period
        items  == Runs!RecordItems(result, period) \cup
                     Runs!WithdrawnItems(L, period) \cup Runs!WithdrawnItems(R, period)
    IN  [left      |-> L,
         right     |-> R,
         period    |-> period,
         files     |-> Len(file_batch),
         decisions |-> Len(resolution),
         pairs     |-> Runs!PairRows(result),
         items     |-> items,
         counts    |-> Runs!Counts(items, Runs!RejectedCount(L, period) + Runs!RejectedCount(R, period))]

\* There is something to reconcile, and no reference stands for two rows.
Startable(q) ==
    /\ \E source \in {Asked[q].left, Asked[q].right} : Runs!CurrentRecords(source, Asked[q].period) # {}
    /\ \A source \in {Asked[q].left, Asked[q].right} : Runs!Unambiguous(source, Asked[q].period)

Yields(q, result, step, has) ==
    /\ result = RunResult(q)
    /\ step = "pairs" =>
          has.prior = Runs!LoadPriorResolutions(Asked[q].left, Asked[q].right, Asked[q].period)
    /\ step \in {"find", "stamp", "items"} \cup Numbered => Startable(q)
    /\ step \in {"find", "stamp", "items"} =>
          /\ has.row.files = Len(file_batch) /\ has.row.decisions = Len(resolution)
          /\ has.row.pairs = Runs!PairRows(result)
          /\ has.row.items = Runs!RecordItems(result, Asked[q].period)
    /\ step \in {"find", "stamp"} =>
          has.stamped \cup has.stamp \cup Behind(has.revoke) = Runs!RevokedRows(result)
    /\ step \in {"items"} \cup Numbered => has.stamped = Runs!RevokedRows(result)
    /\ step \in Numbered => has.row = RowOf(q, result)

\* The decisions a run reads are those of Reconcile.
LEMMA PriorAsRead ==
    ASSUME NEW L, NEW R, NEW period
    PROVE  DB(<<>>, resolution)!LoadPriorResolutions(L, R, period) = Runs!LoadPriorResolutions(L, R, period)
<1>1. \A row : /\ DB(<<>>, resolution)!Decisions!AboutSources(row, L, R) <=> Runs!Decisions!AboutSources(row, L, R)
               /\ DB(<<>>, resolution)!Decisions!Oriented(row, R) = Runs!Decisions!Oriented(row, R)
  BY DEF DB!Decisions!AboutSources, DB!Decisions!Live, DB!Decisions!Oriented,
     Runs!Decisions!AboutSources, Runs!Decisions!Live, Runs!Decisions!Oriented
<1>2. DB(<<>>, resolution)!Decisions!PriorResolutions(L, R) = Runs!Decisions!PriorResolutions(L, R)
  BY <1>1 DEF DB!Decisions!PriorResolutions, Runs!Decisions!PriorResolutions
<1> QED
  BY <1>2 DEF DB!LoadPriorResolutions, Runs!LoadPriorResolutions

\* The decision behind a record is found in the table whatever the files.
LEMMA BehindAsRead ==
    ASSUME NEW files, NEW key
    PROVE  DB(files, resolution)!Decisions!ResolutionFor(key) = Runs!Decisions!ResolutionFor(key)
<1>1. DB(files, resolution)!Decisions!LiveTouching(key) = Runs!Decisions!LiveTouching(key)
  BY DEF DB!Decisions!LiveTouching, DB!Decisions!Live, DB!Decisions!IdentitiesOf,
     Runs!Decisions!LiveTouching, Runs!Decisions!Live, Runs!Decisions!IdentitiesOf
<1> QED
  BY <1>1 DEF DB!Decisions!ResolutionFor, Runs!Decisions!ResolutionFor

\* The rows of pairs are the same, whatever deliveries they were made of.
LEMMA PairsAsWritten ==
    ASSUME NEW files, NEW result
    PROVE  DB(files, resolution)!PairRows(result) = Runs!PairRows(result)
<1>1. \A p, manual : DB(files, resolution)!ResolutionBehind(p, manual) = Runs!ResolutionBehind(p, manual)
  BY BehindAsRead DEF DB!ResolutionBehind, Runs!ResolutionBehind
<1>2. \A p, manual : DB(files, resolution)!PairRow(p, manual) = Runs!PairRow(p, manual)
  BY <1>1, SameVerdict DEF DB!PairRow, Runs!PairRow
<1> QED
  BY <1>2 DEF DB!PairRows, Runs!PairRows

----------------------------------------------------------------------------
(* It stays so while the tables do.                                        *)

\* What is looked up among the decisions.
LEMMA DecisionsStay ==
    ASSUME resolution' = resolution
    PROVE  /\ \A key : Runs!Decisions!ResolutionFor(key)' = Runs!Decisions!ResolutionFor(key)
           /\ \A L, R, period : Runs!LoadPriorResolutions(L, R, period)' = Runs!LoadPriorResolutions(L, R, period)
           /\ \A result : Runs!PairRows(result)' = Runs!PairRows(result)
           /\ \A result : Runs!RevokedRows(result)' = Runs!RevokedRows(result)
           /\ \A keys : Behind(keys)' = Behind(keys)
<1>1. ASSUME NEW key
      PROVE  Runs!Decisions!ResolutionFor(key)' = Runs!Decisions!ResolutionFor(key)
  <2>1. Runs!Decisions!LiveTouching(key)' = Runs!Decisions!LiveTouching(key)
    BY DEF Runs!Decisions!LiveTouching
  <2> QED
    BY <2>1 DEF Runs!Decisions!ResolutionFor
<1>2. ASSUME NEW L, NEW R, NEW period
      PROVE  Runs!LoadPriorResolutions(L, R, period)' = Runs!LoadPriorResolutions(L, R, period)
  BY DEF Runs!LoadPriorResolutions, Runs!Decisions!PriorResolutions
<1>3. ASSUME NEW result
      PROVE  Runs!PairRows(result)' = Runs!PairRows(result)
  <2>1. ASSUME NEW p, NEW manual
        PROVE  Runs!PairRow(p, manual)' = Runs!PairRow(p, manual)
    BY <1>1 DEF Runs!PairRow, Runs!ResolutionBehind
  <2> QED
    BY <2>1 DEF Runs!PairRows
<1>4. ASSUME NEW result
      PROVE  Runs!RevokedRows(result)' = Runs!RevokedRows(result)
  BY <1>1 DEF Runs!RevokedRows
<1>5. ASSUME NEW keys
      PROVE  Behind(keys)' = Behind(keys)
  BY <1>1 DEF Behind
<1> QED
  BY <1>1, <1>2, <1>3, <1>4, <1>5

\* What a run has in hand.
LEMMA RunStays ==
    ASSUME tables' = tables, NEW q, NEW result, NEW step, NEW has, Yields(q, result, step, has)
    PROVE  Yields(q, result, step, has)'
<1> DEFINE L      == Asked[q].left
           R      == Asked[q].right
           period == Asked[q].period
<1>1. file_batch' = file_batch /\ resolution' = resolution
  BY DEF tables
<1>2. ASSUME NEW source
      PROVE  /\ Runs!Side(source, period)' = Runs!Side(source, period)
             /\ Runs!CurrentRecords(source, period)' = Runs!CurrentRecords(source, period)
             /\ Runs!Unambiguous(source, period)' <=> Runs!Unambiguous(source, period)
             /\ Runs!WithdrawnItems(source, period)' = Runs!WithdrawnItems(source, period)
             /\ Runs!RejectedCount(source, period)' = Runs!RejectedCount(source, period)
  <2>1. Runs!Current(source, period)' = Runs!Current(source, period)
    BY <1>1, CurrentStays
  <2>2. Runs!CurrentRecords(source, period)' = Runs!CurrentRecords(source, period)
    BY <1>1, <2>1 DEF Runs!CurrentRecords
  <2> QED
    BY <1>1, <2>2, CurrentStays
<1>3. RunResult(q)' = RunResult(q)
  <2>1. Runs!RunInput(L, R, period)' = Runs!RunInput(L, R, period)
    BY <1>1, <1>2, DecisionsStay DEF Runs!RunInput
  <2> QED
    BY <2>1 DEF RunResult
<1>4. Runs!RecordItems(result, period)' = Runs!RecordItems(result, period)
  <2>1. \A source : Runs!CurrentFile(source, period)' = Runs!CurrentFile(source, period)
    BY <1>1, CurrentStays
  <2> QED
    BY <2>1 DEF Runs!RecordItems
<1>5. RowOf(q, result)' = RowOf(q, result)
  <2>1. /\ Runs!WithdrawnItems(L, period)' = Runs!WithdrawnItems(L, period)
        /\ Runs!WithdrawnItems(R, period)' = Runs!WithdrawnItems(R, period)
        /\ Runs!RejectedCount(L, period)' = Runs!RejectedCount(L, period)
        /\ Runs!RejectedCount(R, period)' = Runs!RejectedCount(R, period)
    BY <1>2
  <2>2. Runs!PairRows(result)' = Runs!PairRows(result)
    BY <1>1, DecisionsStay
  <2>3. Len(file_batch)' = Len(file_batch) /\ Len(resolution)' = Len(resolution)
    BY <1>1
  <2> QED
    BY <2>1, <2>2, <2>3, <1>4, Zenon DEF RowOf
<1>6. Startable(q)' <=> Startable(q)
  BY <1>2 DEF Startable
<1> QED
  BY <1>1, <1>3, <1>4, <1>5, <1>6, DecisionsStay DEF Yields

----------------------------------------------------------------------------
(* Every step of a run keeps it so.                                        *)

\* What a run matches is what the run of Reconcile matches, which would start.
LEMMA RunReadsWhatIsThere ==
    ASSUME HandInv, InOrderNow, NEW q \in Requests, Kind(q) = "run",
           At(q, "pairs"), Fresh(q, "pairs", request[q].has),
           request[q].has.prior = Runs!LoadPriorResolutions(Asked[q].left, Asked[q].right, Asked[q].period)
    PROVE  /\ Runs!MatchResult(ReadInput(q, request[q].has)) = RunResult(q)
           /\ Startable(q)
<1> DEFINE had    == request[q].has
           L      == Asked[q].left
           R      == Asked[q].right
           period == Asked[q].period
           files  == AsRead(had.read)
           in     == ReadInput(q, had)
<1>1. /\ in.leftSource = L /\ in.rightSource = R
      /\ in.left = Runs!Side(L, period) /\ in.right = Runs!Side(R, period)
      /\ in.prior = had.prior
      /\ Runs!Unambiguous(L, period) /\ Runs!Unambiguous(R, period)
  BY FreshInput
<1>2. in = [leftSource |-> in.leftSource, rightSource |-> in.rightSource, left |-> in.left,
            right |-> in.right, prior |-> in.prior]
  BY DEF ReadInput, DB!RunInput
<1>3. in = Runs!RunInput(L, R, period)
  <2> HIDE DEF in
  <2> QED
    BY <1>1, <1>2 DEF Runs!RunInput
<1>4. \E source \in {L, R} : Runs!CurrentRecords(source, period) # {}
  <2>1. had.read = Runs!Current(L, period) \cup Runs!Current(R, period)
    BY DEF Fresh
  <2>2. had.read \subseteq DOMAIN file_batch /\ ~Refused(Asked[q], files)
    BY DEF HandInv, Holds, RunHolds, At
  <2>3. PICK b \in DOMAIN files : files[b].records # <<>>
    <3>1. DB(files, <<>>)!Unambiguous(L, period) /\ DB(files, <<>>)!Unambiguous(R, period)
      BY <1>1, <2>1, CurrentAsRead
    <3> QED
      BY <2>2, <3>1 DEF Refused
  <2>4. b \in had.read /\ file_batch[b] \in Store!Files!FileBatch /\ files[b].records = file_batch[b].records
    BY <2>2, <2>3 DEF AsRead, HandInv, TablesTyped, Store!Files!FileBatch
  <2>5. PICK source \in {L, R} : b \in Runs!Current(source, period)
    BY <2>1, <2>4
  <2>6. DOMAIN file_batch[b].records # {}
    <3>1. file_batch[b].records \in Seq(RecordRow) /\ file_batch[b].records # <<>>
      BY <2>3, <2>4 DEF Store!Files!FileBatch
    <3>2. Len(file_batch[b].records) # 0
      BY <3>1, EmptySeq
    <3>3. 1 \in DOMAIN file_batch[b].records
      BY <3>1, <3>2, LenProperties
    <3> QED
      BY <3>3
  <2>7. PICK n \in DOMAIN file_batch[b].records : TRUE
    BY <2>6
  <2>8. <<b, n>> \in Runs!CurrentRecords(source, period)
    BY <2>5, <2>7 DEF Runs!CurrentRecords
  <2> QED
    BY <2>5, <2>8
<1> QED
  BY <1>1, <1>3, <1>4 DEF RunResult, Startable

\* The acceptances to revoke become, one by one, the rows stamped.
LEMMA RunYields ==
    ASSUME HandInv, RaceInv, InOrderNow, DecisionsSerial,
           \E S : file_batch \in Seq(S), \E S : resolution \in Seq(S),
           NEW q \in Requests, Kind(q) = "run", NEW result, NEW step, NEW has,
           RunMoves(q, step, has), Fresh(q, request[q].at, request[q].has),
           Reverses(q, request[q].at, request[q].has),
           Yields(q, result, request[q].at, request[q].has)
    PROVE  Yields(q, result, step, has)
<1> DEFINE had    == request[q].has
           L      == Asked[q].left
           R      == Asked[q].right
           period == Asked[q].period
<1>0. result = RunResult(q)
  BY DEF Yields
<1>1. CASE ReadsLeft(q, step, has) \/ ReadsRight(q, step, has)
  BY <1>0, <1>1 DEF Yields, ReadsLeft, ReadsRight, Numbered
<1>2. CASE ReadsDecisions(q, step, has)
  BY <1>0, <1>2, PriorAsRead DEF Yields, ReadsDecisions, Numbered
<1>3. CASE WritesPairs(q, step, has)
  <2>1. At(q, "pairs") /\ Fresh(q, "pairs", had) /\ step = "find"
    BY <1>3 DEF WritesPairs, At
  <2>2. had.prior = Runs!LoadPriorResolutions(L, R, period)
    BY <2>1 DEF Yields, At
  <2>3. Runs!MatchResult(ReadInput(q, had)) = result /\ Startable(q)
    BY <1>0, <2>1, <2>2, RunReadsWhatIsThere
  <2>4. /\ DB(AsRead(had.read), <<>>)!RecordItems(result, period) = Runs!RecordItems(result, period)
    BY <2>1, <2>3, FreshInput
  <2>5. /\ has.revoke = result.revocations
        /\ has.row.files = Cardinality(DOMAIN file_batch)
        /\ has.row.decisions = Cardinality(DOMAIN resolution)
        /\ has.row.pairs = Runs!PairRows(result)
        /\ has.row.items = Runs!RecordItems(result, period)
    BY <1>3, <2>3, <2>4, PairsAsWritten DEF WritesPairs
  <2>6. ASSUME NEW S, NEW s \in Seq(S)
        PROVE  Cardinality(DOMAIN s) = Len(s)
    <3>1. Len(s) \in Nat /\ DOMAIN s = 1..Len(s)
      BY LenProperties
    <3>2. ASSUME NEW n \in Nat
          PROVE  Cardinality(1..n) = n
      <4>1. 1 \in Int /\ n \in Int
        OBVIOUS
      <4>2. Cardinality(1..n) = IF 1 > n THEN 0 ELSE n - 1 + 1
        BY <4>1, FS_Interval
      <4> QED
        BY <4>2
    <3> QED
      BY <3>1, <3>2
  <2>7. has.stamp = {} /\ has.stamped = {}
    BY <1>3, <2>1 DEF WritesPairs, Only, HandFields, Reverses, At
  <2>8. Behind(has.revoke) = Runs!RevokedRows(result)
    BY <2>5 DEF Behind, Runs!RevokedRows
  <2> QED
    BY <1>0, <2>1, <2>3, <2>5, <2>6, <2>7, <2>8 DEF Yields, Numbered
<1>4. CASE FindsNone(q, step, has)
  <2>1. /\ At(q, "find") /\ step = "items" /\ had.revoke = {} /\ had.stamp = {}
        /\ has.stamped = had.stamped /\ has.row = had.row
    BY <1>4 DEF FindsNone, Only, HandFields, Reverses, At
  <2>2. Behind(had.revoke) = {}
    BY <2>1 DEF Behind
  <2> QED
    BY <1>0, <2>1, <2>2 DEF Yields, Numbered, At
<1>5. CASE FindsOne(q, step, has)
  <2>1. PICK key \in had.revoke :
           /\ has.revoke = had.revoke \ {key}
           /\ has.stamp = DB(<<>>, DecisionsAfter(q))!Decisions!ResolutionFor(key)
    BY <1>5 DEF FindsOne
  <2>2. /\ At(q, "find") /\ step \in {"find", "stamp"} /\ had.stamp = {}
        /\ has.stamped = had.stamped /\ has.row = had.row
    BY <1>5 DEF FindsOne, Only, HandFields, Reverses, At
  <2>3. PICK i \in Accepting \ had.stamped : resolution[i].left = key
    BY <2>1, <2>2 DEF Reverses, At
  <2>4. has.stamp = {i}
    BY <2>1, <2>3, RunFindsAcceptance
  <2>5. DB(<<>>, resolution)!Decisions!ResolutionFor(key) = {i}
    <3> DEFINE seen    == resolution
               stamped == {}
    <3>1. /\ DOMAIN seen = DOMAIN resolution
          /\ \A j \in DOMAIN resolution :
                IF j \in stamped THEN ~Store!Live(seen[j]) ELSE seen[j] = resolution[j]
          /\ i \in Accepting \ stamped
      BY <2>3
    <3> HIDE DEF seen, stamped
    <3>2. DB(<<>>, seen)!Decisions!ResolutionFor(key) = {i}
      BY <2>3, <3>1, FindsAcceptance
    <3> QED
      BY <3>2 DEF seen
  <2>6. Runs!Decisions!ResolutionFor(key) = {i}
    BY <2>5, BehindAsRead
  <2>7. Behind(had.revoke) = {i} \cup Behind(has.revoke)
    <3>1. had.revoke = {key} \cup has.revoke
      BY <2>1
    <3> QED
      BY <2>6, <3>1 DEF Behind
  <2>8. had.stamped \cup had.stamp \cup Behind(had.revoke) = Runs!RevokedRows(result)
    BY <2>2 DEF Yields, At
  <2>9. has.stamped \cup has.stamp \cup Behind(has.revoke) = Runs!RevokedRows(result)
    BY <2>2, <2>4, <2>7, <2>8
  <2> QED
    BY <1>0, <2>2, <2>9 DEF Yields, Numbered, At
<1>6. CASE StampsOne(q, step, has)
  <2>1. /\ At(q, "stamp") /\ step \in {"find", "stamp"}
        /\ has.stamp = had.stamp \ {NextStamp(q)}
        /\ has.stamped = had.stamped \cup {NextStamp(q)}
        /\ has.revoke = had.revoke /\ has.row = had.row
    BY <1>6 DEF StampsOne, Only, HandFields, At
  <2>2. NextStamp(q) \in had.stamp
    <3>1. had.stamp # {} /\ had.stamp \subseteq DOMAIN resolution /\ DOMAIN resolution \subseteq Nat
      BY <2>1 DEF Reverses, At, Accepting, HandInv, IdInv, Bounded
    <3> QED
      BY <3>1, Least DEF NextStamp, Min
  <2>3. had.stamped \cup had.stamp \cup Behind(had.revoke) = Runs!RevokedRows(result)
    BY <2>1 DEF Yields, At
  <2>4. has.stamped \cup has.stamp \cup Behind(has.revoke) = Runs!RevokedRows(result)
    BY <2>1, <2>2, <2>3
  <2> QED
    BY <1>0, <2>1, <2>4 DEF Yields, Numbered, At
<1>7. CASE WritesItems(q, step, has)
  <2>1. At(q, "items") /\ step = "answer" /\ has.stamped = had.stamped
    BY <1>7 DEF WritesItems, Only, HandFields
  <2>2. has.row = RowOf(q, result)
    BY <1>7, <2>1, FreshRow DEF Yields, RowOf, At
  <2> QED
    BY <1>0, <2>1, <2>2 DEF Yields, Numbered, At
<1>8. CASE Finishes(q, step, has)
  BY <1>0, <1>8 DEF Finishes, Yields, Numbered, Only, HandFields, At
<1> QED
  BY <1>1, <1>2, <1>3, <1>4, <1>5, <1>6, <1>7, <1>8 DEF RunMoves

----------------------------------------------------------------------------
(* The other requests, while no two have overlapped.                       *)

\* No two requests have been open at the same time.
NobodyRaced == \A p, q \in Begun : p # q => ~Overlap(p, q)

\* The tables are sequences, to which requests that are over have added.
InSequence ==
    /\ file_batch \in Seq(Store!Files!FileBatch)
    /\ resolution \in Seq(Store!Decisions!Resolution)
    /\ \E S : run \in Seq(S)
    /\ Len(file_batch) <= Len(Loaded) + Cardinality(Ended)
    /\ Len(resolution) <= Len(Decided) + Cardinality(Ended)
    /\ Len(run) <= Cardinality(Ended)

\* An upload is of a file that is accepted, and has the next number.
UploadAsOne(q, step, has) ==
    Kind(q) = "upload" =>
        /\ step \in Passed => /\ Parsed[Asked[q].source][Asked[q].content].readable
                              /\ Store!Files!ValidPeriod(Asked[q].period)
        /\ step \in Numbered => has.id = Len(file_batch) + 1 /\ ~RowsFail(q)

\* A decision stamps what it contradicts, and has the next number.
DecisionAsOne(q, step, has) ==
    Kind(q) = "decision" =>
        /\ step = "stamp" => has.stamp # {} /\ has.stamp \cup has.stamped = Colliding(q)
        /\ step \in {"record"} \cup Numbered => has.stamped = Colliding(q)
        /\ step \in Numbered => has.id = Len(resolution) + 1

RunAsOne(q, step, has) == Kind(q) = "run" => \E result : Yields(q, result, step, has)

AsOne(q, step, has) ==
    /\ step \notin Numbered \cup {"ended"} => has.id = None
    /\ UploadAsOne(q, step, has) /\ DecisionAsOne(q, step, has) /\ RunAsOne(q, step, has)

LEMMA OneOpen ==
    ASSUME RaceInv, NobodyRaced, NEW p \in Open, NEW q \in Open
    PROVE  p = q
<1>1. /\ p \in Begun \ Ended /\ q \in Begun \ Ended
      /\ request[p].after \subseteq Ended /\ request[q].after \subseteq Ended
  BY DEF Open, Begun, RaceInv
<1> QED
  BY <1>1 DEF NobodyRaced, Overlap

\* Alone, a request gives its row the number that follows the last.
LEMMA NextNumber ==
    ASSUME RaceInv, NobodyRaced, NEW q \in Open, request[q].has.id = None,
           NEW S, NEW rows \in Seq(S)
    PROVE  NewId(q, rows) = Len(rows) + 1
<1> DEFINE others == {o \in Open : Kind(o) = Kind(q)}
           ids    == {request[p].has.id : p \in others}
           all    == {None} \cup DOMAIN rows \cup ids
<1>1. ids = {None}
  <2>1. others = {q}
    BY OneOpen
  <2> QED
    BY <2>1
<1>2. Len(rows) \in Nat /\ DOMAIN rows = 1..Len(rows)
  BY LenProperties
<1>3. NewId(q, rows) = 1 + Max(all)
  BY DEF NewId
<1> HIDE DEF ids
<1>4. all = 0..Len(rows)
  BY <1>1, <1>2 DEF None
<1> HIDE DEF all
<1>5. Max(all) \in all /\ \A n \in all : n <= Max(all)
  <2>1. all \in SUBSET Nat /\ all # {} /\ \A n \in all : n <= Len(rows)
    BY <1>2, <1>4
  <2> QED
    BY <1>2, <2>1, Greatest
<1>6. Max(all) = Len(rows)
  <2>1. Len(rows) \in all
    BY <1>2, <1>4
  <2> QED
    BY <1>2, <1>4, <1>5, <2>1
<1> QED
  BY <1>2, <1>3, <1>6

\* An upload or a decision goes on as one step would.
LEMMA OtherAsOne ==
    ASSUME HandInv, RaceInv, NobodyRaced, InSequence, NEW q \in Requests, Kind(q) # "run",
           AsOne(q, request[q].at, request[q].has),
           Reads(q) \/ Wrote(q) \/ Passes(q) \/ Answer(q)
    PROVE  \E step, locks, has :
              /\ Becomes(q, step, request[q].after, locks, has)
              /\ tables' = tables /\ AsOne(q, step, has)
<1> DEFINE had == request[q].has
<1>0. Shaped /\ IndInv /\ IdInv
  BY DEF HandInv, IdInv, DigestInv, IndInv
<1>1. CASE Reads(q)
  <2>1. PICK step, has :
           /\ <<request[q].at, step>> \in ReadingSteps
           /\ has.id \in {None, had.id}
           /\ request[q].at = "answered" => has = had
           /\ request[q].at = "collisions" =>
                 /\ has.stamp = Colliding(q) /\ has.stamped = {}
                 /\ (step = "record" <=> Colliding(q) = {})
           /\ GoesOn(q, step, has)
    BY <1>1 DEF Reads
  <2>2. Becomes(q, step, request[q].after, request[q].locks, has) /\ tables' = tables
    BY <1>0, <2>1, GoesOnBecomes
  <2>3. AsOne(q, step, has)
    <3>1. Fits(q, request[q].at)
      BY <1>0 DEF IndInv
    <3>2. step \notin Numbered \cup {"ended"} => has.id = None
      BY <2>1 DEF AsOne, ReadingSteps, Numbered
    <3>3. UploadAsOne(q, step, has)
      BY <2>1, <3>1 DEF AsOne, UploadAsOne, ReadingSteps, Numbered, Passed, Fits
    <3>4. DecisionAsOne(q, step, has)
      BY <2>1, <3>1 DEF AsOne, DecisionAsOne, ReadingSteps, Numbered, Fits
    <3> QED
      BY <3>2, <3>3, <3>4 DEF AsOne, RunAsOne
  <2> QED
    BY <2>2, <2>3
<1>2. CASE Wrote(q)
  <2>1. PICK step, has :
           /\ <<request[q].at, step>> \in WritingSteps(q)
           /\ has.id = CASE request[q].at = "insert" -> NewId(q, file_batch)
                        [] request[q].at = "record" -> NewId(q, resolution)
                        [] OTHER                    -> had.id
           /\ request[q].at = "insert" => ~RowsFail(q)
           /\ request[q].at = "stamp" =>
                 /\ has.stamp = had.stamp \ {NextStamp(q)}
                 /\ has.stamped = had.stamped \cup {NextStamp(q)}
                 /\ step = IF has.stamp = {} THEN AfterStamps[Kind(q)] ELSE "stamp"
           /\ request[q].at = "record" => has.stamp = had.stamp /\ has.stamped = had.stamped
           /\ Writing(q, step, has)
    BY <1>2 DEF Wrote
  <2>2. Becomes(q, step, request[q].after, request[q].locks \cup Needs(q), has) /\ tables' = tables
    BY <1>0, <2>1, WritingBecomes
  <2>3. /\ Fits(q, request[q].at) /\ q \in Open
        /\ request[q].at \in {"insert", "mark", "stamp", "record", "pairs", "items"}
    BY <1>0, <2>1, OpenSteps DEF IndInv, WritingSteps
  <2>4. /\ request[q].at = "insert" => Kind(q) = "upload" /\ step \in {"answer", "mark"}
        /\ request[q].at = "mark" => Kind(q) = "upload" /\ step = "answer"
        /\ request[q].at = "stamp" => Kind(q) = "decision" /\ step \in {"stamp", "record"}
        /\ request[q].at = "record" => Kind(q) = "decision" /\ step = "answer"
        /\ request[q].at \notin {"pairs", "items"}
    BY <2>1, <2>3 DEF Fits, WritingSteps, AfterStamps
  <2>5. CASE request[q].at = "insert"
    <3>1. had.id = None
      BY <2>5 DEF AsOne, Numbered
    <3>2. NewId(q, file_batch) = Len(file_batch) + 1
      BY <2>3, <3>1, NextNumber DEF InSequence
    <3> QED
      BY <2>1, <2>2, <2>4, <2>5, <3>2 DEF AsOne, UploadAsOne, DecisionAsOne, RunAsOne, Numbered, Passed
  <2>6. CASE request[q].at = "mark"
    BY <2>1, <2>2, <2>4, <2>6 DEF AsOne, UploadAsOne, DecisionAsOne, RunAsOne, Numbered, Passed
  <2>7. CASE request[q].at = "stamp"
    <3>1. had.id = None /\ had.stamp # {} /\ had.stamp \cup had.stamped = Colliding(q)
      BY <2>4, <2>7 DEF AsOne, DecisionAsOne, Numbered
    <3>2. NextStamp(q) \in had.stamp
      <4>1. had.stamp \subseteq Nat
        BY <1>0, <3>1 DEF Colliding, IdInv, Bounded
      <4> QED
        BY <3>1, <4>1, Least DEF NextStamp, Min
    <3>3. /\ has.stamp = had.stamp \ {NextStamp(q)} /\ has.stamped = had.stamped \cup {NextStamp(q)}
          /\ has.stamp = {} => step = "record"
          /\ has.stamp # {} => step = "stamp"
          /\ has.id = None
      BY <2>1, <2>4, <2>7, <3>1 DEF AfterStamps
    <3>4. has.stamp \cup has.stamped = Colliding(q)
      BY <3>1, <3>2, <3>3
    <3> QED
      BY <2>2, <2>4, <2>7, <3>3, <3>4 DEF AsOne, UploadAsOne, DecisionAsOne, RunAsOne, Numbered, Passed
  <2>8. CASE request[q].at = "record"
    <3>1. had.id = None /\ had.stamped = Colliding(q)
      BY <2>4, <2>8 DEF AsOne, DecisionAsOne, Numbered
    <3>2. NewId(q, resolution) = Len(resolution) + 1
      BY <2>3, <3>1, NextNumber DEF InSequence
    <3> QED
      BY <2>1, <2>2, <2>4, <2>8, <3>1, <3>2 DEF AsOne, UploadAsOne, DecisionAsOne, RunAsOne, Numbered, Passed
  <2> QED
    BY <2>3, <2>4, <2>5, <2>6, <2>7, <2>8
<1>3. CASE Passes(q)
  <2>1. Becomes(q, "previous", request[q].after, request[q].locks, had) /\ tables' = tables
    BY <1>0, <1>3, PassesBecomes DEF Passes, tables
  <2>2. AsOne(q, "previous", had)
    BY <1>0, <1>3 DEF Passes, AsOne, UploadAsOne, DecisionAsOne, RunAsOne, Numbered, At, Fits, IndInv
  <2> QED
    BY <2>1, <2>2
<1>4. CASE Answer(q)
  <2>1. Becomes(q, "answered", request[q].after, request[q].locks, had) /\ tables' = tables
    BY <1>0, <1>4, AnswerBecomes DEF Answer, tables
  <2>2. AsOne(q, "answered", had)
    BY <1>4 DEF Answer, AsOne, UploadAsOne, DecisionAsOne, RunAsOne, Numbered, Passed, At
  <2> QED
    BY <2>1, <2>2
<1> QED
  BY <1>1, <1>2, <1>3, <1>4

\* What any request has in hand stays right while the tables do.
LEMMA AsOneStays ==
    ASSUME tables' = tables, NEW q, NEW step, NEW has, AsOne(q, step, has)
    PROVE  AsOne(q, step, has)'
<1>1. file_batch' = file_batch /\ resolution' = resolution
  BY DEF tables
<1>2. UploadAsOne(q, step, has)'
  BY <1>1 DEF AsOne, UploadAsOne, RowsFail, Kind
<1>3. DecisionAsOne(q, step, has)'
  <2>1. Colliding(q)' = Colliding(q)
    BY <1>1 DEF Colliding, NewDecision
  <2> QED
    BY <1>1, <2>1 DEF AsOne, DecisionAsOne, Kind
<1>4. RunAsOne(q, step, has)'
  BY RunStays DEF AsOne, RunAsOne, Kind
<1> QED
  BY <1>2, <1>3, <1>4 DEF AsOne

----------------------------------------------------------------------------
(* A commit is a step of Reconcile.                                        *)

\* A function with one more number in its domain is a sequence appended to.
LEMMA Appended ==
    ASSUME NEW n \in Nat, NEW f, NEW g, NEW e,
           f = [i \in 1..n + 1 |-> f[i]], g = [i \in 1..n |-> g[i]],
           \A i \in 1..n : f[i] = g[i], f[n + 1] = e
    PROVE  f = Append(g, e)
<1> DEFINE S == {g[i] : i \in 1..n} \cup {e}
           h == Append(g, e)
<1>1. g \in [1..n -> S] /\ e \in S
  OBVIOUS
<1>2. g \in Seq(S) /\ Len(g) = n
  <2>1. g \in Seq(S)
    BY <1>1, SeqDef
  <2>2. Len(g) \in Nat /\ 1..Len(g) = 1..n
    BY <1>1, <2>1, LenProperties
  <2> QED
    BY <2>1, <2>2
<1>3. h \in Seq(S) /\ Len(h) = n + 1 /\ (\A i \in 1..n : h[i] = g[i]) /\ h[n + 1] = e
  BY <1>1, <1>2, AppendProperties
<1> HIDE DEF h
<1>4. h = [i \in 1..n + 1 |-> h[i]]
  BY <1>3, LenProperties
<1>5. ASSUME NEW i \in 1..n + 1
      PROVE  f[i] = h[i]
  <2>1. i \in 1..n \/ i = n + 1
    OBVIOUS
  <2> QED
    BY <1>3, <2>1
<1>6. [i \in 1..n + 1 |-> f[i]] = [i \in 1..n + 1 |-> h[i]]
  BY <1>5
<1> QED
  BY <1>4, <1>6 DEF h

\* The tables have room for what is committed.
LEMMA RoomForOneMore ==
    ASSUME InSequence, NEW q \in Requests \ Ended
    PROVE  /\ Len(file_batch) < MaxBatches /\ Len(resolution) < MaxResolutions /\ Len(run) < MaxRuns
<1>1. /\ IsFiniteSet(Ended) /\ IsFiniteSet(Requests)
      /\ Cardinality(Ended) \in Nat /\ Cardinality(Requests) \in Nat
      /\ Cardinality(Ended) + 1 <= Cardinality(Requests)
  <2>1. IsFiniteSet(Requests) /\ Ended \cup {q} \subseteq Requests /\ Ended \subseteq Requests
    BY RequestsAssumption DEF Ended
  <2>2. IsFiniteSet(Ended)
    BY <2>1, FS_Subset
  <2>3. Cardinality(Ended \cup {q}) = Cardinality(Ended) + 1
    BY <2>2, FS_AddElement
  <2>4. Cardinality(Ended \cup {q}) <= Cardinality(Requests)
    BY <2>1, FS_Subset
  <2> QED
    BY <2>1, <2>2, <2>3, <2>4, FS_CardinalityType
<1>2. /\ Len(Loaded) \in Nat /\ Len(Decided) \in Nat
      /\ Len(file_batch) \in Nat /\ Len(resolution) \in Nat /\ Len(run) \in Nat
  BY LoadedAssumption, DecidedAssumption, LenProperties DEF InSequence
<1>3. MaxBatches \in Nat /\ MaxResolutions \in Nat /\ MaxRuns \in Nat
  BY ServiceAssumption, BoundsAssumption DEF Store!TablesAssumption
<1> DEFINE ended == Cardinality(Ended)
           all   == Cardinality(Requests)
<1>4. /\ Len(file_batch) <= Len(Loaded) + ended /\ MaxBatches >= Len(Loaded) + all
      /\ Len(resolution) <= Len(Decided) + ended /\ MaxResolutions >= Len(Decided) + all
      /\ Len(run) <= ended /\ MaxRuns >= all
  BY BoundsAssumption DEF InSequence
<1>5. ended \in Nat /\ all \in Nat /\ ended + 1 <= all
  BY <1>1
<1> HIDE DEF ended, all
<1> QED
  BY <1>2, <1>3, <1>4, <1>5

\* The commit of an upload.
LEMMA CommitIsUpload ==
    ASSUME HandInv, InOrderNow, InSequence, NEW q \in Requests, Commit(q), Kind(q) = "upload",
           AsOne(q, request[q].at, request[q].has)
    PROVE  /\ Store!Upload(Asked[q].source, Asked[q].period, Asked[q].content)
           /\ file_batch' \in Seq(Store!Files!FileBatch) /\ Len(file_batch') = Len(file_batch) + 1
<1> DEFINE asked    == Asked[q]
           previous == request[q].has.previous
           n        == Len(file_batch)
           new      == Store!Files!NewBatch(asked.source, asked.period, asked.content, previous)
           marked   == Store!Files!MarkSuperseded(previous, n + 1)
<1>1. /\ n \in Nat /\ DOMAIN file_batch = 1..n
  BY LenProperties DEF InSequence
<1>2. /\ Parsed[asked.source][asked.content].readable
      /\ Store!Files!ValidPeriod(asked.period)
      /\ Parsed[asked.source][asked.content].storable
      /\ request[q].has.id = n + 1
  BY DEF Commit, At, AsOne, UploadAsOne, Passed, Numbered, RowsFail
<1>3. ~Store!Files!Duplicate(asked.source, asked.content)
  BY DEF HandInv, IdInv, DigestInv, Claims, Inserted, InIndex, Commit, At
<1>4. ~Store!Files!PartlyOverlaps(asked.source, asked.period) /\ Replaces(q, previous)
  BY CommitInPlace
<1>5. /\ file_batch' = FilesAfter(q) /\ UNCHANGED <<resolution, run>>
  BY DEF Commit
<1>6. file_batch' = Append(marked, new)
  <2>1. marked = [i \in 1..n |-> marked[i]]
    BY <1>1 DEF Store!Files!MarkSuperseded
  <2>2. /\ file_batch' = [i \in 1..n + 1 |-> file_batch'[i]]
        /\ file_batch'[n + 1] = new
    BY <1>1, <1>2, <1>5 DEF FilesAfter
  <2>3. ASSUME NEW i \in 1..n
        PROVE  file_batch'[i] = marked[i]
    BY <1>1, <1>2, <1>5 DEF FilesAfter, Store!Files!MarkSuperseded
  <2> HIDE DEF marked, new
  <2> QED
    BY <1>1, <2>1, <2>2, <2>3, Appended
<1>7. \E p \in IF Store!Files!CurrentBatch(asked.source, asked.period) = {} THEN {Store!Files!None}
                ELSE Store!Files!CurrentBatch(asked.source, asked.period) : p = previous
  BY <1>4 DEF Replaces, None, Store!Files!None
<1>8. n < MaxBatches
  BY RoomForOneMore DEF Commit, At, Ended
<1>9. Store!Upload(asked.source, asked.period, asked.content)
  BY <1>2, <1>3, <1>4, <1>5, <1>6, <1>7, <1>8 DEF Store!Upload, Store!Files!UploadFile
<1>10. file_batch' \in Seq(Store!Files!FileBatch) /\ Len(file_batch') = n + 1
  <2>1. /\ file_batch' = [b \in DOMAIN file_batch' |-> file_batch'[b]]
        /\ \A b \in DOMAIN file_batch' : file_batch'[b] \in Store!Files!FileBatch
    BY CommitFiles
  <2>2. DOMAIN file_batch' = 1..n + 1
    BY <1>1, <1>2, <1>5 DEF FilesAfter
  <2>3. file_batch' \in [1..n + 1 -> Store!Files!FileBatch]
    BY <2>1, <2>2
  <2>4. file_batch' \in Seq(Store!Files!FileBatch)
    BY <1>1, <2>3, SeqDef
  <2>5. Len(file_batch') \in Nat /\ DOMAIN file_batch' = 1..Len(file_batch')
    BY <2>4, LenProperties
  <2> QED
    BY <1>1, <2>2, <2>4, <2>5
<1> QED
  BY <1>9, <1>10

\* The commit of a decision.
LEMMA CommitIsDecision ==
    ASSUME HandInv, InSequence, NEW q \in Requests, Commit(q), Kind(q) = "decision",
           AsOne(q, request[q].at, request[q].has)
    PROVE  /\ Store!CreateResolution(Asked[q].left, Asked[q].right)
           /\ resolution' \in Seq(Store!Decisions!Resolution) /\ Len(resolution') = Len(resolution) + 1
<1> DEFINE asked   == Asked[q]
           n       == Len(resolution)
           new     == NewDecision(q)
           retired == Store!Decisions!Superseded(new)
<1>1. /\ n \in Nat /\ DOMAIN resolution = 1..n
  BY LenProperties DEF InSequence
<1>2. request[q].has.id = n + 1 /\ request[q].has.stamped = Colliding(q)
  BY DEF Commit, At, AsOne, DecisionAsOne, Numbered
<1>3. resolution' = DecisionsAfter(q) /\ UNCHANGED <<file_batch, run>>
  BY DEF Commit
<1>4. resolution' = Append(retired, new)
  <2>1. retired = [i \in 1..n |-> retired[i]]
    BY <1>1 DEF Store!Decisions!Superseded
  <2>2. /\ resolution' = [i \in 1..n + 1 |-> resolution'[i]]
        /\ resolution'[n + 1] = new
    BY <1>1, <1>2, <1>3 DEF DecisionsAfter, None
  <2>3. ASSUME NEW i \in 1..n
        PROVE  resolution'[i] = retired[i]
    <3>1. i \in Colliding(q) <=> Store!Decisions!Live(resolution[i]) /\ Store!Decisions!Contradicts(resolution[i], new)
      BY <1>1 DEF Colliding, Store!Live, Store!Decisions!Live
    <3>2. resolution'[i] = IF i \in Colliding(q) THEN [resolution[i] EXCEPT !.stamp = "superseded"]
                            ELSE resolution[i]
      BY <1>1, <1>2, <1>3 DEF DecisionsAfter
    <3> QED
      BY <1>1, <3>1, <3>2 DEF Store!Decisions!Superseded
  <2> HIDE DEF retired, new
  <2> QED
    BY <1>1, <2>1, <2>2, <2>3, Appended
<1>5. n < MaxResolutions
  BY RoomForOneMore DEF Commit, At, Ended
<1>6. Store!Decisions!Record(asked.decision, asked.left, asked.right)
  BY <1>4, <1>5 DEF Store!Decisions!Record, NewDecision
<1>7. Store!CreateResolution(asked.left, asked.right)
  <2>1. /\ asked.left \in Identity
        /\ \/ /\ asked.decision = "accept_unmatched" /\ asked.right = NoRecord
           \/ /\ asked.decision \in {"manual_match", "reject_suggestion"}
              /\ asked.right \in Identity \ {asked.left}
    BY AskedAssumption DEF Kind
  <2>2. NoRecord \notin Identity
    BY ServiceAssumption DEF Store!TablesAssumption, Store!NoRecordAssumption
  <2> QED
    BY <1>3, <1>6, <2>1, <2>2 DEF Store!CreateResolution, Store!Decisions!ManualMatch,
       Store!Decisions!AcceptUnmatched, Store!Decisions!RejectSuggestion
<1>8. resolution' \in Seq(Store!Decisions!Resolution) /\ Len(resolution') = n + 1
  <2>1. /\ resolution' = [i \in DOMAIN resolution' |-> resolution'[i]]
        /\ \A i \in DOMAIN resolution' : IsSound(resolution'[i])
    BY CommitDecisions
  <2>2. DOMAIN resolution' = 1..n + 1
    BY <1>1, <1>2, <1>3 DEF DecisionsAfter, None
  <2>3. resolution' \in [1..n + 1 -> Store!Decisions!Resolution]
    BY <2>1, <2>2 DEF IsSound
  <2>4. resolution' \in Seq(Store!Decisions!Resolution)
    BY <1>1, <2>3, SeqDef
  <2>5. Len(resolution') \in Nat /\ DOMAIN resolution' = 1..Len(resolution')
    BY <2>4, LenProperties
  <2> QED
    BY <1>1, <2>2, <2>4, <2>5
<1> QED
  BY <1>7, <1>8

LEMMA SameDecisions ==
    /\ \A L, R, period : Store!LoadPriorResolutions(L, R, period) = Runs!LoadPriorResolutions(L, R, period)
    /\ \A result : Store!RevokedRows(result) = Runs!RevokedRows(result)
    /\ \A result : Store!PairRows(result) = Runs!PairRows(result)
<1>1. \A key : Store!Decisions!ResolutionFor(key) = Runs!Decisions!ResolutionFor(key)
  <2>1. \A key : Store!Decisions!LiveTouching(key) = Runs!Decisions!LiveTouching(key)
    BY DEF Store!Decisions!LiveTouching, Store!Decisions!Live, Store!Decisions!IdentitiesOf,
       Runs!Decisions!LiveTouching, Runs!Decisions!Live, Runs!Decisions!IdentitiesOf
  <2> QED
    BY <2>1 DEF Store!Decisions!ResolutionFor, Runs!Decisions!ResolutionFor
<1>2. ASSUME NEW L, NEW R, NEW period
      PROVE  Store!LoadPriorResolutions(L, R, period) = Runs!LoadPriorResolutions(L, R, period)
  <2>1. \A row : /\ Store!Decisions!AboutSources(row, L, R) <=> Runs!Decisions!AboutSources(row, L, R)
                 /\ Store!Decisions!Oriented(row, R) = Runs!Decisions!Oriented(row, R)
    BY DEF Store!Decisions!AboutSources, Store!Decisions!Live, Store!Decisions!Oriented,
       Runs!Decisions!AboutSources, Runs!Decisions!Live, Runs!Decisions!Oriented
  <2>2. Store!Decisions!PriorResolutions(L, R) = Runs!Decisions!PriorResolutions(L, R)
    BY <2>1 DEF Store!Decisions!PriorResolutions, Runs!Decisions!PriorResolutions
  <2> QED
    BY <2>2 DEF Store!LoadPriorResolutions, Runs!LoadPriorResolutions
<1>3. ASSUME NEW result
      PROVE  Store!RevokedRows(result) = Runs!RevokedRows(result)
  BY <1>1 DEF Store!RevokedRows, Runs!RevokedRows
<1>4. ASSUME NEW result
      PROVE  Store!PairRows(result) = Runs!PairRows(result)
  <2>1. \A p, manual : Store!ResolutionBehind(p, manual) = Runs!ResolutionBehind(p, manual)
    BY <1>1 DEF Store!ResolutionBehind, Runs!ResolutionBehind
  <2>2. \A p, manual : Store!PairRow(p, manual) = Runs!PairRow(p, manual)
    BY <2>1, SameVerdict DEF Store!PairRow, Runs!PairRow
  <2> QED
    BY <2>2 DEF Store!PairRows, Runs!PairRows
<1> QED
  BY <1>2, <1>3, <1>4

LEMMA SameItems ==
    ASSUME NEW result, NEW period
    PROVE  Store!RecordItems(result, period) = Runs!RecordItems(result, period)
<1>1. \A source : Store!CurrentFile(source, period) = Runs!CurrentFile(source, period)
  BY SameReads
<1>2. \A source, batch, reference, state : Store!Item(source, batch, reference, state) =
                                              Runs!Item(source, batch, reference, state)
  BY DEF Store!Item, Runs!Item
<1> QED
  BY <1>1, <1>2, SameVerdict DEF Store!RecordItems, Runs!RecordItems

\* The commit of a run.
LEMMA CommitIsRun ==
    ASSUME HandInv, InSequence, NEW q \in Requests, Commit(q), Kind(q) = "run",
           AsOne(q, request[q].at, request[q].has)
    PROVE  /\ Store!StartRun(Asked[q].left, Asked[q].right, Asked[q].period)
           /\ resolution' \in Seq(Store!Decisions!Resolution) /\ Len(resolution') = Len(resolution)
           /\ \E S : run' \in Seq(S)
           /\ Len(run') = Len(run) + 1
<1> DEFINE L       == Asked[q].left
           R       == Asked[q].right
           period  == Asked[q].period
           n       == Len(resolution)
           stamped == request[q].has.stamped
<1>1. n \in Nat /\ DOMAIN resolution = 1..n
  BY LenProperties DEF InSequence
<1>2. PICK result : /\ result = RunResult(q) /\ Startable(q)
                    /\ stamped = Runs!RevokedRows(result)
                    /\ request[q].has.row = RowOf(q, result)
  BY DEF Commit, At, AsOne, RunAsOne, Yields, Numbered
<1>3. /\ run' = Append(run, RowOf(q, result)) /\ resolution' = DecisionsAfter(q)
      /\ file_batch' = file_batch
  BY <1>2 DEF Commit
<1>4. resolution' = [i \in DOMAIN resolution |->
                        IF i \in Store!RevokedRows(result)
                        THEN [resolution[i] EXCEPT !.stamp = "withdrawn"]
                        ELSE resolution[i]]
  <2>1. request[q].has.id = None /\ None \notin DOMAIN resolution
    BY DEF HandInv, IdInv, OwnId
  <2>2. stamped = Store!RevokedRows(result)
    BY <1>2, SameDecisions
  <2> QED
    BY <1>3, <2>1, <2>2 DEF DecisionsAfter
<1>5. result = Store!MatchResult(Store!RunInput(L, R, period))
  <2>1. Store!RunInput(L, R, period) = Runs!RunInput(L, R, period)
    BY SameReads, SameDecisions DEF Store!RunInput, Runs!RunInput
  <2> QED
    BY <1>2, <2>1, SameResult DEF RunResult
<1>6. RowOf(q, result) =
         LET items == Store!RecordItems(result, period) \cup
                         Store!WithdrawnItems(L, period) \cup Store!WithdrawnItems(R, period)
         IN  [left      |-> L,
              right     |-> R,
              period    |-> period,
              files     |-> Len(file_batch),
              decisions |-> Len(resolution),
              pairs     |-> Store!PairRows(result),
              items     |-> items,
              counts    |-> Store!Counts(items, Store!RejectedCount(L, period)
                                                   + Store!RejectedCount(R, period))]
  <2>1. /\ Store!WithdrawnItems(L, period) = Runs!WithdrawnItems(L, period)
        /\ Store!WithdrawnItems(R, period) = Runs!WithdrawnItems(R, period)
        /\ Store!RejectedCount(L, period) = Runs!RejectedCount(L, period)
        /\ Store!RejectedCount(R, period) = Runs!RejectedCount(R, period)
    BY SameReads
  <2>2. Store!PairRows(result) = Runs!PairRows(result)
    BY SameDecisions
  <2>3. Store!RecordItems(result, period) = Runs!RecordItems(result, period)
    BY SameItems
  <2>4. \A items, count : Store!Counts(items, count) = Runs!Counts(items, count)
    BY SameCounts
  <2> QED
    BY <2>1, <2>2, <2>3, <2>4, Zenon DEF RowOf
<1>7. /\ <<L, R>> \in SourcePairs
      /\ Store!CurrentRecords(L, period) \cup Store!CurrentRecords(R, period) # {}
      /\ Store!Unambiguous(L, period) /\ Store!Unambiguous(R, period)
  <2>1. <<L, R>> \in SourcePairs
    BY AskedAssumption DEF Kind
  <2> QED
    BY <1>2, <2>1, SameReads DEF Startable
<1>8. Len(run) < MaxRuns
  BY RoomForOneMore DEF Commit, At, Ended
<1>9. Store!StartRun(L, R, period)
  BY <1>3, <1>4, <1>5, <1>6, <1>7, <1>8, Zenon DEF Store!StartRun
<1>10. resolution' \in Seq(Store!Decisions!Resolution) /\ Len(resolution') = n
  <2>1. /\ resolution' = [i \in DOMAIN resolution' |-> resolution'[i]]
        /\ \A i \in DOMAIN resolution' : IsSound(resolution'[i])
    BY CommitDecisions
  <2>2. DOMAIN resolution' = 1..n
    BY <1>1, <1>4
  <2>3. resolution' \in [1..n -> Store!Decisions!Resolution]
    BY <2>1, <2>2 DEF IsSound
  <2>4. resolution' \in Seq(Store!Decisions!Resolution)
    BY <1>1, <2>3, SeqDef
  <2>5. Len(resolution') \in Nat /\ DOMAIN resolution' = 1..Len(resolution')
    BY <2>4, LenProperties
  <2> QED
    BY <1>1, <2>2, <2>4, <2>5
<1>11. (\E S : run' \in Seq(S)) /\ Len(run') = Len(run) + 1
  <2>1. PICK S : run \in Seq(S)
    BY DEF InSequence
  <2>2. PICK row : row = RowOf(q, result)
    OBVIOUS
  <2>3. run \in Seq(S \cup {row})
    <3>1. run \in [1..Len(run) -> S] /\ Len(run) \in Nat
      BY <2>1, LenProperties
    <3>2. run \in [1..Len(run) -> S \cup {row}]
      BY <3>1
    <3> QED
      BY <3>1, <3>2, SeqDef
  <2>4. Append(run, row) \in Seq(S \cup {row}) /\ Len(Append(run, row)) = Len(run) + 1
    BY <2>3, AppendProperties
  <2> QED
    BY <1>3, <2>2, <2>4
<1> QED
  BY <1>9, <1>10, <1>11

----------------------------------------------------------------------------
(* Requests that take turns.                                               *)

\* All is as if each of them were one step.
InTurns == InSequence /\ \A q \in Requests : AsOne(q, request[q].at, request[q].has)

TurnsInv ==
    /\ SummaryInv
    /\ ReversalInv
    /\ NobodyRaced => InTurns

\* Requests that have not overlapped had not before.
LEMMA TurnsBefore == ASSUME IndInv, [Next]_vars, NobodyRaced' PROVE NobodyRaced
<1>1. Begun \subseteq Begun' /\ \A p \in Begun : request'[p].after = request[p].after
  BY BegunStay
<1> QED
  BY <1>1 DEF NobodyRaced, Overlap

\* Nothing that is known of requests that do not overlap fails.
LEMMA TakingTurns ==
    ASSUME TurnsInv, NobodyRaced
    PROVE  /\ HandInv /\ RaceInv /\ IndInv /\ InOrderNow /\ DecisionsSerial /\ InTurns
           /\ \A q \in Requests : Kind(q) = "run" =>
                 /\ Fresh(q, request[q].at, request[q].has)
                 /\ Reverses(q, request[q].at, request[q].has)
<1>1. HandInv /\ RaceInv /\ SerialInv /\ IndInv /\ InTurns
  BY DEF TurnsInv, SummaryInv, ReversalInv, HandInv, IdInv, DigestInv
<1>2. \A p, q \in Requests : p # q => ~Overlap(p, q)
  BY DEF NobodyRaced, Overlap
<1>3. UploadsSerial /\ DecisionsSerial /\ \A kinds : \A q \in Requests : ~Raced(q, kinds)
  BY <1>2 DEF UploadsSerial, DecisionsSerial, Raced
<1> QED
  BY <1>1, <1>3 DEF TurnsInv, SummaryInv, SerialInv, ReversalInv, FreshUnlessRaced, ReversesUnlessRaced

\* Requests that are over leave room for what they stored.
LEMMA EndedCount ==
    ASSUME Ended \subseteq Ended'
    PROVE  /\ Cardinality(Ended) \in Nat /\ Cardinality(Ended)' \in Nat
           /\ Cardinality(Ended) <= Cardinality(Ended)'
           /\ Ended # Ended' => Cardinality(Ended) + 1 <= Cardinality(Ended)'
<1>1. Ended' \subseteq Requests /\ IsFiniteSet(Requests)
  BY RequestsAssumption DEF Ended
<1>2. IsFiniteSet(Ended') /\ IsFiniteSet(Ended)
  BY <1>1, FS_Subset
<1>3. /\ Cardinality(Ended) <= Cardinality(Ended')
      /\ Cardinality(Ended') = Cardinality(Ended) => Ended' = Ended
  BY <1>2, FS_Subset
<1>4. Cardinality(Ended) \in Nat /\ Cardinality(Ended') \in Nat
  BY <1>2, FS_CardinalityType
<1> QED
  BY <1>3, <1>4

LEMMA SequenceStays ==
    ASSUME InSequence, tables' = tables, Ended \subseteq Ended'
    PROVE  InSequence'
<1>1. file_batch' = file_batch /\ resolution' = resolution /\ run' = run
  BY DEF tables
<1>2. /\ Len(Loaded) \in Nat /\ Len(Decided) \in Nat
      /\ Len(file_batch) \in Nat /\ Len(resolution) \in Nat /\ Len(run) \in Nat
  BY LoadedAssumption, DecidedAssumption, LenProperties DEF InSequence
<1> DEFINE before == Cardinality(Ended)
           now    == Cardinality(Ended)'
<1>3. /\ before \in Nat /\ now \in Nat /\ before <= now
      /\ Len(file_batch) <= Len(Loaded) + before /\ Len(resolution) <= Len(Decided) + before
      /\ Len(run) <= before
  BY EndedCount DEF InSequence
<1>4. /\ file_batch' \in Seq(Store!Files!FileBatch) /\ resolution' \in Seq(Store!Decisions!Resolution)
      /\ \E S : run' \in Seq(S)
  BY <1>1 DEF InSequence
<1>5. Len(file_batch') = Len(file_batch) /\ Len(resolution') = Len(resolution) /\ Len(run') = Len(run)
  BY <1>1
<1> HIDE DEF before, now
<1>6. /\ Len(file_batch') <= Len(Loaded) + now /\ Len(resolution') <= Len(Decided) + now
      /\ Len(run') <= now
  BY <1>2, <1>3, <1>5
<1> QED
  BY <1>4, <1>6 DEF InSequence, now

\* A request that has not begun, or is over, has nothing to be held to.
LEMMA Idle ==
    ASSUME NEW q, NEW step \in {"new", "ended"}, NEW has, step = "new" => has.id = None
    PROVE  AsOne(q, step, has) /\ AsOne(q, step, has)'
<1>1. step \notin {"pairs", "find", "stamp", "items", "record"} \cup Passed \cup Numbered
  BY DEF Passed, Numbered
<1>2. UploadAsOne(q, step, has) /\ UploadAsOne(q, step, has)'
  BY <1>1 DEF UploadAsOne
<1>3. DecisionAsOne(q, step, has) /\ DecisionAsOne(q, step, has)'
  BY <1>1 DEF DecisionAsOne
<1>4. Yields(q, RunResult(q), step, has)
  BY <1>1 DEF Yields
<1>5. \E result : Yields(q, result, step, has)'
  <2>1. PICK result : result = RunResult(q)'
    OBVIOUS
  <2> QED
    BY <1>1, <2>1 DEF Yields
<1> QED
  BY <1>2, <1>3, <1>4, <1>5 DEF AsOne, RunAsOne

\* What a request has in hand is as it was, if the tables are.
LEMMA InTurnsStays ==
    ASSUME tables' = tables, NEW q \in Requests, AsOne(q, request'[q].at, request'[q].has)
    PROVE  AsOne(q, request[q].at, request[q].has)'
<1>1. PICK s, h : s = request'[q].at /\ h = request'[q].has
  OBVIOUS
<1>2. AsOne(q, s, h)'
  BY <1>1, AsOneStays
<1> QED
  BY <1>1, <1>2 DEF AsOne, UploadAsOne, DecisionAsOne, RunAsOne, Yields

\* A step of one request that stores nothing.
LEMMA KeepsTurns ==
    ASSUME TurnsInv, SummaryInv', ReversalInv', [Next]_vars, tables' = tables,
           NEW q \in Requests \ Ended,
           NEW step, NEW after, NEW locks, NEW has, Becomes(q, step, after, locks, has),
           NobodyRaced => AsOne(q, step, has)
    PROVE  TurnsInv'
<1> SUFFICES ASSUME NobodyRaced' PROVE InTurns'
  BY DEF TurnsInv
<1>1. IndInv
  BY DEF TurnsInv, SummaryInv, HandInv, IdInv, DigestInv
<1>2. NobodyRaced /\ InTurns
  BY <1>1, TurnsBefore DEF TurnsInv
<1>3. InSequence'
  <2>1. Ended \subseteq Ended'
    BY EndedStay DEF Becomes
  <2> QED
    BY <1>2, <2>1, SequenceStays DEF InTurns
<1>4. ASSUME NEW p \in Requests
      PROVE  AsOne(p, request[p].at, request[p].has)'
  <2>1. AsOne(p, request'[p].at, request'[p].has)
    BY <1>2 DEF Becomes, InTurns
  <2> QED
    BY <2>1, InTurnsStays
<1> QED
  BY <1>3, <1>4 DEF InTurns

\* A commit, when nobody has raced.
LEMMA CommitTurns ==
    ASSUME TurnsInv, NobodyRaced, NEW q \in Requests, Commit(q)
    PROVE  Store!Next /\ InSequence'
<1>1. /\ HandInv /\ InOrderNow /\ InSequence /\ AsOne(q, request[q].at, request[q].has)
      /\ Shaped /\ At(q, "committing")
  BY TakingTurns DEF InTurns, IndInv, Commit
<1>2. PICK has : Becomes(q, "ended", request[q].after, {}, has)
  BY <1>1, CommitBecomes
<1>3. Ended \subseteq Ended' /\ Ended # Ended'
  <2>1. q \notin Ended /\ q \in Ended'
    BY <1>1, <1>2 DEF Ended, At, Becomes
  <2> QED
    BY <1>2, <2>1, EndedStay DEF Becomes
<1> DEFINE before == Cardinality(Ended)
           now    == Cardinality(Ended)'
<1>4. before \in Nat /\ now \in Nat /\ before + 1 <= now
  BY <1>3, EndedCount
<1>5. /\ Len(file_batch) <= Len(Loaded) + before /\ Len(resolution) <= Len(Decided) + before
      /\ Len(run) <= before
      /\ Len(Loaded) \in Nat /\ Len(Decided) \in Nat
      /\ Len(file_batch) \in Nat /\ Len(resolution) \in Nat /\ Len(run) \in Nat
  BY <1>1, LoadedAssumption, DecidedAssumption, LenProperties DEF InSequence
<1>6. ASSUME /\ file_batch' \in Seq(Store!Files!FileBatch)
             /\ resolution' \in Seq(Store!Decisions!Resolution)
             /\ \E S : run' \in Seq(S),
             /\ Len(file_batch') <= Len(file_batch) + 1
             /\ Len(resolution') <= Len(resolution) + 1
             /\ Len(run') <= Len(run) + 1
      PROVE  InSequence'
  <2>1. Len(file_batch') \in Nat /\ Len(resolution') \in Nat /\ Len(run') \in Nat
    BY <1>6, LenProperties
  <2> HIDE DEF before, now
  <2>2. /\ Len(file_batch') <= Len(Loaded) + now /\ Len(resolution') <= Len(Decided) + now
        /\ Len(run') <= now
    BY <1>4, <1>5, <1>6, <2>1
  <2> QED
    BY <1>6, <2>2 DEF InSequence, now
<1>7. CASE Kind(q) = "upload"
  <2>1. /\ Store!Upload(Asked[q].source, Asked[q].period, Asked[q].content)
        /\ file_batch' \in Seq(Store!Files!FileBatch) /\ Len(file_batch') = Len(file_batch) + 1
    BY <1>1, <1>7, CommitIsUpload
  <2>2. resolution' = resolution /\ run' = run
    BY <1>7 DEF Commit
  <2>3. Store!Next
    BY <1>7, <2>1, AskedAssumption DEF Kind, Store!Next
  <2>4. InSequence'
    <3> HIDE DEF before, now
    <3> QED
      BY <1>1, <1>5, <1>6, <2>1, <2>2 DEF InSequence
  <2> QED
    BY <2>3, <2>4
<1>8. CASE Kind(q) = "decision"
  <2>1. /\ Store!CreateResolution(Asked[q].left, Asked[q].right)
        /\ resolution' \in Seq(Store!Decisions!Resolution) /\ Len(resolution') = Len(resolution) + 1
    BY <1>1, <1>8, CommitIsDecision
  <2>2. file_batch' = file_batch /\ run' = run
    BY <1>8 DEF Commit
  <2>3. Store!Next
    BY <1>8, <2>1, AskedAssumption DEF Kind, Store!Next
  <2>4. InSequence'
    <3> HIDE DEF before, now
    <3> QED
      BY <1>1, <1>5, <1>6, <2>1, <2>2 DEF InSequence
  <2> QED
    BY <2>3, <2>4
<1>9. CASE Kind(q) = "run"
  <2>1. /\ Store!StartRun(Asked[q].left, Asked[q].right, Asked[q].period)
        /\ resolution' \in Seq(Store!Decisions!Resolution) /\ Len(resolution') = Len(resolution)
        /\ \E S : run' \in Seq(S)
        /\ Len(run') = Len(run) + 1
    BY <1>1, <1>9, CommitIsRun
  <2>2. file_batch' = file_batch
    BY <1>9 DEF Commit
  <2>3. Store!Next
    <3>1. PICK pair : pair = <<Asked[q].left, Asked[q].right>>
      OBVIOUS
    <3>2. pair \in SourcePairs /\ pair[1] = Asked[q].left /\ pair[2] = Asked[q].right /\ Asked[q].period \in Periods
      BY <1>9, <3>1, AskedAssumption DEF Kind
    <3> QED
      BY <2>1, <3>2 DEF Store!Next
  <2>4. InSequence'
    <3> HIDE DEF before, now
    <3> QED
      BY <1>1, <1>5, <1>6, <2>1, <2>2 DEF InSequence
  <2> QED
    BY <2>3, <2>4
<1> QED
  BY <1>7, <1>8, <1>9, AskedAssumption DEF Kind

\* Every step keeps it so.
LEMMA NextTurns == ASSUME TurnsInv, [Next]_vars PROVE TurnsInv'
<1>1. SummaryInv' /\ ReversalInv' /\ HandInv /\ IndInv /\ Shaped /\ RaceInv
  BY NextSummary, NextReversal DEF TurnsInv, SummaryInv, ReversalInv, HandInv, IdInv, DigestInv, IndInv
<1>2. ASSUME NobodyRaced'
      PROVE  NobodyRaced /\ InTurns
  BY <1>1, <1>2, TurnsBefore DEF TurnsInv
<1>3. \A p \in Requests : OwnId(p)'
  BY <1>1 DEF ReversalInv, HandInv, IdInv
<1>4. ASSUME NEW p \in Requests, request'[p].at \in {"new", "ended"}
      PROVE  AsOne(p, request[p].at, request[p].has)'
  <2>1. PICK s, h : s = request'[p].at /\ h = request'[p].has
    OBVIOUS
  <2>2. s = "new" => h.id = None
    BY <1>3, <2>1 DEF OwnId
  <2>3. AsOne(p, s, h)'
    BY <1>4, <2>1, <2>2, Idle
  <2> QED
    BY <2>1, <2>3 DEF AsOne, UploadAsOne, DecisionAsOne, RunAsOne, Yields
<1>5. CASE UNCHANGED vars
  <2>1. request' = request /\ tables' = tables
    BY <1>5 DEF vars, tables
  <2> SUFFICES ASSUME NobodyRaced' PROVE InTurns'
    BY <1>1 DEF TurnsInv
  <2>2. InSequence'
    <3>1. Ended \subseteq Ended'
      BY <2>1 DEF Ended, At
    <3> QED
      BY <1>2, <2>1, <3>1, SequenceStays DEF InTurns
  <2>3. \A p \in Requests : AsOne(p, request'[p].at, request'[p].has)
    BY <1>2, <2>1 DEF InTurns
  <2> QED
    BY <2>1, <2>2, <2>3, InTurnsStays DEF InTurns
<1>6. CASE Restart
  <2>1. request' = [p \in Requests |-> AfterRestart(p)] /\ tables' = tables
    BY <1>6 DEF Restart, AfterRestart
  <2>2. \A p \in Requests : request'[p].at \in {"new", "ended"}
    BY <2>1, OpenSteps, FinishedRequest DEF AfterRestart
  <2>3. Ended \subseteq Ended'
    BY <2>1 DEF Ended, At, AfterRestart, Open
  <2> SUFFICES ASSUME NobodyRaced' PROVE InTurns'
    BY <1>1 DEF TurnsInv
  <2>4. InSequence'
    BY <1>2, <2>1, <2>3, SequenceStays DEF InTurns
  <2> QED
    BY <1>4, <2>2, <2>4 DEF InTurns
<1>7. ASSUME NEW q \in Requests, Begin(q)
      PROVE  TurnsInv'
  <2>1. /\ Becomes(q, FirstStep[Kind(q)], Ended, request[q].locks, request[q].has)
        /\ tables' = tables /\ At(q, "new")
    BY <1>1, <1>7, BeginBecomes DEF Begin
  <2>2. request[q].has.id = None /\ q \notin Ended
    BY <1>1, <2>1 DEF HandInv, IdInv, OwnId, At, Ended
  <2>3. /\ FirstStep[Kind(q)] \in {"check", "collisions", "left"}
    BY FirstSteps
  <2>4. AsOne(q, FirstStep[Kind(q)], request[q].has)
    <3>1. Yields(q, RunResult(q), FirstStep[Kind(q)], request[q].has)
      BY <2>3 DEF Yields, Numbered
    <3> QED
      BY <2>2, <2>3, <3>1 DEF AsOne, UploadAsOne, DecisionAsOne, RunAsOne, Passed, Numbered
  <2> QED
    BY <1>1, <2>1, <2>2, <2>4, KeepsTurns
<1>8. ASSUME NEW q \in Requests, Stops(q)
      PROVE  TurnsInv'
  <2>1. PICK has : Becomes(q, "ended", request[q].after, {}, has)
    BY <1>1, <1>8, FinishedBecomes DEF Stops, Ends
  <2>2. tables' = tables /\ q \notin Ended
    BY <1>8 DEF Stops, Ends, Open
  <2>3. AsOne(q, "ended", has)
    BY Idle
  <2> QED
    BY <1>1, <2>1, <2>2, <2>3, KeepsTurns
<1>9. ASSUME NEW q \in Requests, Commit(q)
      PROVE  TurnsInv'
  <2> SUFFICES ASSUME NobodyRaced' PROVE InTurns'
    BY <1>1 DEF TurnsInv
  <2>1. PICK has : Becomes(q, "ended", request[q].after, {}, has)
    BY <1>1, <1>9, CommitBecomes
  <2>2. ASSUME NEW p \in Requests
        PROVE  request'[p].at \in {"new", "ended"}
    <3>1. CASE p = q
      BY <2>1, <3>1 DEF Becomes
    <3>2. CASE p # q
      <4>1. request[p].at \in {"new", "ended"}
        <5> SUFFICES ASSUME request[p].at \notin {"new", "ended"} PROVE FALSE
          OBVIOUS
        <5>1. Overlap(q, p)
          BY <1>1, <1>9, <3>2, CommitOverlaps
        <5> QED
          BY <1>2, <3>2, <5>1 DEF NobodyRaced, Overlap
      <4> QED
        BY <2>1, <3>2, <4>1 DEF Becomes
    <3> QED
      BY <3>1, <3>2
  <2>3. InSequence'
    BY <1>2, <1>9, CommitTurns
  <2> QED
    BY <1>4, <2>2, <2>3 DEF InTurns
<1>10. ASSUME NEW q \in Requests, Kind(q) # "run", Reads(q) \/ Wrote(q) \/ Passes(q) \/ Answer(q)
       PROVE  TurnsInv'
  <2>1. q \notin Ended
    BY <1>10 DEF Reads, Wrote, Passes, Answer, ReadingSteps, WritingSteps, Ended, At
  <2>2. CASE NobodyRaced
    <3>1. PICK step, locks, has :
             /\ Becomes(q, step, request[q].after, locks, has)
             /\ tables' = tables /\ AsOne(q, step, has)
      BY <1>10, <2>2, TakingTurns, OtherAsOne DEF InTurns
    <3> QED
      BY <1>1, <2>1, <3>1, KeepsTurns
  <2>3. CASE ~NobodyRaced
    BY <1>1, <1>2, <2>3 DEF TurnsInv
  <2> QED
    BY <2>2, <2>3
<1>11. ASSUME NEW q \in Requests, Kind(q) = "run", NEW step, NEW locks, NEW has,
              Becomes(q, step, request[q].after, locks, has), tables' = tables, RunMoves(q, step, has)
       PROVE  TurnsInv'
  <2>1. q \notin Ended
    BY <1>11 DEF RunMoves, ReadsLeft, ReadsRight, ReadsDecisions, WritesPairs, FindsNone, FindsOne,
       StampsOne, WritesItems, Finishes, Ended, At
  <2>2. ASSUME NobodyRaced
        PROVE  AsOne(q, step, has)
    <3>1. /\ HandInv /\ RaceInv /\ InOrderNow /\ DecisionsSerial /\ InSequence
          /\ Fresh(q, request[q].at, request[q].has) /\ Reverses(q, request[q].at, request[q].has)
          /\ AsOne(q, request[q].at, request[q].has)
      BY <1>11, <2>2, TakingTurns DEF InTurns
    <3>2. PICK result : Yields(q, result, request[q].at, request[q].has)
      BY <1>11, <3>1 DEF AsOne, RunAsOne
    <3>3. Yields(q, result, step, has)
      BY <1>11, <3>1, <3>2, RunYields DEF InSequence
    <3>4. has.id = None
      BY <1>11, <1>3 DEF OwnId, Becomes
    <3> QED
      BY <1>11, <3>3, <3>4 DEF AsOne, UploadAsOne, DecisionAsOne, RunAsOne
  <2> QED
    BY <1>1, <1>11, <2>1, <2>2, KeepsTurns
<1> QED
  BY <1>1, <1>5, <1>6, <1>7, <1>8, <1>9, <1>10, <1>11, Moves

LEMMA InitTurns == ASSUME Init PROVE TurnsInv
<1>1. HandInv /\ SerialInv /\ RaceInv
  BY InitHand, InitSerial, InitRaces
<1>2. /\ file_batch = Loaded /\ resolution = Decided /\ run = <<>>
      /\ \A q \in Requests : request[q] = New
  BY DEF Init
<1>3. SummaryInv /\ ReversalInv
  BY <1>1, <1>2 DEF New, SummaryInv, FreshUnlessRaced, Fresh, ReversalInv, ReversesUnlessRaced, Reverses, Numbered
<1>4. InSequence
  <2>1. Cardinality(Ended) \in Nat
    BY RequestsAssumption, FS_Subset, FS_CardinalityType DEF Ended
  <2>2. Loaded \in Seq(Store!Files!FileBatch) /\ Decided \in Seq(Store!Decisions!Resolution)
    BY LoadedAssumption, DecidedAssumption
  <2>3. Len(Loaded) \in Nat /\ Len(Decided) \in Nat /\ Len(<<>>) = 0 /\ <<>> \in Seq({})
    BY <2>2, LenProperties, EmptySeq
  <2> QED
    BY <1>2, <2>1, <2>2, <2>3 DEF InSequence
<1>5. \A q \in Requests : AsOne(q, request[q].at, request[q].has)
  <2>1. \A q \in Requests : request[q].at = "new" /\ request[q].has.id = None
    BY <1>2 DEF New, Nothing
  <2> QED
    BY <2>1, Idle
<1> QED
  BY <1>3, <1>4, <1>5 DEF TurnsInv, InTurns

\* As long as no two requests have overlapped, what each commits, after any
\* number of others have run, failed or been cut off, is one atomic action of
\* Reconcile: the statements of a handler, with the queries between them, add
\* up to the upload, the decision or the run it stands for.
THEOREM SerialRequestsRefineReconcile == Spec => SerialRequestsAreAtomic
<1>1. Init => TurnsInv
  BY InitTurns
<1>2. TurnsInv /\ [Next]_vars => TurnsInv'
  BY NextTurns
<1>3. ASSUME TurnsInv, [Next]_vars, tables' # tables,
             \A p, q \in Begun : p # q => ~Overlap(p, q)
      PROVE  Store!Next
  <2>1. Shaped /\ NobodyRaced
    BY <1>3 DEF TurnsInv, SummaryInv, HandInv, IdInv, DigestInv, IndInv, NobodyRaced
  <2>2. PICK q \in Requests : Commit(q)
    BY <1>3, <2>1, OnlyCommits
  <2> QED
    BY <1>3, <2>1, <2>2, CommitTurns
<1>4. TurnsInv /\ [Next]_vars =>
         [(tables' # tables /\ \A p, q \in Begun : p # q => ~Overlap(p, q)) => Store!Next]_vars
  BY <1>3
<1> QED
  BY <1>1, <1>2, <1>4, PTL DEF Spec, SerialRequestsAreAtomic

=============================================================================
