-------------------------- MODULE Requests_proofs --------------------------
(***************************************************************************)
(* Theorems about requests that overlap, for any set of requests of any    *)
(* source, either database and any tables to start from.                   *)
(***************************************************************************)
EXTENDS Requests, FiniteSetTheorems, WellFoundedInduction, TLAPS

----------------------------------------------------------------------------
(* How a request changes.                                                  *)

\* What a request is made of, and what it has in hand.
RequestFields == {"at", "answer", "after", "locks", "has"}

HandFields == {"id", "previous", "stamp", "stamped", "read", "prior", "revoke", "row"}

InHand(has) == DOMAIN has = HandFields

Shaped ==
    /\ DOMAIN request = Requests
    /\ \A q \in Requests : DOMAIN request[q] = RequestFields /\ InHand(request[q].has)

\* One request changes, and the others stay as they are.
Becomes(q, step, after, locks, has) ==
    /\ DOMAIN request' = Requests
    /\ \A p \in Requests : p # q => request'[p] = request[p]
    /\ DOMAIN request'[q] = RequestFields
    /\ request'[q].at = step
    /\ request'[q].after = after
    /\ request'[q].locks = locks
    /\ request'[q].has = has

LEMMA GoesOnBecomes ==
    ASSUME Shaped, NEW q \in Requests, NEW step, NEW has, GoesOn(q, step, has)
    PROVE  /\ Becomes(q, step, request[q].after, request[q].locks, has)
           /\ engine' = engine /\ loop' = loop /\ tables' = tables
<1>1. request' = [request EXCEPT ![q].at = step, ![q].has = has]
  BY DEF GoesOn
<1>2. DOMAIN request = Requests /\ DOMAIN request[q] = RequestFields
  BY DEF Shaped
<1>3. DOMAIN request' = Requests /\ \A p \in Requests : p # q => request'[p] = request[p]
  BY <1>1, <1>2
<1>4. DOMAIN request'[q] = RequestFields
  BY <1>1, <1>2 DEF RequestFields
<1>5. /\ request'[q].at = step /\ request'[q].has = has
      /\ request'[q].after = request[q].after /\ request'[q].locks = request[q].locks
  BY <1>1, <1>2 DEF RequestFields
<1>6. engine' = engine /\ loop' = loop /\ tables' = tables
  BY DEF GoesOn
<1> QED
  BY <1>3, <1>4, <1>5, <1>6 DEF Becomes

LEMMA WritingBecomes ==
    ASSUME Shaped, NEW q \in Requests, NEW step, NEW has, Writing(q, step, has)
    PROVE  /\ Becomes(q, step, request[q].after, request[q].locks \cup Needs(q), has)
           /\ \A p \in Requests \ {q} : Needs(q) \cap request[p].locks = {}
           /\ engine' = engine /\ loop' = loop /\ tables' = tables
<1>1. request' = [request EXCEPT ![q].at = step, ![q].has = has, ![q].locks = @ \cup Needs(q)]
  BY DEF Writing
<1>2. DOMAIN request = Requests /\ DOMAIN request[q] = RequestFields
  BY DEF Shaped
<1>3. DOMAIN request' = Requests /\ \A p \in Requests : p # q => request'[p] = request[p]
  BY <1>1, <1>2
<1>4. DOMAIN request'[q] = RequestFields
  BY <1>1, <1>2 DEF RequestFields
<1>5. /\ request'[q].at = step /\ request'[q].has = has
      /\ request'[q].after = request[q].after
      /\ request'[q].locks = request[q].locks \cup Needs(q)
  BY <1>1, <1>2 DEF RequestFields
<1>6. \A p \in Requests \ {q} : Needs(q) \cap request[p].locks = {}
  BY DEF Writing, MayWrite, Blocked, WaitsFor
<1>7. engine' = engine /\ loop' = loop /\ tables' = tables
  BY DEF Writing
<1> QED
  BY <1>3, <1>4, <1>5, <1>6, <1>7 DEF Becomes

\* A request that is over.
LEMMA FinishedRequest ==
    ASSUME NEW q, NEW answer, NEW id
    PROVE  /\ DOMAIN Finished(q, answer, id) = RequestFields
           /\ Finished(q, answer, id).at = "ended"
           /\ Finished(q, answer, id).locks = {}
           /\ Finished(q, answer, id).after = request[q].after
           /\ InHand(Finished(q, answer, id).has)
           /\ Finished(q, answer, id).has.id = id
<1>1. InHand([Nothing EXCEPT !.id = id]) /\ [Nothing EXCEPT !.id = id].id = id
  BY DEF InHand, HandFields, Nothing
<1> QED
  BY <1>1 DEF Finished, LocksAfter, RequestFields

LEMMA FinishedBecomes ==
    ASSUME Shaped, NEW q \in Requests, NEW answer, NEW id,
           request' = [request EXCEPT ![q] = Finished(q, answer, id)]
    PROVE  \E has : /\ InHand(has) /\ has.id = id
                    /\ Becomes(q, "ended", request[q].after, {}, has)
<1>1. DOMAIN request = Requests
  BY DEF Shaped
<1>2. /\ DOMAIN request' = Requests
      /\ \A p \in Requests : p # q => request'[p] = request[p]
      /\ request'[q] = Finished(q, answer, id)
  BY <1>1
<1> QED
  BY <1>2, FinishedRequest DEF Becomes

----------------------------------------------------------------------------
(* The kinds of step there are.                                            *)

ReadingSteps ==
    {<<"previous", "insert">>, <<"collisions", "record">>, <<"collisions", "stamp">>,
     <<"left", "right">>, <<"right", "decisions">>, <<"decisions", "pairs">>,
     <<"find", "items">>, <<"find", "find">>, <<"find", "stamp">>,
     <<"answered", "committing">>}

WritingSteps(q) ==
    {<<"insert", "answer">>, <<"insert", "mark">>, <<"mark", "answer">>,
     <<"stamp", "stamp">>, <<"stamp", AfterStamps[Kind(q)]>>, <<"record", "answer">>,
     <<"pairs", "find">>, <<"items", "answer">>}

\* What a request has in hand after it read, and after it wrote.
Reads(q) ==
    \E step, has :
        /\ <<request[q].at, step>> \in ReadingSteps
        /\ InHand(has)
        /\ has.id \in {None, request[q].has.id}
        /\ request[q].at = "answered" => has = request[q].has
        /\ request[q].at = "collisions" =>
              /\ has.stamp = Colliding(q) /\ has.stamped = {}
              /\ step = "record" <=> Colliding(q) = {}
        /\ request[q].at = "previous" =>
              \E read \in Readings(Asked[q].source, Asked[q].period) :
                 has.previous = Max(read \cup {None})
        /\ GoesOn(q, step, has)

Wrote(q) ==
    \E step, has :
        /\ <<request[q].at, step>> \in WritingSteps(q)
        /\ InHand(has)
        /\ has.id = CASE request[q].at = "insert" -> NewId(q, file_batch)
                     [] request[q].at = "record" -> NewId(q, resolution)
                     [] OTHER                    -> request[q].has.id
        /\ request[q].at = "insert" => ~InIndex(q) /\ ~RowsFail(q)
        /\ request[q].at \in {"insert", "mark"} => has.previous = request[q].has.previous
        /\ request[q].has.stamp \cup request[q].has.stamped \subseteq has.stamp \cup has.stamped
        /\ request[q].at = "stamp" =>
              /\ has.stamp = request[q].has.stamp \ {NextStamp(q)}
              /\ has.stamped = request[q].has.stamped \cup {NextStamp(q)}
              /\ step = IF has.stamp = {} THEN AfterStamps[Kind(q)] ELSE "stamp"
        /\ request[q].at = "record" =>
              has.stamp = request[q].has.stamp /\ has.stamped = request[q].has.stamped
        /\ Writing(q, step, has)

Stops(q) == q \in Open /\ \E answer : Ends(q, answer)

Passes(q) ==
    /\ At(q, "check") /\ loop = Free
    /\ Parsed[Asked[q].source][Asked[q].content].readable
    /\ Store!Files!ValidPeriod(Asked[q].period)
    /\ ~Store!Files!PartlyOverlaps(Asked[q].source, Asked[q].period)
    /\ request' = [request EXCEPT ![q].at = "previous"]
    /\ loop' = q
    /\ UNCHANGED <<engine, tables>>

LEMMA OpenSteps ==
    ASSUME NEW q \in Requests, request[q].at \notin {"new", "ended"}
    PROVE  q \in Open
  BY DEF Open, Begun, Ended, At

LEMMA HandlerSteps ==
    ASSUME Shaped, NEW q \in Requests, Handler(q)
    PROVE  Reads(q) \/ Wrote(q) \/ Stops(q) \/ Passes(q) \/ Answer(q)
<1> DEFINE has == request[q].has
<1>h. InHand(has) /\ InHand(Nothing)
  BY DEF Shaped, InHand, HandFields, Nothing
<1>1. CASE Check(q)
  BY <1>1, OpenSteps DEF Check, Stops, Passes, At
<1>2. CASE ReadPrevious(q)
  <2>1. PICK read \in Readings(Asked[q].source, Asked[q].period) :
           GoesOn(q, "insert", [Nothing EXCEPT !.previous = Max(read \cup {None})])
    BY <1>2 DEF ReadPrevious
  <2> DEFINE next == [Nothing EXCEPT !.previous = Max(read \cup {None})]
  <2>2. InHand(next) /\ next.id = None /\ next.previous = Max(read \cup {None})
    BY DEF InHand, HandFields, Nothing
  <2>3. GoesOn(q, "insert", next) /\ request[q].at = "previous"
    BY <1>2, <2>1 DEF ReadPrevious, At
  <2>4. \E r \in Readings(Asked[q].source, Asked[q].period) : next.previous = Max(r \cup {None})
    BY <2>2
  <2>5. <<request[q].at, "insert">> \in ReadingSteps
    BY <2>3 DEF ReadingSteps
  <2> HIDE DEF next
  <2> QED
    BY <2>2, <2>3, <2>4, <2>5 DEF Reads
<1>3. CASE Insert(q)
  <2>1. CASE MayWrite(q) /\ (InIndex(q) \/ RowsFail(q))
    BY <1>3, <2>1, OpenSteps DEF Insert, Stops, At
  <2>2. CASE ~(MayWrite(q) /\ (InIndex(q) \/ RowsFail(q)))
    <3> DEFINE next == [has EXCEPT !.id = NewId(q, file_batch)]
    <3>1. \E step \in {"answer", "mark"} : Writing(q, step, next)
      BY <1>3, <2>2 DEF Insert
    <3>2. /\ InHand(next) /\ next.id = NewId(q, file_batch) /\ next.previous = has.previous
          /\ next.stamp = has.stamp /\ next.stamped = has.stamped
      BY <1>h DEF InHand, HandFields
    <3>3. ~InIndex(q) /\ ~RowsFail(q)
      BY <2>2, <3>1 DEF Writing
    <3>4. request[q].at = "insert"
      BY <1>3 DEF Insert, At
    <3> HIDE DEF next
    <3> QED
      BY <3>1, <3>2, <3>3, <3>4 DEF Wrote, WritingSteps
  <2> QED
    BY <2>1, <2>2
<1>4. CASE MarkPrevious(q)
  BY <1>4, <1>h DEF MarkPrevious, Wrote, WritingSteps, At
<1>5. CASE ReadCollisions(q)
  <2> DEFINE next == [Nothing EXCEPT !.stamp = Colliding(q)]
  <2>1. GoesOn(q, IF Colliding(q) = {} THEN "record" ELSE "stamp", next)
    BY <1>5 DEF ReadCollisions
  <2>2. InHand(next) /\ next.id = None /\ next.stamp = Colliding(q) /\ next.stamped = {}
    BY DEF InHand, HandFields, Nothing
  <2>3. request[q].at = "collisions"
    BY <1>5 DEF ReadCollisions, At
  <2> HIDE DEF next
  <2>4. PICK step : /\ GoesOn(q, step, next) /\ step \in {"record", "stamp"}
                    /\ step = "record" <=> Colliding(q) = {}
    BY <2>1
  <2> QED
    BY <2>2, <2>3, <2>4 DEF Reads, ReadingSteps
<1>6. CASE Stamp(q)
  <2> DEFINE rest == has.stamp \ {NextStamp(q)}
             next == [has EXCEPT !.stamp = rest, !.stamped = @ \cup {NextStamp(q)}]
  <2>1. Writing(q, IF rest = {} THEN AfterStamps[Kind(q)] ELSE "stamp", next)
    BY <1>6 DEF Stamp
  <2>2. /\ InHand(next) /\ next.id = has.id
        /\ next.stamp = rest /\ next.stamped = has.stamped \cup {NextStamp(q)}
    BY <1>h DEF InHand, HandFields
  <2>3. request[q].at = "stamp"
    BY <1>6 DEF Stamp, At
  <2>4. has.stamp \cup has.stamped \subseteq next.stamp \cup next.stamped
    BY <2>2
  <2> HIDE DEF next
  <2>5. PICK step : /\ Writing(q, step, next)
                    /\ step = IF rest = {} THEN AfterStamps[Kind(q)] ELSE "stamp"
    BY <2>1
  <2>6. <<request[q].at, step>> \in WritingSteps(q)
    BY <2>3, <2>5 DEF WritingSteps
  <2> QED
    BY <2>2, <2>3, <2>4, <2>5, <2>6 DEF Wrote
<1>7. CASE Record(q)
  <2> DEFINE next == [has EXCEPT !.id = NewId(q, resolution)]
  <2>1. Writing(q, "answer", next) /\ request[q].at = "record"
    BY <1>7 DEF Record, At
  <2>2. /\ InHand(next) /\ next.id = NewId(q, resolution)
        /\ next.stamp = has.stamp /\ next.stamped = has.stamped
    BY <1>h DEF InHand, HandFields
  <2> HIDE DEF next
  <2> QED
    BY <2>1, <2>2 DEF Wrote, WritingSteps
<1>8. CASE ReadLeft(q)
  <2>1. PICK read : GoesOn(q, "right", [Nothing EXCEPT !.read = read])
    BY <1>8 DEF ReadLeft
  <2> DEFINE next == [Nothing EXCEPT !.read = read]
  <2>2. InHand(next) /\ next.id = None
    BY DEF InHand, HandFields, Nothing
  <2>3. GoesOn(q, "right", next) /\ request[q].at = "left"
    BY <1>8, <2>1 DEF ReadLeft, At
  <2> HIDE DEF next
  <2> QED
    BY <2>2, <2>3 DEF Reads, ReadingSteps
<1>9. CASE ReadRight(q)
  <2>1. PICK read : IF Refused(Asked[q], AsRead(read))
                    THEN Ends(q, "message")
                    ELSE GoesOn(q, "decisions", [Nothing EXCEPT !.read = read])
    BY <1>9 DEF ReadRight
  <2> DEFINE next == [Nothing EXCEPT !.read = read]
  <2>2. InHand(next) /\ next.id = None
    BY DEF InHand, HandFields, Nothing
  <2>3. Ends(q, "message") \/ GoesOn(q, "decisions", next)
    BY <2>1
  <2> HIDE DEF next
  <2> QED
    BY <1>9, <2>2, <2>3, OpenSteps DEF ReadRight, Reads, ReadingSteps, Stops, At
<1>10. CASE ReadDecisions(q)
  <2>1. PICK prior : GoesOn(q, "pairs", [has EXCEPT !.prior = prior])
    BY <1>10 DEF ReadDecisions
  <2> DEFINE next == [has EXCEPT !.prior = prior]
  <2>2. InHand(next) /\ next.id = has.id
    BY <1>h DEF InHand, HandFields
  <2>3. GoesOn(q, "pairs", next) /\ request[q].at = "decisions"
    BY <1>10, <2>1 DEF ReadDecisions, At
  <2> HIDE DEF next
  <2> QED
    BY <2>2, <2>3 DEF Reads, ReadingSteps
<1>11. CASE WritePairs(q)
  <2>1. PICK revoke, row : Writing(q, "find", [has EXCEPT !.revoke = revoke, !.row = row])
    BY <1>11 DEF WritePairs
  <2> DEFINE next == [has EXCEPT !.revoke = revoke, !.row = row]
  <2>2. /\ InHand(next) /\ next.id = has.id
        /\ next.stamp = has.stamp /\ next.stamped = has.stamped
    BY <1>h DEF InHand, HandFields
  <2>3. Writing(q, "find", next) /\ request[q].at = "pairs"
    BY <1>11, <2>1 DEF WritePairs, At
  <2> HIDE DEF next
  <2> QED
    BY <2>2, <2>3 DEF Wrote, WritingSteps
<1>12. CASE FindRevoked(q)
  <2>0. request[q].at = "find"
    BY <1>12 DEF FindRevoked, At
  <2>1. CASE has.revoke = {}
    <3>1. GoesOn(q, "items", has)
      BY <1>12, <2>1 DEF FindRevoked
    <3> QED
      BY <2>0, <3>1, <1>h DEF Reads, ReadingSteps
  <2>2. CASE has.revoke # {}
    <3>1. PICK key, found : \E step \in {"find", "stamp"} :
             GoesOn(q, step, [has EXCEPT !.revoke = @ \ {key}, !.stamp = found])
      BY <1>12, <2>2 DEF FindRevoked
    <3> DEFINE next == [has EXCEPT !.revoke = @ \ {key}, !.stamp = found]
    <3>2. InHand(next) /\ next.id = has.id
      BY <1>h DEF InHand, HandFields
    <3>3. \E step \in {"find", "stamp"} : GoesOn(q, step, next)
      BY <3>1
    <3> HIDE DEF next
    <3> QED
      BY <2>0, <3>2, <3>3 DEF Reads, ReadingSteps
  <2> QED
    BY <2>1, <2>2
<1>13. CASE WriteItems(q)
  <2>0. request[q].at = "items"
    BY <1>13 DEF WriteItems, At
  <2>1. Ends(q, "failed") \/ \E row : Writing(q, "answer", [has EXCEPT !.row = row])
    BY <1>13 DEF WriteItems
  <2>2. CASE Ends(q, "failed")
    BY <2>0, <2>2, OpenSteps DEF Stops
  <2>3. ASSUME NEW row, Writing(q, "answer", [has EXCEPT !.row = row])
        PROVE  Wrote(q)
    <3> DEFINE next == [has EXCEPT !.row = row]
    <3>1. /\ InHand(next) /\ next.id = has.id
          /\ next.stamp = has.stamp /\ next.stamped = has.stamped
      BY <1>h DEF InHand, HandFields
    <3>2. Writing(q, "answer", next)
      BY <2>3
    <3> HIDE DEF next
    <3> QED
      BY <2>0, <3>1, <3>2 DEF Wrote, WritingSteps
  <2> QED
    BY <2>1, <2>2, <2>3
<1>14. CASE Answer(q)
  BY <1>14
<1> QED
  BY <1>1, <1>2, <1>3, <1>4, <1>5, <1>6, <1>7, <1>8, <1>9, <1>10, <1>11, <1>12,
     <1>13, <1>14 DEF Handler

LEMMA Steps ==
    ASSUME Shaped, Next
    PROVE  Restart \/ \E q \in Requests :
               \/ Begin(q) \/ Reads(q) \/ Wrote(q) \/ Stops(q) \/ Passes(q) \/ Answer(q)
               \/ Commit(q)
<1>1. CASE Restart
  BY <1>1
<1>2. ASSUME NEW q \in Requests, Begin(q) \/ Progress(q) \/ StatementFails(q) \/ CommitFails(q)
      PROVE  \/ Begin(q) \/ Reads(q) \/ Wrote(q) \/ Stops(q) \/ Passes(q) \/ Answer(q)
             \/ Commit(q)
  <2>h. InHand(request[q].has)
    BY DEF Shaped
  <2>1. CASE Begin(q) \/ Commit(q)
    BY <2>1
  <2>2. CASE Handler(q)
    BY <2>2, HandlerSteps
  <2>3. CASE Dispatch(q)
    BY <2>3, <2>h DEF Dispatch, Reads, ReadingSteps, At
  <2>4. CASE TimesOut(q)
    BY <2>4, OpenSteps DEF TimesOut, Blocked, WaitsFor, Needs, Writes, Stops
  <2>5. CASE IsAborted(q)
    BY <2>5 DEF IsAborted, Deadlocked, Stops
  <2>6. CASE StatementFails(q)
    BY <2>6, OpenSteps DEF StatementFails, Writes, Stops
  <2>7. CASE CommitFails(q)
    BY <2>7, OpenSteps DEF CommitFails, At, Stops
  <2> QED
    BY <1>2, <2>1, <2>2, <2>3, <2>4, <2>5, <2>6, <2>7 DEF Progress, GivesUp
<1> QED
  BY <1>1, <1>2 DEF Next

----------------------------------------------------------------------------
(* Locks and the event loop.                                               *)

\* A request of each kind takes the steps of its kind.
Fits(q, step) ==
    /\ step \in {"check", "previous", "insert", "mark"} => Kind(q) = "upload"
    /\ step \in {"collisions", "record"} => Kind(q) = "decision"
    /\ step \in {"left", "right", "decisions", "pairs", "find", "items"} => Kind(q) = "run"
    /\ step = "stamp" => Kind(q) \in {"decision", "run"}

OnLoop(q, step) == Kind(q) = "upload" /\ step \in {"previous", "insert", "mark", "answer"}

\* The type invariant is inductive with the steps a request may be at.
IndInv ==
    /\ Shaped
    /\ \A q \in Requests : Fits(q, request[q].at)
    /\ TypeOK

\* What a request has to become for the invariant to be kept.
LEMMA KeepsInv ==
    ASSUME IndInv, NEW q \in Requests, NEW step, NEW after, NEW locks, NEW has,
           Becomes(q, step, after, locks, has), InHand(has), Fits(q, step),
           locks # {} => step \in Writes \cup {"find", "answer", "answered", "committing"},
           \A p \in Requests \ {q} : locks \cap request[p].locks = {},
           OnLoop(q, step) => loop \in {q, Free},
           loop' = IF OnLoop(q, step) THEN q ELSE IF loop = q THEN Free ELSE loop,
           engine' = engine
    PROVE  IndInv'
<1>1. Shaped'
  BY DEF Shaped, Becomes, IndInv
<1>2. \A p \in Requests : Fits(p, request[p].at)'
  BY DEF Becomes, IndInv, Fits, Kind
<1>3. TypeOK'
  <2>1. \A p \in Requests :
           request'[p].locks # {} => request'[p].at \in Writes \cup {"find", "answer", "answered", "committing"}
    BY DEF Becomes, IndInv, TypeOK
  <2>2. ASSUME NEW p \in Requests, NEW o \in Requests \ {p}
        PROVE  request'[o].locks \cap request'[p].locks = {}
    <3>1. request[o].locks \cap request[p].locks = {}
      BY DEF IndInv, TypeOK
    <3> QED
      BY <3>1, <2>2 DEF Becomes
  <2>3. ASSUME NEW p \in Requests
        PROVE  p = loop' <=> OnLoop(p, request'[p].at)
    <3>1. \A o \in Requests : o = loop <=> OnLoop(o, request[o].at)
      BY DEF IndInv, TypeOK, OnLoop
    <3> QED
      BY <3>1, FreeAssumption DEF Becomes
  <2>4. engine' \in Engines
    BY DEF IndInv, TypeOK
  <2> QED
    BY <2>1, <2>2, <2>3, <2>4 DEF TypeOK, OnLoop, Kind
<1> QED
  BY <1>1, <1>2, <1>3 DEF IndInv

LEMMA ReadsInv == ASSUME IndInv, NEW q \in Requests, Reads(q) PROVE IndInv'
<1>1. PICK step, has : /\ <<request[q].at, step>> \in ReadingSteps
                       /\ InHand(has) /\ GoesOn(q, step, has)
  BY DEF Reads
<1>2. /\ Becomes(q, step, request[q].after, request[q].locks, has)
      /\ engine' = engine /\ loop' = loop
  BY <1>1, GoesOnBecomes DEF IndInv
<1>3. Fits(q, request[q].at) /\ (q = loop <=> OnLoop(q, request[q].at))
  BY DEF IndInv, TypeOK, OnLoop
<1>4. Fits(q, step) /\ (OnLoop(q, step) <=> OnLoop(q, request[q].at))
  BY <1>1, <1>3, AskedAssumption DEF Fits, ReadingSteps, OnLoop, Kind
<1>5. request[q].locks # {} => step \in Writes \cup {"find", "answer", "answered", "committing"}
  BY <1>1 DEF IndInv, TypeOK, ReadingSteps, Writes
<1>6. \A p \in Requests \ {q} : request[q].locks \cap request[p].locks = {}
  BY DEF IndInv, TypeOK
<1> QED
  BY <1>1, <1>2, <1>3, <1>4, <1>5, <1>6, KeepsInv

LEMMA WroteInv == ASSUME IndInv, NEW q \in Requests, Wrote(q) PROVE IndInv'
<1>1. PICK step, has : /\ <<request[q].at, step>> \in WritingSteps(q)
                       /\ InHand(has) /\ Writing(q, step, has)
  BY DEF Wrote
<1> DEFINE locks == request[q].locks \cup Needs(q)
<1>2. /\ Becomes(q, step, request[q].after, locks, has)
      /\ engine' = engine /\ loop' = loop
      /\ \A p \in Requests \ {q} : Needs(q) \cap request[p].locks = {}
  BY <1>1, WritingBecomes DEF IndInv
<1>3. Fits(q, request[q].at) /\ (q = loop <=> OnLoop(q, request[q].at))
  BY DEF IndInv, TypeOK, OnLoop
<1>4. /\ Fits(q, step) /\ (OnLoop(q, step) <=> OnLoop(q, request[q].at))
      /\ step \in Writes \cup {"find", "answer"}
  BY <1>1, <1>3, AskedAssumption DEF Fits, WritingSteps, AfterStamps, OnLoop, Kind, Writes
<1>5. \A p \in Requests \ {q} : request[q].locks \cap request[p].locks = {}
  BY DEF IndInv, TypeOK
<1>6. \A p \in Requests \ {q} : locks \cap request[p].locks = {}
  BY <1>2, <1>5
<1> HIDE DEF locks
<1> QED
  BY <1>1, <1>2, <1>3, <1>4, <1>6, KeepsInv

LEMMA StopsInv == ASSUME IndInv, NEW q \in Requests, Stops(q) PROVE IndInv'
<1>1. PICK answer : Ends(q, answer)
  BY DEF Stops
<1>2. request' = [request EXCEPT ![q] = Finished(q, answer, None)] /\ Shaped
  BY <1>1 DEF Ends, IndInv
<1>3. PICK has : InHand(has) /\ Becomes(q, "ended", request[q].after, {}, has)
  BY <1>2, FinishedBecomes
<1>4. engine' = engine /\ loop' = IF loop = q THEN Free ELSE loop
  BY <1>1 DEF Ends
<1>5. Fits(q, "ended") /\ ~OnLoop(q, "ended")
  BY DEF Fits, OnLoop
<1> HIDE DEF IndInv
<1> QED
  BY <1>3, <1>4, <1>5, KeepsInv

LEMMA PassesBecomes ==
    ASSUME Shaped, NEW q \in Requests, Passes(q)
    PROVE  Becomes(q, "previous", request[q].after, request[q].locks, request[q].has)
<1>1. request' = [request EXCEPT ![q].at = "previous"]
  BY DEF Passes
<1>2. DOMAIN request = Requests /\ DOMAIN request[q] = RequestFields
  BY DEF Shaped
<1>3. DOMAIN request' = Requests /\ \A p \in Requests : p # q => request'[p] = request[p]
  BY <1>1, <1>2
<1>4. DOMAIN request'[q] = RequestFields
  BY <1>1, <1>2 DEF RequestFields
<1>5. /\ request'[q].at = "previous" /\ request'[q].has = request[q].has
      /\ request'[q].after = request[q].after /\ request'[q].locks = request[q].locks
  BY <1>1, <1>2 DEF RequestFields
<1> QED
  BY <1>3, <1>4, <1>5 DEF Becomes

LEMMA PassesInv == ASSUME IndInv, NEW q \in Requests, Passes(q) PROVE IndInv'
<1>1. loop' = q /\ loop = Free /\ engine' = engine
  BY DEF Passes
<1>2. Becomes(q, "previous", request[q].after, request[q].locks, request[q].has)
  BY PassesBecomes DEF IndInv
<1>3. Kind(q) = "upload" /\ request[q].locks = {} /\ InHand(request[q].has)
  BY DEF IndInv, Shaped, Fits, TypeOK, Passes, At, Writes
<1>4. Fits(q, "previous") /\ OnLoop(q, "previous")
  BY <1>3 DEF Fits, OnLoop
<1> HIDE DEF IndInv
<1> QED
  BY <1>1, <1>2, <1>3, <1>4, KeepsInv

LEMMA BeginBecomes ==
    ASSUME Shaped, NEW q \in Requests, Begin(q)
    PROVE  /\ Becomes(q, FirstStep[Kind(q)], Ended, request[q].locks, request[q].has)
           /\ engine' = engine /\ loop' = loop /\ loop = Free /\ tables' = tables
<1> DEFINE step == FirstStep[Kind(q)]
<1>1. request' = [request EXCEPT ![q].at = step, ![q].after = Ended]
  BY DEF Begin
<1> HIDE DEF step
<1>2. DOMAIN request = Requests /\ DOMAIN request[q] = RequestFields
  BY DEF Shaped
<1>3. DOMAIN request' = Requests /\ \A p \in Requests : p # q => request'[p] = request[p]
  BY <1>1, <1>2
<1>4. DOMAIN request'[q] = RequestFields
  BY <1>1, <1>2 DEF RequestFields
<1>5. /\ request'[q].at = step /\ request'[q].has = request[q].has
      /\ request'[q].after = Ended /\ request'[q].locks = request[q].locks
  BY <1>1, <1>2 DEF RequestFields
<1>6. engine' = engine /\ loop' = loop /\ loop = Free /\ tables' = tables
  BY DEF Begin
<1> QED
  BY <1>3, <1>4, <1>5, <1>6 DEF Becomes, step

LEMMA FirstSteps ==
    ASSUME NEW q \in Requests
    PROVE  /\ FirstStep[Kind(q)] \in {"check", "collisions", "left"}
           /\ Fits(q, FirstStep[Kind(q)]) /\ ~OnLoop(q, FirstStep[Kind(q)])
<1>1. Kind(q) \in {"upload", "decision", "run"}
  BY AskedAssumption DEF Kind
<1>2. /\ FirstStep["upload"] = "check" /\ FirstStep["decision"] = "collisions"
      /\ FirstStep["run"] = "left"
  BY DEF FirstStep
<1> QED
  BY <1>1, <1>2 DEF Fits, OnLoop

LEMMA BeginInv == ASSUME IndInv, NEW q \in Requests, Begin(q) PROVE IndInv'
<1> DEFINE step == FirstStep[Kind(q)]
<1>1. /\ Becomes(q, step, Ended, request[q].locks, request[q].has)
      /\ engine' = engine /\ loop' = loop /\ loop = Free
  BY BeginBecomes DEF IndInv
<1>2. Fits(q, step) /\ ~OnLoop(q, step)
  BY FirstSteps
<1>3. request[q].locks = {} /\ InHand(request[q].has)
  BY DEF IndInv, TypeOK, Shaped, Begin, At, Writes
<1> HIDE DEF step, IndInv
<1> QED
  BY <1>1, <1>2, <1>3, FreeAssumption, KeepsInv

LEMMA AnswerBecomes ==
    ASSUME Shaped, NEW q \in Requests, Answer(q)
    PROVE  Becomes(q, "answered", request[q].after, request[q].locks, request[q].has)
<1>1. request' = [request EXCEPT ![q].at = "answered", ![q].answer = "success"]
  BY DEF Answer
<1>2. DOMAIN request = Requests /\ DOMAIN request[q] = RequestFields
  BY DEF Shaped
<1>3. DOMAIN request' = Requests /\ \A p \in Requests : p # q => request'[p] = request[p]
  BY <1>1, <1>2
<1>4. DOMAIN request'[q] = RequestFields
  BY <1>1, <1>2 DEF RequestFields
<1>5. /\ request'[q].at = "answered" /\ request'[q].has = request[q].has
      /\ request'[q].after = request[q].after /\ request'[q].locks = request[q].locks
  BY <1>1, <1>2 DEF RequestFields
<1> QED
  BY <1>3, <1>4, <1>5 DEF Becomes

LEMMA AnswerInv == ASSUME IndInv, NEW q \in Requests, Answer(q) PROVE IndInv'
<1>1. Becomes(q, "answered", request[q].after, request[q].locks, request[q].has)
  BY AnswerBecomes DEF IndInv
<1>2. Fits(q, "answered") /\ ~OnLoop(q, "answered")
  BY DEF Fits, OnLoop
<1>3. InHand(request[q].has)
  BY DEF IndInv, Shaped
<1>4. \A p \in Requests \ {q} : request[q].locks \cap request[p].locks = {}
  BY DEF IndInv, TypeOK
<1>5. engine' = engine /\ loop' = IF loop = q THEN Free ELSE loop
  BY DEF Answer
<1> HIDE DEF IndInv
<1> QED
  BY <1>1, <1>2, <1>3, <1>4, <1>5, KeepsInv

LEMMA CommitBecomes ==
    ASSUME Shaped, NEW q \in Requests, Commit(q)
    PROVE  /\ \E has : /\ InHand(has) /\ has.id = request[q].has.id
                       /\ Becomes(q, "ended", request[q].after, {}, has)
           /\ engine' = engine /\ loop' = loop
<1>1. request' = [request EXCEPT ![q] = Finished(q, "success", request[q].has.id)]
  BY DEF Commit
<1>2. engine' = engine /\ loop' = loop
  BY DEF Commit
<1> QED
  BY <1>1, <1>2, FinishedBecomes

LEMMA CommitInv == ASSUME IndInv, NEW q \in Requests, Commit(q) PROVE IndInv'
<1>1. PICK has : InHand(has) /\ Becomes(q, "ended", request[q].after, {}, has)
  BY CommitBecomes DEF IndInv
<1>2. engine' = engine /\ loop' = loop
  BY DEF Commit
<1>3. Fits(q, "ended") /\ ~OnLoop(q, "ended")
  BY DEF Fits, OnLoop
<1>4. loop # q
  BY DEF IndInv, TypeOK, Commit, At
<1> HIDE DEF IndInv
<1> QED
  BY <1>1, <1>2, <1>3, <1>4, KeepsInv

\* What a restart makes of a request.
AfterRestart(p) ==
    IF p \in Open
    THEN Finished(p, IF request[p].answer = "none" THEN "failed" ELSE request[p].answer, None)
    ELSE request[p]

LEMMA RestartInv == ASSUME IndInv, Restart PROVE IndInv'
<1>1. request' = [p \in Requests |-> AfterRestart(p)] /\ loop' = Free /\ engine' = engine
  BY DEF Restart, AfterRestart
<1>2. ASSUME NEW p \in Requests
      PROVE  /\ DOMAIN AfterRestart(p) = RequestFields /\ InHand(AfterRestart(p).has)
             /\ Fits(p, AfterRestart(p).at)
             /\ AfterRestart(p).locks = {} /\ ~OnLoop(p, AfterRestart(p).at)
  <2>1. CASE p \in Open
    BY <2>1, FinishedRequest DEF AfterRestart, Fits, OnLoop
  <2>2. CASE p \notin Open
    <3>1. request[p].at \in {"new", "ended"}
      BY <2>2, OpenSteps
    <3> QED
      BY <2>2, <3>1 DEF AfterRestart, IndInv, Shaped, TypeOK, OnLoop, Writes
  <2> QED
    BY <2>1, <2>2
<1> HIDE DEF IndInv
<1>3. Shaped' /\ \A p \in Requests : Fits(p, request[p].at)'
  BY <1>1, <1>2 DEF Shaped, Fits, Kind
<1>4. TypeOK'
  <2>1. \A p \in Requests : request'[p].locks = {} /\ ~OnLoop(p, request'[p].at)
    BY <1>1, <1>2
  <2>2. engine \in Engines
    BY DEF IndInv, TypeOK
  <2> QED
    BY <1>1, <2>1, <2>2, FreeAssumption DEF TypeOK, OnLoop, Kind
<1> QED
  BY <1>3, <1>4 DEF IndInv

LEMMA InitInv == ASSUME Init PROVE IndInv
<1>1. \A q \in Requests : request[q] = New
  BY DEF Init
<1>2. Shaped
  BY <1>1 DEF Init, Shaped, RequestFields, InHand, HandFields, New, Nothing
<1>3. \A q \in Requests : Fits(q, request[q].at)
  BY <1>1 DEF Fits, New
<1>4. TypeOK
  BY <1>1, FreeAssumption DEF Init, TypeOK, New
<1> QED
  BY <1>2, <1>3, <1>4 DEF IndInv

LEMMA NextInv == ASSUME IndInv, [Next]_vars PROVE IndInv'
<1>1. CASE UNCHANGED vars
  <2>1. request' = request /\ loop' = loop /\ engine' = engine
    BY <1>1 DEF vars
  <2> QED
    BY <2>1 DEF IndInv, Shaped, Fits, TypeOK, Kind
<1>2. CASE Next
  <2>1. CASE Restart
    BY <2>1, RestartInv
  <2>2. ASSUME NEW q \in Requests,
               \/ Begin(q) \/ Reads(q) \/ Wrote(q) \/ Stops(q) \/ Passes(q) \/ Answer(q)
               \/ Commit(q)
        PROVE  IndInv'
    BY <2>2, BeginInv, ReadsInv, WroteInv, StopsInv, PassesInv, AnswerInv, CommitInv
  <2>3. Shaped
    BY DEF IndInv
  <2> QED
    BY <1>2, <2>1, <2>2, <2>3, Steps
<1> QED
  BY <1>1, <1>2

LEMMA Inductive == Spec => []IndInv
<1>1. Init => IndInv
  BY InitInv
<1>2. IndInv /\ [Next]_vars => IndInv'
  BY NextInv
<1> QED
  BY <1>1, <1>2, PTL DEF Spec

\* Whatever overlaps, fails or is restarted, a lock has one owner, the event
\* loop is held by exactly the upload between its first query and its
\* answer, and nothing is locked by a request that only read or is over.
THEOREM TypeCorrect == Spec => []TypeOK
<1>1. IndInv => TypeOK
  BY DEF IndInv
<1> QED
  BY <1>1, Inductive, PTL

----------------------------------------------------------------------------
(* The unique index on source and digest.                                  *)

BatchFields == {"source", "period", "content", "version", "superseded_by", "records", "errors"}

IsBatch(b) == b = [field \in BatchFields |-> b[field]]

DecisionFields == {"kind", "left", "right", "stamp"}

IsDecision(d) == d = [field \in DecisionFields |-> d[field]]

\* A request is past the insertion of its row.
Inserted(q) ==
    Kind(q) = "upload" /\ request[q].at \in {"mark", "answer", "answered", "committing"}

\* The lock by which it keeps others from inserting the same.
DigestLock(q) ==
    IF engine = "sqlite" THEN <<"writer", None>>
    ELSE <<"digest", <<Asked[q].source, Asked[q].content>>>>

\* An upload past its insertion owns its digest, which is not stored yet.
Claims ==
    \A q \in Requests : Inserted(q) => ~InIndex(q) /\ DigestLock(q) \in request[q].locks

DigestInv ==
    /\ IndInv
    /\ \A b \in DOMAIN file_batch : IsBatch(file_batch[b])
    /\ DigestsUnique
    /\ Claims

\* A step that stores no file keeps the claims but those of its request.
LEMMA KeepsClaims ==
    ASSUME DigestInv, IndInv', file_batch' = file_batch, engine' = engine,
           \A q \in Requests :
               \/ request'[q] = request[q]
               \/ Inserted(q)' => ~InIndex(q) /\ DigestLock(q) \in request'[q].locks
    PROVE  DigestInv'
<1>1. \A q \in Requests : (InIndex(q)' <=> InIndex(q)) /\ DigestLock(q)' = DigestLock(q)
  BY DEF InIndex, DigestLock, Store!Files!Duplicate
<1>2. Claims'
  BY <1>1 DEF DigestInv, Claims, Inserted, Kind
<1>3. DigestsUnique' /\ (\A b \in DOMAIN file_batch : IsBatch(file_batch[b]))'
  BY DEF DigestInv, DigestsUnique
<1> QED
  BY <1>2, <1>3 DEF DigestInv

LEMMA WroteClaims ==
    ASSUME DigestInv, IndInv', NEW q \in Requests, Wrote(q)
    PROVE  DigestInv'
<1>1. PICK step, has : /\ <<request[q].at, step>> \in WritingSteps(q)
                       /\ request[q].at = "insert" => ~InIndex(q)
                       /\ Writing(q, step, has)
  BY DEF Wrote
<1> DEFINE locks == request[q].locks \cup Needs(q)
<1>2. Becomes(q, step, request[q].after, locks, has) /\ engine' = engine /\ tables' = tables
  BY <1>1, WritingBecomes DEF DigestInv, IndInv
<1>3. ASSUME Inserted(q)'
      PROVE  ~InIndex(q) /\ DigestLock(q) \in locks
  <2>1. Kind(q) = "upload" /\ request[q].at \in {"insert", "mark"}
    <3>1. Kind(q) = "upload" /\ step \in {"mark", "answer", "answered", "committing"}
      BY <1>2, <1>3 DEF Inserted, Becomes, Kind
    <3>2. Fits(q, request[q].at)
      BY DEF DigestInv, IndInv
    <3> QED
      BY <1>1, <3>1, <3>2 DEF Fits, WritingSteps
  <2>2. CASE request[q].at = "insert"
    <3>1. DigestLock(q) \in Needs(q)
      BY <2>2 DEF DigestLock, Needs, At, Writes
    <3> QED
      BY <1>1, <2>2, <3>1
  <2>3. CASE request[q].at = "mark"
    BY <2>1, <2>3 DEF DigestInv, Claims, Inserted
  <2> QED
    BY <2>1, <2>2, <2>3
<1>4. \A p \in Requests :
         \/ request'[p] = request[p]
         \/ Inserted(p)' => ~InIndex(p) /\ DigestLock(p) \in request'[p].locks
  BY <1>2, <1>3 DEF Becomes
<1> QED
  BY <1>2, <1>4, KeepsClaims DEF tables

LEMMA ReadsClaims ==
    ASSUME DigestInv, IndInv', NEW q \in Requests, Reads(q)
    PROVE  DigestInv'
<1>1. PICK step, has : <<request[q].at, step>> \in ReadingSteps /\ GoesOn(q, step, has)
  BY DEF Reads
<1> DEFINE locks == request[q].locks
<1>2. Becomes(q, step, request[q].after, locks, has) /\ engine' = engine /\ tables' = tables
  BY <1>1, GoesOnBecomes DEF DigestInv, IndInv
<1>3. ASSUME Inserted(q)'
      PROVE  ~InIndex(q) /\ DigestLock(q) \in locks
  <2>1. Kind(q) = "upload" /\ step \in {"mark", "answer", "answered", "committing"}
    BY <1>2, <1>3 DEF Inserted, Becomes, Kind
  <2>2. request[q].at = "answered"
    BY <1>1, <2>1 DEF ReadingSteps
  <2> QED
    BY <2>1, <2>2 DEF DigestInv, Claims, Inserted
<1>4. \A p \in Requests :
         \/ request'[p] = request[p]
         \/ Inserted(p)' => ~InIndex(p) /\ DigestLock(p) \in request'[p].locks
  BY <1>2, <1>3 DEF Becomes
<1> QED
  BY <1>2, <1>4, KeepsClaims DEF tables

\* The other steps but a commit, after which none has just inserted.
LEMMA OtherClaims ==
    ASSUME DigestInv, IndInv', NEW q \in Requests,
           Begin(q) \/ Stops(q) \/ Passes(q) \/ Answer(q)
    PROVE  DigestInv'
<1>0. Shaped
  BY DEF DigestInv, IndInv
<1>1. CASE Begin(q)
  <2>1. /\ \A p \in Requests : p # q => request'[p] = request[p]
        /\ request'[q].at = FirstStep[Kind(q)]
        /\ file_batch' = file_batch /\ engine' = engine
    BY <1>0, <1>1, BeginBecomes DEF Becomes, tables
  <2>2. ~Inserted(q)'
    BY <2>1, FirstSteps DEF Inserted
  <2> QED
    BY <2>1, <2>2, KeepsClaims
<1>2. CASE Stops(q)
  <2>1. PICK answer : Ends(q, answer)
    BY <1>2 DEF Stops
  <2>2. /\ \A p \in Requests : p # q => request'[p] = request[p]
        /\ request'[q].at = "ended"
        /\ file_batch' = file_batch /\ engine' = engine
    BY <1>0, <2>1, FinishedBecomes DEF Ends, Becomes, tables
  <2>3. ~Inserted(q)'
    BY <2>2 DEF Inserted
  <2> QED
    BY <2>2, <2>3, KeepsClaims
<1>3. CASE Passes(q)
  <2>2. /\ \A p \in Requests : p # q => request'[p] = request[p]
        /\ request'[q].at = "previous"
        /\ file_batch' = file_batch /\ engine' = engine
    BY <1>0, <1>3, PassesBecomes DEF Passes, Becomes, tables
  <2>3. ~Inserted(q)'
    BY <2>2 DEF Inserted
  <2> QED
    BY <2>2, <2>3, KeepsClaims
<1>4. CASE Answer(q)
  <2>1. /\ \A p \in Requests : p # q => request'[p] = request[p]
        /\ request'[q].locks = request[q].locks
        /\ file_batch' = file_batch /\ engine' = engine
    BY <1>0, <1>4, AnswerBecomes DEF Answer, Becomes, tables
  <2>2. Kind(q) = "upload" => Inserted(q)
    BY <1>4 DEF Answer, At, Inserted
  <2>3. Inserted(q)' => ~InIndex(q) /\ DigestLock(q) \in request'[q].locks
    BY <2>1, <2>2 DEF DigestInv, Claims, Inserted, Kind
  <2> QED
    BY <2>1, <2>3, KeepsClaims
<1> QED
  BY <1>1, <1>2, <1>3, <1>4

\* What the commit of an upload leaves in the table.
LEMMA FilesAfterRows ==
    ASSUME \A b \in DOMAIN file_batch : IsBatch(file_batch[b]), NEW q \in Requests
    PROVE  LET id == request[q].has.id IN
           /\ DOMAIN FilesAfter(q) = DOMAIN file_batch \cup {id}
           /\ FilesAfter(q)[id].source = Asked[q].source
           /\ FilesAfter(q)[id].content = Asked[q].content
           /\ FilesAfter(q)[id].superseded_by = None
           /\ IsBatch(FilesAfter(q)[id])
           /\ \A b \in DOMAIN file_batch \ {id} :
                 /\ IsBatch(FilesAfter(q)[b])
                 /\ \/ FilesAfter(q)[b] = file_batch[b]
                    \/ FilesAfter(q)[b] = [file_batch[b] EXCEPT !.superseded_by = id]
<1> DEFINE id  == request[q].has.id
           new == Store!Files!NewBatch(Asked[q].source, Asked[q].period, Asked[q].content,
                                       request[q].has.previous)
<1>1. /\ new.source = Asked[q].source /\ new.content = Asked[q].content
      /\ new.superseded_by = None /\ IsBatch(new)
  BY DEF Store!Files!NewBatch, IsBatch, BatchFields, None, Store!Files!None
<1> HIDE DEF new
<1>2. FilesAfter(q) =
         [b \in DOMAIN file_batch \cup {id} |->
             IF b = id THEN new
             ELSE IF b = request[q].has.previous THEN [file_batch[b] EXCEPT !.superseded_by = id]
             ELSE file_batch[b]]
  BY DEF FilesAfter, new
<1>3. \A b \in DOMAIN file_batch : IsBatch([file_batch[b] EXCEPT !.superseded_by = id])
  BY DEF IsBatch
<1> HIDE DEF id
<1>4. \A b \in DOMAIN file_batch \ {id} :
         \/ FilesAfter(q)[b] = file_batch[b]
         \/ FilesAfter(q)[b] = [file_batch[b] EXCEPT !.superseded_by = id]
  BY <1>2
<1>5. \A b \in DOMAIN file_batch \ {id} : IsBatch(FilesAfter(q)[b])
  BY <1>3, <1>4
<1>6. DOMAIN FilesAfter(q) = DOMAIN file_batch \cup {id} /\ FilesAfter(q)[id] = new
  BY <1>2
<1> QED
  BY <1>1, <1>4, <1>5, <1>6 DEF id

LEMMA CommitClaims ==
    ASSUME DigestInv, IndInv', NEW q \in Requests, Commit(q)
    PROVE  DigestInv'
<1> DEFINE id == request[q].has.id
<1>0. /\ \A p \in Requests : p # q => request'[p] = request[p]
      /\ request'[q].at = "ended" /\ engine' = engine
  BY CommitBecomes DEF DigestInv, IndInv, Becomes
<1>1. ~Inserted(q)'
  BY <1>0 DEF Inserted
<1>2. CASE file_batch' = file_batch
  BY <1>0, <1>1, <1>2, KeepsClaims
<1>3. CASE file_batch' # file_batch
  <2>1. Kind(q) = "upload" /\ file_batch' = FilesAfter(q)
    BY <1>3 DEF Commit
  <2>2. ~InIndex(q) /\ DigestLock(q) \in request[q].locks
    BY <2>1 DEF DigestInv, Claims, Inserted, Commit, At
  <2>3. /\ DOMAIN file_batch' = DOMAIN file_batch \cup {id}
        /\ file_batch'[id].source = Asked[q].source
        /\ file_batch'[id].content = Asked[q].content
        /\ IsBatch(file_batch'[id])
        /\ \A b \in DOMAIN file_batch \ {id} :
              /\ IsBatch(file_batch'[b])
              /\ file_batch'[b].source = file_batch[b].source
              /\ file_batch'[b].content = file_batch[b].content
    <3>1. \A b \in DOMAIN file_batch : IsBatch(file_batch[b])
      BY DEF DigestInv
    <3>2. ASSUME NEW b \in DOMAIN file_batch
          PROVE  /\ [file_batch[b] EXCEPT !.superseded_by = id].source = file_batch[b].source
                 /\ [file_batch[b] EXCEPT !.superseded_by = id].content = file_batch[b].content
      BY <3>1 DEF IsBatch, BatchFields
    <3> QED
      BY <2>1, <3>1, <3>2, FilesAfterRows
  <2> HIDE DEF id
  <2>4. DigestsUnique'
    <3>1. ASSUME NEW i \in DOMAIN file_batch \ {id}
          PROVE  <<file_batch'[i].source, file_batch'[i].content>> # <<Asked[q].source, Asked[q].content>>
      BY <2>2, <2>3, <3>1 DEF InIndex, Store!Files!Duplicate
    <3>2. ASSUME NEW i \in DOMAIN file_batch', NEW j \in DOMAIN file_batch',
                 <<file_batch'[i].source, file_batch'[i].content>> =
                     <<file_batch'[j].source, file_batch'[j].content>>
          PROVE  i = j
      BY <2>3, <3>1, <3>2 DEF DigestInv, DigestsUnique
    <3> QED
      BY <3>2 DEF DigestsUnique
  <2>5. ASSUME NEW p \in Requests, Inserted(p)'
        PROVE  ~InIndex(p)' /\ DigestLock(p)' \in request'[p].locks
    <3>1. p # q /\ Inserted(p)
      BY <1>0, <1>1, <2>5 DEF Inserted, Kind
    <3>2. ~InIndex(p) /\ DigestLock(p) \in request[p].locks
      BY <3>1 DEF DigestInv, Claims
    <3>3. DigestLock(p) # DigestLock(q)
      BY <2>2, <3>1, <3>2 DEF DigestInv, IndInv, TypeOK
    <3>4. <<Asked[p].source, Asked[p].content>> # <<Asked[q].source, Asked[q].content>>
      BY <3>3 DEF DigestLock
    <3>5. ~InIndex(p)'
      BY <2>3, <3>2, <3>4 DEF InIndex, Store!Files!Duplicate
    <3> QED
      BY <1>0, <3>1, <3>2, <3>5 DEF DigestLock
  <2>6. (\A b \in DOMAIN file_batch : IsBatch(file_batch[b]))'
    BY <2>3
  <2> QED
    BY <2>4, <2>5, <2>6 DEF DigestInv, Claims
<1> QED
  BY <1>2, <1>3

LEMMA RestartClaims == ASSUME DigestInv, IndInv', Restart PROVE DigestInv'
<1>1. file_batch' = file_batch /\ engine' = engine
  BY DEF Restart, tables
<1>2. ASSUME NEW q \in Requests
      PROVE  ~Inserted(q)'
  <2>1. request'[q] = AfterRestart(q)
    BY DEF Restart, AfterRestart
  <2>2. AfterRestart(q).at \in {"new", "ended"}
    BY OpenSteps, FinishedRequest DEF AfterRestart
  <2> QED
    BY <2>1, <2>2 DEF Inserted
<1> QED
  BY <1>1, <1>2, KeepsClaims

LEMMA InitDigest == ASSUME Init PROVE DigestInv
<1>1. \A b \in DOMAIN Loaded : IsBatch(Loaded[b])
  <2>1. \A b \in DOMAIN Loaded : Loaded[b] \in Store!Files!FileBatch
    BY LoadedAssumption
  <2> QED
    BY <2>1 DEF IsBatch, BatchFields, Store!Files!FileBatch
<1>2. \A q \in Requests : ~Inserted(q)
  BY DEF Init, Inserted, New
<1>3. file_batch = Loaded
  BY DEF Init
<1>4. DigestsUnique
  BY <1>3, LoadedAssumption DEF DigestsUnique
<1> QED
  BY <1>1, <1>2, <1>3, <1>4, InitInv DEF DigestInv, Claims

LEMMA NextDigest == ASSUME DigestInv, [Next]_vars PROVE DigestInv'
<1>1. IndInv' /\ Shaped
  BY NextInv DEF DigestInv, IndInv
<1>2. CASE UNCHANGED vars
  BY <1>1, <1>2, KeepsClaims DEF vars, tables
<1>3. CASE Restart
  BY <1>1, <1>3, RestartClaims
<1>4. ASSUME NEW q \in Requests,
             \/ Begin(q) \/ Reads(q) \/ Wrote(q) \/ Stops(q) \/ Passes(q) \/ Answer(q)
             \/ Commit(q)
      PROVE  DigestInv'
  BY <1>1, <1>4, ReadsClaims, WroteClaims, OtherClaims, CommitClaims
<1> QED
  BY <1>1, <1>2, <1>3, <1>4, Steps

LEMMA DigestInductive == Spec => []DigestInv
<1>1. Init => DigestInv
  BY InitDigest
<1>2. DigestInv /\ [Next]_vars => DigestInv'
  BY NextDigest
<1> QED
  BY <1>1, <1>2, PTL DEF Spec

\* The same bytes are stored once for a source, however many uploads of them
\* overlap, on either database: the unique index and its lock see to it,
\* although the check for a duplicate runs before them.
THEOREM DigestsStayUnique == Spec => []DigestsUnique
<1>1. DigestInv => DigestsUnique
  BY DEF DigestInv
<1> QED
  BY <1>1, DigestInductive, PTL

----------------------------------------------------------------------------
(* The ids of new rows.                                                    *)

\* Every set of naturals that is not empty has a least element.
LEMMA Least ==
    ASSUME NEW S \in SUBSET Nat, S # {}
    PROVE  \E n \in S : \A m \in S : n <= m
<1>1. IsWellFoundedOn(OpToRel(<, Nat), Nat)
  BY NatLessThanWellFounded
<1>2. PICK n \in S : \A m \in S : ~(<<m, n>> \in OpToRel(<, Nat))
  BY <1>1, WFMin
<1>3. \A m \in S : m < n => <<m, n>> \in OpToRel(<, Nat)
  BY DEF OpToRel
<1>4. n \in Nat /\ \A m \in S : m \in Nat
  OBVIOUS
<1>5. \A m \in S : ~(m < n)
  BY <1>2, <1>3
<1>6. \A m \in S : n <= m
  BY <1>4, <1>5
<1> QED
  BY <1>6

\* No member of a set of naturals is greater than its greatest one.
LEMMA Greatest ==
    ASSUME NEW S \in SUBSET Nat, S # {}, NEW n \in Nat, \A m \in S : m <= n
    PROVE  Max(S) \in S /\ \A m \in S : m <= Max(S)
<1> DEFINE Bounds == {b \in Nat : \A m \in S : m <= b}
<1>1. PICK b \in Bounds : \A c \in Bounds : b <= c
  BY Least
<1>2. b \in S
  <2>1. CASE b = 0
    <3>1. PICK m \in S : TRUE
      OBVIOUS
    <3>2. m \in Nat /\ m <= 0
      BY <2>1
    <3>3. m = b
      BY <2>1, <3>2
    <3> QED
      BY <3>3
  <2>2. CASE b > 0 /\ b \notin S
    <3>1. b - 1 \in Bounds
      BY <2>2
    <3> QED
      BY <1>1, <3>1
  <2> QED
    BY <2>1, <2>2
<1>3. b \in S /\ \A m \in S : b >= m
  BY <1>2
<1> QED
  BY <1>3 DEF Max

\* What a function assigns to the members of a finite set has a bound.
LEMMA FiniteBound ==
    ASSUME NEW f, NEW S, IsFiniteSet(S), \A s \in S : f[s] \in Nat
    PROVE  \E n \in Nat : \A s \in S : f[s] <= n
<1> DEFINE Unbounded(U) == ~\E n \in Nat : \A s \in U : f[s] <= n
           Sizes == {c \in Nat : \E U \in SUBSET S : IsFiniteSet(U) /\ Cardinality(U) = c /\ Unbounded(U)}
<1>1. SUFFICES ASSUME Unbounded(S) PROVE FALSE
  OBVIOUS
<1>2. Cardinality(S) \in Sizes
  BY <1>1, FS_CardinalityType
<1> HIDE DEF Unbounded
<1>3. PICK c \in Sizes : \A d \in Sizes : c <= d
  BY <1>2, Least
<1>4. PICK U \in SUBSET S : IsFiniteSet(U) /\ Cardinality(U) = c /\ Unbounded(U)
  OBVIOUS
<1>5. PICK s : s \in U
  BY <1>4 DEF Unbounded
<1>6. IsFiniteSet(U \ {s}) /\ Cardinality(U \ {s}) = c - 1 /\ c - 1 \in Nat
  <2>1. /\ IsFiniteSet(U \ {s})
        /\ Cardinality(U \ {s}) = IF s \in U THEN Cardinality(U) - 1 ELSE Cardinality(U)
    BY <1>4, FS_RemoveElement
  <2>2. Cardinality(U \ {s}) \in Nat
    BY <2>1, FS_CardinalityType
  <2> QED
    BY <1>4, <1>5, <2>1, <2>2
<1>7. ~Unbounded(U \ {s})
  BY <1>3, <1>6
<1>8. PICK n \in Nat : \A t \in U \ {s} : f[t] <= n
  BY <1>7 DEF Unbounded
<1>9. PICK m \in Nat : n <= m /\ f[s] <= m
  BY <1>5
<1>10. \A t \in U : f[t] <= m
  BY <1>8, <1>9
<1> QED
  BY <1>4, <1>10 DEF Unbounded

\* The ids of a table are numbers, the greatest of which can be found.
Bounded(ids) == ids \subseteq Nat /\ \E n \in Nat : \A i \in ids : i <= n

LEMMA BoundedAdd ==
    ASSUME NEW ids, Bounded(ids), NEW i \in Nat
    PROVE  Bounded(ids \cup {i})
<1>1. PICK n \in Nat : \A j \in ids : j <= n
  BY DEF Bounded
<1>2. PICK m \in Nat : n <= m /\ i <= m
  <2>1. CASE n <= i
    BY <2>1
  <2>2. CASE i <= n
    BY <2>2
  <2> QED
    BY <2>1, <2>2
<1>3. \A j \in ids : j \in Nat
  BY DEF Bounded
<1>4. \A j \in ids \cup {i} : j \in Nat /\ j <= m
  BY <1>1, <1>2, <1>3
<1> QED
  BY <1>4 DEF Bounded

\* A new id is nobody else's: neither a stored row nor an open request of
\* the same kind has it.
LEMMA NewIdIsNew ==
    ASSUME \A p \in Requests : request[p].has.id \in Nat,
           NEW q \in Requests, NEW rows, Bounded(DOMAIN rows)
    PROVE  /\ NewId(q, rows) \in Nat \ {None}
           /\ NewId(q, rows) \notin DOMAIN rows
           /\ \A i \in DOMAIN rows : i < NewId(q, rows)
           /\ \A p \in Open : Kind(p) = Kind(q) => request[p].has.id # NewId(q, rows)
<1> DEFINE others == {o \in Open : Kind(o) = Kind(q)}
           ids    == {request[p].has.id : p \in others}
           all    == {None} \cup DOMAIN rows \cup ids
           idOf   == [p \in Requests |-> request[p].has.id]
<1>1. \A p \in others : p \in Requests
  BY DEF Open, Begun
<1>2. PICK n \in Nat : \A i \in DOMAIN rows : i <= n
  BY DEF Bounded
<1>3. PICK m \in Nat : \A p \in Requests : request[p].has.id <= m
  <2>1. \A p \in Requests : idOf[p] \in Nat
    OBVIOUS
  <2> HIDE DEF idOf
  <2>2. PICK m \in Nat : \A p \in Requests : idOf[p] <= m
    BY <2>1, RequestsAssumption, FiniteBound
  <2> QED
    BY <2>2 DEF idOf
<1>4. \A i \in ids : i \in Nat /\ i <= m
  BY <1>1, <1>3
<1>5. \A i \in DOMAIN rows : i \in Nat
  BY DEF Bounded
<1> HIDE DEF ids
<1>6. \A i \in all : i \in Nat /\ i <= n + m
  BY <1>2, <1>3, <1>4, <1>5 DEF None
<1>7. all \in SUBSET Nat /\ all # {} /\ n + m \in Nat
  BY <1>6
<1> HIDE DEF all
<1>8. Max(all) \in all /\ \A i \in all : i <= Max(all)
  BY <1>6, <1>7, Greatest
<1>9. NewId(q, rows) = 1 + Max(all)
  BY DEF NewId, all, ids
<1>10. Max(all) \in Nat /\ \A i \in all : i \in Nat /\ i < 1 + Max(all) /\ i # 1 + Max(all)
  BY <1>6, <1>8
<1>11. \A p \in Open : Kind(p) = Kind(q) => request[p].has.id \in all
  BY DEF all, ids
<1>12. \A i \in DOMAIN rows : i \in all
  BY DEF all
<1> QED
  BY <1>9, <1>10, <1>11, <1>12 DEF None

\* The table a request adds a row to, if it adds one, by then with an id.
Rows(q) == IF Kind(q) = "upload" THEN file_batch ELSE resolution

Numbered == {"mark", "answer", "answered", "committing"}

\* The id a request has in hand is its own.
OwnId(q) ==
    LET id == request[q].has.id IN
    /\ id \in Nat
    /\ Kind(q) = "run" \/ request[q].at = "new" => id = None
    /\ Kind(q) # "run" /\ request[q].at \in Numbered => id # None
    /\ q \in Open /\ id # None =>
          /\ id \notin DOMAIN Rows(q)
          /\ \A p \in Open \ {q} : Kind(p) = Kind(q) => request[p].has.id # id

IdInv ==
    /\ DigestInv
    /\ \A i \in DOMAIN resolution : IsDecision(resolution[i])
    /\ Bounded(DOMAIN file_batch) /\ Bounded(DOMAIN resolution)
    /\ None \notin DOMAIN resolution
    /\ \A q \in Requests : OwnId(q)

LEMMA KeepsIds ==
    ASSUME IdInv, DigestInv', tables' = tables, NEW q \in Requests,
           NEW step, NEW after, NEW locks, NEW has, Becomes(q, step, after, locks, has),
           has.id \in Nat, step # "new",
           Kind(q) = "run" => has.id = None,
           Kind(q) # "run" /\ step \in Numbered => has.id # None,
           step # "ended" /\ has.id # None =>
              /\ has.id \notin DOMAIN Rows(q)
              /\ \A p \in Open \ {q} : Kind(p) = Kind(q) => request[p].has.id # has.id
    PROVE  IdInv'
<1>1. file_batch' = file_batch /\ resolution' = resolution
  BY DEF tables
<1>2. \A p \in Requests : p # q => (p \in Open' <=> p \in Open) /\ request'[p] = request[p]
  BY DEF Becomes, Open, Begun, Ended, At
<1>3. request'[q].at = step /\ request'[q].has = has
  BY DEF Becomes
<1>4. q \in Open' => step # "ended"
  BY <1>3 DEF Open, Ended, At
<1>5. Open \subseteq Requests /\ Open' \subseteq Requests
  BY DEF Open, Begun
<1>6. OwnId(q)'
  BY <1>1, <1>2, <1>3, <1>4, <1>5 DEF OwnId, Rows, Kind
<1>7. ASSUME NEW p \in Requests, p # q PROVE OwnId(p)'
  <2>1. OwnId(p)
    BY DEF IdInv
  <2>2. ASSUME p \in Open', request[p].has.id # None, NEW o \in Open' \ {p}, Kind(o) = Kind(p)
        PROVE  request'[o].has.id # request[p].has.id
    <3>1. CASE o = q
      BY <1>2, <1>3, <1>4, <1>7, <2>2, <3>1
    <3>2. CASE o # q
      BY <1>2, <1>5, <1>7, <2>1, <2>2, <3>2 DEF OwnId
    <3> QED
      BY <3>1, <3>2
  <2>3. p \in Open' /\ request[p].has.id # None => request[p].has.id \notin DOMAIN Rows(p)
    BY <1>2, <1>7, <2>1 DEF OwnId
  <2> QED
    BY <1>1, <1>2, <1>7, <2>1, <2>2, <2>3 DEF OwnId, Rows, Kind
<1> QED
  BY <1>1, <1>6, <1>7 DEF IdInv

LEMMA ReadsIds == ASSUME IdInv, DigestInv', NEW q \in Requests, Reads(q) PROVE IdInv'
<1>1. PICK step, has : /\ <<request[q].at, step>> \in ReadingSteps
                       /\ has.id \in {None, request[q].has.id}
                       /\ request[q].at = "answered" => has = request[q].has
                       /\ GoesOn(q, step, has)
  BY DEF Reads
<1>2. Becomes(q, step, request[q].after, request[q].locks, has) /\ tables' = tables
  BY <1>1, GoesOnBecomes DEF IdInv, DigestInv, IndInv
<1>3. OwnId(q)
  BY DEF IdInv
<1>4. step # "new" /\ (step \in Numbered => request[q].at = "answered")
  BY <1>1 DEF ReadingSteps, Numbered
<1>5. q \in Open
  BY <1>1, OpenSteps DEF ReadingSteps
<1>6. has.id \in Nat /\ (Kind(q) = "run" => has.id = None)
  BY <1>1, <1>3 DEF OwnId, None
<1>7. Kind(q) # "run" /\ step \in Numbered => has.id # None
  BY <1>1, <1>3, <1>4 DEF OwnId, Numbered
<1>8. has.id # None => /\ has.id \notin DOMAIN Rows(q)
                       /\ \A p \in Open \ {q} : Kind(p) = Kind(q) => request[p].has.id # has.id
  BY <1>1, <1>3, <1>5 DEF OwnId
<1> HIDE DEF IdInv
<1> QED
  BY <1>2, <1>4, <1>6, <1>7, <1>8, KeepsIds

LEMMA WroteIds == ASSUME IdInv, DigestInv', NEW q \in Requests, Wrote(q) PROVE IdInv'
<1>1. PICK step, has :
         /\ <<request[q].at, step>> \in WritingSteps(q)
         /\ has.id = CASE request[q].at = "insert" -> NewId(q, file_batch)
                      [] request[q].at = "record" -> NewId(q, resolution)
                      [] OTHER                    -> request[q].has.id
         /\ Writing(q, step, has)
  BY DEF Wrote
<1>2. Becomes(q, step, request[q].after, request[q].locks \cup Needs(q), has) /\ tables' = tables
  BY <1>1, WritingBecomes DEF IdInv, DigestInv, IndInv
<1>3. OwnId(q) /\ Fits(q, request[q].at) /\ \A p \in Requests : request[p].has.id \in Nat
  BY DEF IdInv, OwnId, DigestInv, IndInv
<1>4. q \in Open /\ step # "new"
  BY <1>1, OpenSteps, AskedAssumption, <1>3 DEF WritingSteps, AfterStamps, Fits, Kind
<1>5. CASE request[q].at \in {"insert", "record"}
  <2>1. has.id = NewId(q, Rows(q)) /\ Bounded(DOMAIN Rows(q)) /\ Kind(q) # "run"
    BY <1>1, <1>3, <1>5 DEF Fits, Rows, IdInv
  <2>2. /\ has.id \in Nat \ {None} /\ has.id \notin DOMAIN Rows(q)
        /\ \A p \in Open : Kind(p) = Kind(q) => request[p].has.id # has.id
    BY <1>3, <2>1, NewIdIsNew
  <2> QED
    BY <1>2, <1>4, <2>1, <2>2, KeepsIds
<1>6. CASE request[q].at \notin {"insert", "record"}
  <2>1. has.id = request[q].has.id
    BY <1>1, <1>6
  <2>2. Kind(q) # "run" /\ step \in Numbered => request[q].at \in Numbered
    BY <1>1, <1>3, <1>6, AskedAssumption DEF WritingSteps, AfterStamps, Numbered, Fits, Kind
  <2> QED
    BY <1>2, <1>3, <1>4, <2>1, <2>2, KeepsIds DEF OwnId
<1> QED
  BY <1>5, <1>6

\* The other steps that store nothing.
LEMMA OtherIds ==
    ASSUME IdInv, DigestInv', NEW q \in Requests,
           Begin(q) \/ Stops(q) \/ Passes(q) \/ Answer(q)
    PROVE  IdInv'
<1>0. Shaped /\ OwnId(q)
  BY DEF IdInv, DigestInv, IndInv
<1>1. CASE Begin(q)
  <2>1. /\ Becomes(q, FirstStep[Kind(q)], Ended, request[q].locks, request[q].has)
        /\ tables' = tables
    BY <1>0, <1>1, BeginBecomes
  <2>2. FirstStep[Kind(q)] \notin Numbered \cup {"new"}
    BY FirstSteps DEF Numbered
  <2>3. request[q].has.id = None /\ None \in Nat
    BY <1>0, <1>1 DEF OwnId, Begin, At, None
  <2> QED
    BY <2>1, <2>2, <2>3, KeepsIds
<1>2. CASE Stops(q)
  <2>1. PICK answer : Ends(q, answer)
    BY <1>2 DEF Stops
  <2>2. request' = [request EXCEPT ![q] = Finished(q, answer, None)] /\ tables' = tables
    BY <2>1 DEF Ends
  <2>3. PICK has : has.id = None /\ Becomes(q, "ended", request[q].after, {}, has)
    BY <1>0, <2>2, FinishedBecomes
  <2> QED
    BY <2>2, <2>3, KeepsIds DEF Numbered, None
<1>3. CASE Passes(q)
  <2>1. Becomes(q, "previous", request[q].after, request[q].locks, request[q].has)
    BY <1>0, <1>3, PassesBecomes
  <2>2. q \in Open /\ tables' = tables
    BY <1>3, OpenSteps DEF Passes, At
  <2> QED
    BY <1>0, <2>1, <2>2, KeepsIds DEF Numbered, OwnId
<1>4. CASE Answer(q)
  <2>1. Becomes(q, "answered", request[q].after, request[q].locks, request[q].has)
    BY <1>0, <1>4, AnswerBecomes
  <2>2. q \in Open /\ tables' = tables /\ request[q].at = "answer"
    BY <1>4, OpenSteps DEF Answer, At
  <2> QED
    BY <1>0, <2>1, <2>2, KeepsIds DEF Numbered, OwnId
<1> QED
  BY <1>1, <1>2, <1>3, <1>4

\* What the commit of a decision or a run leaves in the table.
LEMMA DecisionsAfterRows ==
    ASSUME \A i \in DOMAIN resolution : IsDecision(resolution[i]), NEW q \in Requests
    PROVE  LET id == request[q].has.id IN
           /\ DOMAIN DecisionsAfter(q) = DOMAIN resolution \cup ({id} \ {None})
           /\ id # None => /\ DecisionsAfter(q)[id] = NewDecision(q)
                           /\ IsDecision(NewDecision(q))
           /\ \A i \in DOMAIN resolution \ {id} :
                 /\ IsDecision(DecisionsAfter(q)[i])
                 /\ i \notin request[q].has.stamped => DecisionsAfter(q)[i] = resolution[i]
                 /\ i \in request[q].has.stamped =>
                       \E mark \in {"withdrawn", "superseded"} :
                          DecisionsAfter(q)[i] = [resolution[i] EXCEPT !.stamp = mark]
<1> DEFINE id   == request[q].has.id
           mark == IF Kind(q) = "run" THEN "withdrawn" ELSE "superseded"
           stamped == request[q].has.stamped
<1>1. IsDecision(NewDecision(q))
  BY DEF NewDecision, Store!Decisions!Row, IsDecision, DecisionFields
<1>2. DecisionsAfter(q) =
         [i \in DOMAIN resolution \cup ({id} \ {None}) |->
             IF i = id THEN NewDecision(q)
             ELSE IF i \in stamped THEN [resolution[i] EXCEPT !.stamp = mark]
             ELSE resolution[i]]
  BY DEF DecisionsAfter
<1>3. mark \in {"withdrawn", "superseded"}
  OBVIOUS
<1>4. \A i \in DOMAIN resolution : IsDecision([resolution[i] EXCEPT !.stamp = mark])
  BY DEF IsDecision
<1> HIDE DEF id, mark, stamped
<1>5. ASSUME NEW i \in DOMAIN resolution \ {id}
      PROVE  /\ i \notin stamped => DecisionsAfter(q)[i] = resolution[i]
             /\ i \in stamped => DecisionsAfter(q)[i] = [resolution[i] EXCEPT !.stamp = mark]
             /\ IsDecision(DecisionsAfter(q)[i])
  <2>1. DecisionsAfter(q)[i] = IF i \in stamped THEN [resolution[i] EXCEPT !.stamp = mark]
                               ELSE resolution[i]
    BY <1>2, <1>5
  <2> QED
    BY <1>4, <1>5, <2>1
<1>6. /\ DOMAIN DecisionsAfter(q) = DOMAIN resolution \cup ({id} \ {None})
      /\ id # None => DecisionsAfter(q)[id] = NewDecision(q)
  BY <1>2
<1> QED
  BY <1>1, <1>3, <1>5, <1>6 DEF id, stamped

\* The id of a row a commit adds is new to the table.
LEMMA CommittedId ==
    ASSUME IdInv, NEW q \in Requests, Commit(q)
    PROVE  /\ q \in Open /\ OwnId(q) /\ request[q].has.id \in Nat
           /\ Kind(q) = "run" => request[q].has.id = None
           /\ Kind(q) # "run" => /\ request[q].has.id # None
                                 /\ request[q].has.id \notin DOMAIN Rows(q)
<1>1. request[q].at = "committing" /\ q \in Open
  BY OpenSteps DEF Commit, At
<1>2. OwnId(q)
  BY DEF IdInv
<1> QED
  BY <1>1, <1>2 DEF OwnId, Numbered

LEMMA CommitIds == ASSUME IdInv, DigestInv', NEW q \in Requests, Commit(q) PROVE IdInv'
<1> DEFINE id == request[q].has.id
<1>1. /\ q \in Open /\ id \in Nat
      /\ Kind(q) = "run" => id = None
      /\ Kind(q) # "run" => id # None /\ id \notin DOMAIN Rows(q)
  BY CommittedId
<1>2. /\ \A p \in Requests : p # q => request'[p] = request[p]
      /\ request'[q].at = "ended" /\ request'[q].has.id = id
  BY CommitBecomes DEF IdInv, DigestInv, IndInv, Becomes
<1>3. /\ \A b \in DOMAIN file_batch : IsBatch(file_batch[b])
      /\ \A i \in DOMAIN resolution : IsDecision(resolution[i])
      /\ Bounded(DOMAIN file_batch) /\ Bounded(DOMAIN resolution)
  BY DEF IdInv, DigestInv
<1>4. /\ DOMAIN file_batch' = DOMAIN file_batch \cup (IF Kind(q) = "upload" THEN {id} ELSE {})
      /\ DOMAIN resolution' = DOMAIN resolution \cup (IF Kind(q) = "decision" THEN {id} ELSE {})
      /\ (\A i \in DOMAIN resolution : IsDecision(resolution[i]))'
  <2>1. CASE Kind(q) = "upload"
    <3>1. file_batch' = FilesAfter(q) /\ resolution' = resolution
      BY <2>1 DEF Commit
    <3> QED
      BY <1>3, <2>1, <3>1, FilesAfterRows
  <2>2. CASE Kind(q) = "decision"
    <3>1. resolution' = DecisionsAfter(q) /\ file_batch' = file_batch
      BY <2>2 DEF Commit
    <3>2. /\ DOMAIN DecisionsAfter(q) = DOMAIN resolution \cup {id}
          /\ IsDecision(DecisionsAfter(q)[id])
          /\ \A i \in DOMAIN resolution \ {id} : IsDecision(DecisionsAfter(q)[i])
      <4>1. id # None
        BY <1>1, <2>2
      <4> QED
        BY <1>3, <4>1, DecisionsAfterRows
    <3>3. \A i \in DOMAIN resolution' : IsDecision(resolution'[i])
      BY <3>1, <3>2
    <3> QED
      BY <2>2, <3>1, <3>2, <3>3
  <2>3. CASE Kind(q) = "run"
    <3>1. resolution' = DecisionsAfter(q) /\ file_batch' = file_batch
      BY <2>3 DEF Commit
    <3>2. DOMAIN DecisionsAfter(q) = DOMAIN resolution
      BY <1>1, <1>3, <2>3, DecisionsAfterRows
    <3>3. ASSUME NEW i \in DOMAIN resolution PROVE IsDecision(DecisionsAfter(q)[i])
      <4>1. i # id
        BY <1>1, <2>3, <3>3 DEF IdInv
      <4> QED
        BY <1>3, <4>1, DecisionsAfterRows
    <3> QED
      BY <2>3, <3>1, <3>2, <3>3
  <2> QED
    BY <2>1, <2>2, <2>3, AskedAssumption DEF Kind
<1>5. Bounded(DOMAIN file_batch)' /\ Bounded(DOMAIN resolution)'
  <2>1. /\ Bounded(DOMAIN file_batch \cup {id}) /\ Bounded(DOMAIN resolution \cup {id})
        /\ Bounded(DOMAIN file_batch \cup {}) /\ Bounded(DOMAIN resolution \cup {})
    BY <1>1, <1>3, BoundedAdd
  <2>2. /\ DOMAIN file_batch' \in {DOMAIN file_batch \cup {id}, DOMAIN file_batch \cup {}}
        /\ DOMAIN resolution' \in {DOMAIN resolution \cup {id}, DOMAIN resolution \cup {}}
    BY <1>4
  <2>3. Bounded(DOMAIN file_batch') /\ Bounded(DOMAIN resolution')
    BY <2>1, <2>2
  <2> QED
    BY <2>3 DEF Bounded
<1>6. ASSUME NEW p \in Requests PROVE OwnId(p)'
  <2>1. CASE p = q
    <3>1. q \notin Open'
      BY <1>2 DEF Open, Ended, At
    <3> QED
      BY <1>1, <1>2, <2>1, <3>1 DEF OwnId, Kind, Numbered
  <2>2. CASE p # q
    <3>1. request'[p] = request[p] /\ OwnId(p)
      BY <1>2, <2>2 DEF IdInv
    <3>2. Open' \subseteq Open /\ \A o \in Open' : request'[o] = request[o]
      BY <1>2 DEF Open, Begun, Ended, At
    <3>3. p \in Open' /\ request[p].has.id # None => request[p].has.id \notin DOMAIN Rows(p)'
      <4>1. SUFFICES ASSUME p \in Open', request[p].has.id # None
                     PROVE  request[p].has.id \notin DOMAIN Rows(p)'
        OBVIOUS
      <4>2. /\ request[p].has.id \notin DOMAIN Rows(p) /\ Kind(p) # "run"
            /\ Kind(p) = Kind(q) => request[p].has.id # id
        BY <1>1, <2>2, <3>1, <3>2, <4>1 DEF OwnId
      <4>3. Kind(p) \in {"upload", "decision"}
        BY <4>2, AskedAssumption DEF Kind
      <4> QED
        BY <1>4, <4>2, <4>3 DEF Rows, Kind
    <3>4. \A o \in Open' \ {p} :
             p \in Open' /\ request[p].has.id # None /\ Kind(o) = Kind(p)
                => request'[o].has.id # request[p].has.id
      BY <3>1, <3>2 DEF OwnId
    <3> QED
      BY <3>1, <3>3, <3>4 DEF OwnId, Kind
  <2> QED
    BY <2>1, <2>2
<1>7. None \notin DOMAIN resolution'
  BY <1>1, <1>4 DEF IdInv
<1> QED
  BY <1>4, <1>5, <1>6, <1>7 DEF IdInv

LEMMA RestartIds == ASSUME IdInv, DigestInv', Restart PROVE IdInv'
<1>1. file_batch' = file_batch /\ resolution' = resolution
  BY DEF Restart, tables
<1>2. ASSUME NEW q \in Requests
      PROVE  OwnId(q)'
  <2>1. request'[q] = AfterRestart(q)
    BY DEF Restart, AfterRestart
  <2>2. AfterRestart(q).at \in {"new", "ended"}
    BY OpenSteps, FinishedRequest DEF AfterRestart
  <2>3. q \notin Open'
    BY <2>1, <2>2 DEF Open, Begun, Ended, At
  <2>4. OwnId(q)
    BY DEF IdInv
  <2>5. AfterRestart(q).has.id = None \/ AfterRestart(q) = request[q]
    BY FinishedRequest DEF AfterRestart
  <2> QED
    BY <2>1, <2>2, <2>3, <2>4, <2>5 DEF OwnId, Kind, Numbered, None
<1> QED
  BY <1>1, <1>2 DEF IdInv

LEMMA InitIds == ASSUME Init PROVE IdInv
<1>1. DigestInv
  BY InitDigest
<1>2. /\ \A i \in DOMAIN Decided : IsDecision(Decided[i])
      /\ Bounded(DOMAIN Loaded) /\ Bounded(DOMAIN Decided) /\ None \notin DOMAIN Decided
  <2>1. /\ \A i \in DOMAIN Decided : Decided[i] \in Store!Decisions!Resolution
        /\ DOMAIN Decided = 1..Len(Decided) /\ Len(Decided) \in Nat
    BY DecidedAssumption
  <2>2. DOMAIN Loaded = 1..Len(Loaded) /\ Len(Loaded) \in Nat
    BY LoadedAssumption
  <2> QED
    BY <2>1, <2>2 DEF IsDecision, DecisionFields, Bounded, None, Store!Decisions!Resolution
<1>3. file_batch = Loaded /\ resolution = Decided /\ \A q \in Requests : request[q] = New
  BY DEF Init
<1>4. \A q \in Requests : OwnId(q)
  <2>1. New.has.id = None /\ New.at = "new" /\ None \in Nat
    BY DEF New, Nothing, None
  <2> QED
    BY <1>3, <2>1 DEF OwnId, Numbered
<1> QED
  BY <1>1, <1>2, <1>3, <1>4 DEF IdInv

LEMMA NextIds == ASSUME IdInv, [Next]_vars PROVE IdInv'
<1>1. DigestInv' /\ Shaped
  BY NextDigest DEF IdInv, DigestInv, IndInv
<1>2. CASE UNCHANGED vars
  <2>1. request' = request /\ file_batch' = file_batch /\ resolution' = resolution
    BY <1>2 DEF vars, tables
  <2> QED
    BY <1>1, <2>1 DEF IdInv, OwnId, Rows, Kind, Open, Begun, Ended, At
<1>3. CASE Restart
  BY <1>1, <1>3, RestartIds
<1>4. ASSUME NEW q \in Requests,
             \/ Begin(q) \/ Reads(q) \/ Wrote(q) \/ Stops(q) \/ Passes(q) \/ Answer(q)
             \/ Commit(q)
      PROVE  IdInv'
  BY <1>1, <1>4, ReadsIds, WroteIds, OtherIds, CommitIds
<1> QED
  BY <1>1, <1>2, <1>3, <1>4, Steps

LEMMA IdInductive == Spec => []IdInv
<1>1. Init => IdInv
  BY InitIds
<1>2. IdInv /\ [Next]_vars => IdInv'
  BY NextIds
<1> QED
  BY <1>1, <1>2, PTL DEF Spec

\* Tables change by a commit only.
LEMMA OnlyCommits ==
    ASSUME Shaped, [Next]_vars, tables' # tables
    PROVE  \E q \in Requests : Commit(q)
<1>1. ~UNCHANGED vars
  BY DEF vars, tables
<1>2. ~Restart
  BY DEF Restart
<1>3. ASSUME NEW q \in Requests,
             Begin(q) \/ Reads(q) \/ Wrote(q) \/ Stops(q) \/ Passes(q) \/ Answer(q)
      PROVE  tables' = tables
  <2>1. CASE Reads(q)
    BY <2>1, GoesOnBecomes DEF Reads
  <2>2. CASE Wrote(q)
    BY <2>2, WritingBecomes DEF Wrote
  <2>3. CASE Stops(q)
    BY <2>3 DEF Stops, Ends
  <2>4. CASE Begin(q) \/ Passes(q) \/ Answer(q)
    BY <2>4 DEF Begin, Passes, Answer
  <2> QED
    BY <1>3, <2>1, <2>2, <2>3, <2>4
<1> QED
  BY <1>1, <1>2, <1>3, Steps

\* Putting one field back undoes its change.
LEMMA PutBack ==
    ASSUME NEW D, NEW r, r = [field \in D |-> r[field]], NEW k \in D, NEW v
    PROVE  /\ [[r EXCEPT ![k] = v] EXCEPT ![k] = r[k]] = r
           /\ [r EXCEPT ![k] = r[k]] = r
           /\ [r EXCEPT ![k] = v][k] = v
<1> DEFINE s == [r EXCEPT ![k] = v]
           t == [s EXCEPT ![k] = r[k]]
           u == [r EXCEPT ![k] = r[k]]
<1>1. s = [field \in D |-> IF field = k THEN v ELSE r[field]]
  OBVIOUS
<1>2. t = [field \in D |-> IF field = k THEN r[k] ELSE s[field]]
  BY <1>1
<1>3. t = [field \in D |-> r[field]]
  BY <1>1, <1>2
<1>4. u = [field \in D |-> r[field]]
  OBVIOUS
<1> QED
  BY <1>1, <1>3, <1>4

\* No commit deletes or rewrites a stored row, makes a superseded delivery
\* current or brings a revoked decision back, whatever it raced with.
THEOREM NothingIsUndone == Spec => NothingUndone
<1> DEFINE Kept ==
        tables' # tables =>
           /\ DOMAIN file_batch \subseteq DOMAIN file_batch'
           /\ DOMAIN resolution \subseteq DOMAIN resolution'
           /\ \A b \in DOMAIN file_batch :
                 /\ [file_batch'[b] EXCEPT !.superseded_by = file_batch[b].superseded_by] = file_batch[b]
                 /\ file_batch'[b].superseded_by = None => file_batch[b].superseded_by = None
           /\ \A i \in DOMAIN resolution :
                 /\ [resolution'[i] EXCEPT !.stamp = resolution[i].stamp] = resolution[i]
                 /\ Store!Live(resolution'[i]) => Store!Live(resolution[i])
<1>1. ASSUME IdInv, [Next]_vars PROVE [Kept]_vars
  <2>1. SUFFICES ASSUME tables' # tables PROVE Kept
    OBVIOUS
  <2>2. PICK q \in Requests : Commit(q)
    BY <1>1, <2>1, OnlyCommits DEF IdInv, DigestInv, IndInv
  <2> DEFINE id == request[q].has.id
  <2>3. /\ id \in Nat /\ (Kind(q) = "run" => id = None)
        /\ Kind(q) # "run" => id # None /\ id \notin DOMAIN Rows(q)
    BY <1>1, <2>2, CommittedId
  <2>4. /\ \A b \in DOMAIN file_batch : IsBatch(file_batch[b])
        /\ \A i \in DOMAIN resolution : IsDecision(resolution[i])
    BY <1>1 DEF IdInv, DigestInv
  <2>5. ASSUME NEW b \in DOMAIN file_batch
        PROVE  /\ [[file_batch[b] EXCEPT !.superseded_by = id]
                       EXCEPT !.superseded_by = file_batch[b].superseded_by] = file_batch[b]
               /\ [file_batch[b] EXCEPT !.superseded_by = file_batch[b].superseded_by] = file_batch[b]
               /\ [file_batch[b] EXCEPT !.superseded_by = id].superseded_by = id
    BY <2>4, PutBack DEF IsBatch, BatchFields
  <2>6. ASSUME NEW i \in DOMAIN resolution, NEW mark
        PROVE  /\ [[resolution[i] EXCEPT !.stamp = mark] EXCEPT !.stamp = resolution[i].stamp]
                     = resolution[i]
               /\ [resolution[i] EXCEPT !.stamp = resolution[i].stamp] = resolution[i]
               /\ [resolution[i] EXCEPT !.stamp = mark].stamp = mark
    BY <2>4, PutBack DEF IsDecision, DecisionFields
  <2>7. CASE Kind(q) = "upload"
    <3>1. /\ file_batch' = FilesAfter(q) /\ resolution' = resolution
          /\ id # None /\ id \notin DOMAIN file_batch
      BY <2>2, <2>3, <2>7 DEF Commit, Rows
    <3>2. /\ DOMAIN file_batch' = DOMAIN file_batch \cup {id}
          /\ \A b \in DOMAIN file_batch :
                \/ file_batch'[b] = file_batch[b]
                \/ file_batch'[b] = [file_batch[b] EXCEPT !.superseded_by = id]
      BY <2>4, <3>1, FilesAfterRows
    <3> HIDE DEF id
    <3>3. ASSUME NEW b \in DOMAIN file_batch
          PROVE  /\ [file_batch'[b] EXCEPT !.superseded_by = file_batch[b].superseded_by] = file_batch[b]
                 /\ file_batch'[b].superseded_by = None => file_batch[b].superseded_by = None
      BY <2>5, <3>1, <3>2
    <3> QED
      BY <2>6, <3>1, <3>2, <3>3
  <2>8. CASE Kind(q) # "upload"
    <3>1. /\ resolution' = DecisionsAfter(q) /\ file_batch' = file_batch
          /\ id \notin DOMAIN resolution
      BY <1>1, <2>2, <2>3, <2>8 DEF Commit, Rows, IdInv
    <3>2. /\ DOMAIN resolution \subseteq DOMAIN resolution'
          /\ \A i \in DOMAIN resolution :
                \/ resolution'[i] = resolution[i]
                \/ \E mark \in {"withdrawn", "superseded"} :
                      resolution'[i] = [resolution[i] EXCEPT !.stamp = mark]
      BY <2>4, <3>1, DecisionsAfterRows
    <3>3. ASSUME NEW i \in DOMAIN resolution
          PROVE  /\ [resolution'[i] EXCEPT !.stamp = resolution[i].stamp] = resolution[i]
                 /\ Store!Live(resolution'[i]) => Store!Live(resolution[i])
      <4>1. CASE resolution'[i] = resolution[i]
        BY <2>6, <4>1
      <4>2. ASSUME NEW mark \in {"withdrawn", "superseded"},
                   resolution'[i] = [resolution[i] EXCEPT !.stamp = mark]
            PROVE  /\ [resolution'[i] EXCEPT !.stamp = resolution[i].stamp] = resolution[i]
                   /\ ~Store!Live(resolution'[i])
        <5> DEFINE marked == [resolution[i] EXCEPT !.stamp = mark]
        <5>0. IsDecision(resolution[i])
          BY <2>4
        <5>1. marked.stamp = mark /\ [marked EXCEPT !.stamp = resolution[i].stamp] = resolution[i]
          BY <5>0, PutBack DEF IsDecision, DecisionFields
        <5> HIDE DEF marked
        <5>2. ~Store!Live(resolution'[i])
          BY <4>2, <5>1 DEF Store!Live, marked
        <5> QED
          BY <4>2, <5>1, <5>2 DEF marked
      <4> QED
        BY <3>2, <3>3, <4>1, <4>2
    <3> QED
      BY <2>5, <3>1, <3>2, <3>3
  <2> QED
    BY <2>7, <2>8
<1>2. NothingUndone <=> [][Kept]_vars
  BY DEF NothingUndone
<1> QED
  BY <1>1, <1>2, IdInductive, PTL DEF Spec

----------------------------------------------------------------------------
(* Decisions that contradict each other.                                   *)

Contradicts(d, e) == Store!Decisions!Contradicts(d, e)

LEMMA ContradictsSymmetric ==
    ASSUME NEW d, NEW e, Contradicts(d, e)
    PROVE  Contradicts(e, d)
<1> DEFINE named(r) == Store!Decisions!IdentitiesOf(r)
<1>1. CASE "reject_suggestion" \in {d.kind, e.kind}
  BY <1>1 DEF Contradicts, Store!Decisions!Contradicts
<1>2. CASE "reject_suggestion" \notin {d.kind, e.kind}
  <2>1. named(d) \cap named(e) # {}
    BY <1>2 DEF Contradicts, Store!Decisions!Contradicts
  <2>2. named(e) \cap named(d) # {}
    BY <2>1
  <2>3. "reject_suggestion" \notin {e.kind, d.kind}
    BY <1>2
  <2> QED
    BY <2>2, <2>3 DEF Contradicts, Store!Decisions!Contradicts
<1> QED
  BY <1>1, <1>2

\* A decision has looked for what it contradicts.
Deciding == {"stamp", "record", "answer", "answered", "committing"}

\* A request, in hand and begun as given, knows or has missed: a stored
\* decision it contradicts is one to stamp, one stamped, or was committed
\* by a request that was not over when it began.
KnowsOrMissed(q, after, has) ==
    \A i \in DOMAIN resolution :
        Store!Live(resolution[i]) /\ Contradicts(resolution[i], NewDecision(q)) =>
            \/ i \in has.stamp \cup has.stamped
            \/ \E p \in Ended : Kind(p) = "decision" /\ request[p].has.id = i /\ p \notin after

Retires(q, step, after, has) ==
    Kind(q) = "decision" /\ step \in Deciding =>
        /\ step # "stamp" => has.stamp = {}
        /\ KnowsOrMissed(q, after, has)

RaceInv ==
    /\ IdInv
    /\ \A q \in Requests :
          /\ request[q].after \subseteq Ended
          /\ Retires(q, request[q].at, request[q].after, request[q].has)
    /\ ContradictionNeedsARace

\* Requests that are over stay so.
LEMMA EndedStay ==
    ASSUME NEW q \in Requests, q \notin Ended, \A p \in Requests : p # q => request'[p] = request[p]
    PROVE  Ended \subseteq Ended' /\ \A p \in Ended : request'[p] = request[p] /\ p # q
  BY DEF Ended, At

\* Races that are over stay so.
LEMMA RacesStay ==
    ASSUME Ended \subseteq Ended', \A p \in Ended : request'[p] = request[p],
           resolution' = resolution, ContradictionNeedsARace
    PROVE  ContradictionNeedsARace'
<1>1. \A p, q \in Ended : Overlap(p, q) => Overlap(p, q)'
  BY DEF Overlap, Begun, Ended, At
<1>2. \A p \in Ended : p \in Ended' /\ request'[p].has.id = request[p].has.id /\ (Kind(p)' = Kind(p))
  BY DEF Kind
<1>3. ASSUME NEW i \in DOMAIN resolution, NEW j \in DOMAIN resolution,
             i # j, Store!Live(resolution[i]), Store!Live(resolution[j]),
             Store!Decisions!Contradicts(resolution[i], resolution[j])
      PROVE  \E p, q \in Ended' :
                /\ Kind(p)' = "decision" /\ Kind(q)' = "decision"
                /\ request'[p].has.id = i /\ request'[q].has.id = j /\ Overlap(p, q)'
  <2>1. PICK p \in Ended, q \in Ended :
           /\ Kind(p) = "decision" /\ Kind(q) = "decision"
           /\ request[p].has.id = i /\ request[q].has.id = j /\ Overlap(p, q)
    BY <1>3 DEF ContradictionNeedsARace
  <2> QED
    BY <1>1, <1>2, <2>1
<1> QED
  BY <1>3 DEF ContradictionNeedsARace, Store!Live, Store!Decisions!Contradicts,
               Store!Decisions!IdentitiesOf

LEMMA KeepsRaces ==
    ASSUME RaceInv, IdInv', tables' = tables, NEW q \in Requests, q \notin Ended,
           NEW step, NEW after, NEW locks, NEW has, Becomes(q, step, after, locks, has),
           after \subseteq Ended, Retires(q, step, after, has)
    PROVE  RaceInv'
<1>1. resolution' = resolution /\ \A p \in Requests : p # q => request'[p] = request[p]
  BY DEF Becomes, tables
<1>2. Ended \subseteq Ended' /\ \A p \in Ended : request'[p] = request[p] /\ p # q
  BY <1>1, EndedStay
<1>3. ContradictionNeedsARace'
  BY <1>1, <1>2, RacesStay DEF RaceInv
<1>4. ASSUME NEW p \in Requests, NEW a, NEW h, NEW s, Retires(p, s, a, h)
      PROVE  Retires(p, s, a, h)'
  BY <1>1, <1>2, <1>4 DEF Retires, KnowsOrMissed, NewDecision, Kind, Contradicts, Store!Live,
       Store!Decisions!Contradicts, Store!Decisions!IdentitiesOf, Store!Decisions!Row
<1>5. ASSUME NEW p \in Requests
      PROVE  /\ request'[p].after \subseteq Ended'
             /\ Retires(p, request[p].at, request[p].after, request[p].has)'
  <2>1. PICK at, since, hand :
           /\ at = request'[p].at /\ since = request'[p].after /\ hand = request'[p].has
           /\ since \subseteq Ended /\ Retires(p, at, since, hand)
    <3>1. CASE p = q
      BY <3>1 DEF Becomes
    <3>2. CASE p # q
      BY <1>1, <3>2 DEF RaceInv
    <3> QED
      BY <3>1, <3>2
  <2>2. Retires(p, at, since, hand)'
    BY <1>4, <2>1
  <2>3. Retires(p, request[p].at, request[p].after, request[p].has)'
    BY <2>1, <2>2 DEF Retires, KnowsOrMissed
  <2> QED
    BY <1>2, <2>1, <2>3
<1> QED
  BY <1>3, <1>5 DEF RaceInv

LEMMA ReadsRaces == ASSUME RaceInv, IdInv', NEW q \in Requests, Reads(q) PROVE RaceInv'
<1>1. PICK step, has :
         /\ <<request[q].at, step>> \in ReadingSteps
         /\ request[q].at = "answered" => has = request[q].has
         /\ request[q].at = "collisions" =>
               has.stamp = Colliding(q) /\ (step = "record" => Colliding(q) = {})
         /\ GoesOn(q, step, has)
  BY DEF Reads
<1>2. Becomes(q, step, request[q].after, request[q].locks, has) /\ tables' = tables
  BY <1>1, GoesOnBecomes DEF RaceInv, IdInv, DigestInv, IndInv
<1>3. q \notin Ended /\ request[q].after \subseteq Ended
  BY <1>1 DEF ReadingSteps, Ended, At, RaceInv
<1>4. Retires(q, step, request[q].after, has)
  <2>1. SUFFICES ASSUME Kind(q) = "decision", step \in Deciding
                 PROVE  /\ step # "stamp" => has.stamp = {}
                        /\ KnowsOrMissed(q, request[q].after, has)
    BY DEF Retires
  <2>2. Fits(q, request[q].at) /\ Retires(q, request[q].at, request[q].after, request[q].has)
    BY DEF RaceInv, IdInv, DigestInv, IndInv
  <2>3. request[q].at \in {"collisions", "answered"}
    BY <1>1, <2>1, <2>2 DEF ReadingSteps, Deciding, Fits
  <2>4. CASE request[q].at = "collisions"
    <3>1. step \in {"record", "stamp"}
      BY <1>1, <2>4 DEF ReadingSteps
    <3>2. has.stamp = Colliding(q) /\ (step # "stamp" => has.stamp = {})
      BY <1>1, <2>4, <3>1
    <3>3. KnowsOrMissed(q, request[q].after, has)
      BY <3>2 DEF KnowsOrMissed, Colliding, Contradicts
    <3> QED
      BY <3>2, <3>3
  <2>5. CASE request[q].at = "answered"
    BY <1>1, <2>1, <2>2, <2>5 DEF Retires, Deciding
  <2> QED
    BY <2>3, <2>4, <2>5
<1> QED
  BY <1>2, <1>3, <1>4, KeepsRaces

LEMMA WroteRaces == ASSUME RaceInv, IdInv', NEW q \in Requests, Wrote(q) PROVE RaceInv'
<1>1. PICK step, has :
         /\ <<request[q].at, step>> \in WritingSteps(q)
         /\ request[q].has.stamp \cup request[q].has.stamped \subseteq has.stamp \cup has.stamped
         /\ request[q].at = "stamp" => (step # "stamp" => has.stamp = {})
         /\ request[q].at = "record" => has.stamp = request[q].has.stamp
         /\ Writing(q, step, has)
  BY DEF Wrote
<1>2. Becomes(q, step, request[q].after, request[q].locks \cup Needs(q), has) /\ tables' = tables
  BY <1>1, WritingBecomes DEF RaceInv, IdInv, DigestInv, IndInv
<1>3. q \notin Ended /\ request[q].after \subseteq Ended
  BY <1>1 DEF WritingSteps, Ended, At, RaceInv
<1>4. Retires(q, step, request[q].after, has)
  <2>1. SUFFICES ASSUME Kind(q) = "decision", step \in Deciding
                 PROVE  /\ step # "stamp" => has.stamp = {}
                        /\ KnowsOrMissed(q, request[q].after, has)
    BY DEF Retires
  <2>2. Fits(q, request[q].at) /\ Retires(q, request[q].at, request[q].after, request[q].has)
    BY DEF RaceInv, IdInv, DigestInv, IndInv
  <2>3. request[q].at \in {"stamp", "record"}
    BY <1>1, <2>1, <2>2 DEF WritingSteps, Fits
  <2>4. /\ request[q].at # "stamp" => request[q].has.stamp = {}
        /\ KnowsOrMissed(q, request[q].after, request[q].has)
    BY <2>1, <2>2, <2>3 DEF Retires, Deciding
  <2>5. KnowsOrMissed(q, request[q].after, has)
    BY <1>1, <2>4 DEF KnowsOrMissed
  <2>6. step # "stamp" => has.stamp = {}
    BY <1>1, <2>3, <2>4
  <2> QED
    BY <2>5, <2>6
<1> QED
  BY <1>2, <1>3, <1>4, KeepsRaces

LEMMA OtherRaces ==
    ASSUME RaceInv, IdInv', NEW q \in Requests,
           Begin(q) \/ Stops(q) \/ Passes(q) \/ Answer(q)
    PROVE  RaceInv'
<1>0. /\ Shaped /\ request[q].after \subseteq Ended
      /\ Retires(q, request[q].at, request[q].after, request[q].has)
  BY DEF RaceInv, IdInv, DigestInv, IndInv
<1>1. CASE Begin(q)
  <2>1. /\ Becomes(q, FirstStep[Kind(q)], Ended, request[q].locks, request[q].has)
        /\ tables' = tables
    BY <1>0, <1>1, BeginBecomes
  <2>2. FirstStep[Kind(q)] \notin Deciding
    BY FirstSteps DEF Deciding
  <2>3. q \notin Ended
    BY <1>1 DEF Begin, Ended, At
  <2> QED
    BY <2>1, <2>2, <2>3, KeepsRaces DEF Retires
<1>2. CASE Stops(q)
  <2>1. PICK answer : Ends(q, answer)
    BY <1>2 DEF Stops
  <2>2. request' = [request EXCEPT ![q] = Finished(q, answer, None)] /\ tables' = tables
    BY <2>1 DEF Ends
  <2>3. PICK has : Becomes(q, "ended", request[q].after, {}, has)
    BY <1>0, <2>2, FinishedBecomes
  <2>4. q \notin Ended
    BY <1>2 DEF Stops, Open
  <2> QED
    BY <1>0, <2>2, <2>3, <2>4, KeepsRaces DEF Retires, Deciding
<1>3. CASE Passes(q)
  <2>1. Becomes(q, "previous", request[q].after, request[q].locks, request[q].has)
    BY <1>0, <1>3, PassesBecomes
  <2>2. q \notin Ended /\ tables' = tables
    BY <1>3 DEF Passes, Ended, At
  <2> QED
    BY <1>0, <2>1, <2>2, KeepsRaces DEF Retires, Deciding
<1>4. CASE Answer(q)
  <2>1. Becomes(q, "answered", request[q].after, request[q].locks, request[q].has)
    BY <1>0, <1>4, AnswerBecomes
  <2>2. q \notin Ended /\ tables' = tables /\ request[q].at = "answer"
    BY <1>4 DEF Answer, Ended, At
  <2>3. Retires(q, "answered", request[q].after, request[q].has)
    BY <1>0, <2>2 DEF Retires, Deciding
  <2> QED
    BY <1>0, <2>1, <2>2, <2>3, KeepsRaces
<1> QED
  BY <1>1, <1>2, <1>3, <1>4

\* A live decision after a commit is the new one or was live, not stamped.
LEMMA LiveAfterCommit ==
    ASSUME IdInv, NEW q \in Requests, Commit(q),
           NEW i \in DOMAIN resolution', Store!Live(resolution'[i])
    PROVE  \/ /\ i \in DOMAIN resolution /\ resolution'[i] = resolution[i]
              /\ Kind(q) = "decision" => i # request[q].has.id /\ i \notin request[q].has.stamped
           \/ /\ Kind(q) = "decision" /\ i = request[q].has.id
              /\ resolution'[i] = NewDecision(q)
<1> DEFINE id == request[q].has.id
           stamped == request[q].has.stamped
<1>1. CASE Kind(q) = "upload"
  BY <1>1 DEF Commit
<1>2. CASE Kind(q) # "upload"
  <2>1. resolution' = DecisionsAfter(q) /\ id \notin DOMAIN resolution
    BY <1>2, CommittedId DEF Commit, Rows, IdInv
  <2>2. \A j \in DOMAIN resolution : IsDecision(resolution[j])
    BY DEF IdInv
  <2>3. CASE i = id
    <3>1. id # None /\ resolution'[i] = NewDecision(q)
      BY <2>1, <2>2, <2>3, DecisionsAfterRows
    <3>2. Kind(q) = "decision"
      BY <1>2, <3>1, CommittedId, AskedAssumption DEF Kind
    <3> QED
      BY <2>3, <3>1, <3>2
  <2>4. CASE i # id
    <3>1. i \in DOMAIN resolution
      BY <2>1, <2>2, <2>4, DecisionsAfterRows
    <3>2. i \notin stamped
      <4>1. SUFFICES ASSUME i \in stamped PROVE FALSE
        OBVIOUS
      <4>2. PICK mark \in {"withdrawn", "superseded"} :
               DecisionsAfter(q)[i] = [resolution[i] EXCEPT !.stamp = mark]
        BY <2>2, <2>4, <3>1, <4>1, DecisionsAfterRows
      <4>3. [resolution[i] EXCEPT !.stamp = mark].stamp = mark
        <5>1. IsDecision(resolution[i])
          BY <2>2, <3>1
        <5> QED
          BY <5>1, PutBack DEF IsDecision, DecisionFields
      <4> QED
        BY <2>1, <4>2, <4>3 DEF Store!Live
    <3>3. resolution'[i] = resolution[i]
      BY <2>1, <2>2, <2>4, <3>1, <3>2, DecisionsAfterRows
    <3> QED
      BY <2>4, <3>1, <3>2, <3>3
  <2> QED
    BY <2>3, <2>4
<1> QED
  BY <1>1, <1>2

LEMMA CommitRaces == ASSUME RaceInv, IdInv', NEW q \in Requests, Commit(q) PROVE RaceInv'
<1> DEFINE id == request[q].has.id
<1>1. PICK has : Becomes(q, "ended", request[q].after, {}, has) /\ has.id = id
  BY CommitBecomes DEF RaceInv, IdInv, DigestInv, IndInv
<1>2. \A p \in Requests : p # q => request'[p] = request[p]
  BY <1>1 DEF Becomes
<1>3. q \notin Ended /\ request[q].at = "committing"
  BY DEF Commit, Ended, At
<1>4. Ended \subseteq Ended' /\ \A p \in Ended : request'[p] = request[p] /\ p # q
  BY <1>2, <1>3, EndedStay
<1>5. q \in Ended' /\ request'[q].has.id = id /\ request'[q].after = request[q].after
  BY <1>1 DEF Becomes, Ended, At
<1>6. IdInv /\ \A p \in Requests : request[p].after \subseteq Ended
  BY DEF RaceInv
<1>7. ASSUME NEW p \in Requests PROVE request'[p].after \subseteq Ended'
  BY <1>2, <1>4, <1>5, <1>6
<1>8. ASSUME NEW p \in Requests
      PROVE  Retires(p, request[p].at, request[p].after, request[p].has)'
  <2>1. CASE p = q
    BY <1>1, <2>1 DEF Becomes, Retires, Deciding
  <2>2. CASE p # q
    <3>1. request'[p] = request[p] /\ Retires(p, request[p].at, request[p].after, request[p].has)
      BY <1>2, <2>2 DEF RaceInv
    <3>2. SUFFICES ASSUME Kind(p) = "decision", request[p].at \in Deciding
                   PROVE  /\ request[p].at # "stamp" => request[p].has.stamp = {}
                          /\ KnowsOrMissed(p, request[p].after, request[p].has)'
      BY <3>1 DEF Retires, Kind
    <3>3. ASSUME NEW i \in DOMAIN resolution', Store!Live(resolution'[i]),
                 Contradicts(resolution'[i], NewDecision(p))
          PROVE  \/ i \in request[p].has.stamp \cup request[p].has.stamped
                 \/ \E o \in Ended' : /\ Kind(o) = "decision" /\ request'[o].has.id = i
                                      /\ o \notin request[p].after
      <4>1. CASE i \in DOMAIN resolution /\ resolution'[i] = resolution[i]
        <5>1. \/ i \in request[p].has.stamp \cup request[p].has.stamped
              \/ \E o \in Ended : /\ Kind(o) = "decision" /\ request[o].has.id = i
                                  /\ o \notin request[p].after
          BY <3>1, <3>2, <3>3, <4>1 DEF Retires, KnowsOrMissed
        <5> QED
          BY <1>4, <5>1
      <4>2. CASE Kind(q) = "decision" /\ i = id
        BY <1>3, <1>5, <1>6, <4>2
      <4> QED
        BY <1>6, <3>3, <4>1, <4>2, LiveAfterCommit
    <3>4. KnowsOrMissed(p, request[p].after, request[p].has)'
      BY <3>1, <3>3 DEF KnowsOrMissed, NewDecision, Kind, Contradicts, Store!Live,
           Store!Decisions!Contradicts, Store!Decisions!IdentitiesOf, Store!Decisions!Row
    <3> QED
      BY <3>1, <3>2, <3>4 DEF Retires
  <2> QED
    BY <2>1, <2>2
<1>9. ASSUME NEW i \in DOMAIN resolution', NEW j \in DOMAIN resolution', i # j,
             Store!Live(resolution'[i]), Store!Live(resolution'[j]),
             Contradicts(resolution'[i], resolution'[j])
      PROVE  \E p, o \in Ended' :
                /\ Kind(p) = "decision" /\ Kind(o) = "decision"
                /\ request'[p].has.id = i /\ request'[o].has.id = j /\ Overlap(p, o)'
  <2> DEFINE Old(k) == /\ k \in DOMAIN resolution /\ resolution'[k] = resolution[k]
                       /\ Kind(q) = "decision" => k # id /\ k \notin request[q].has.stamped
             New1(k) == Kind(q) = "decision" /\ k = id /\ resolution'[k] = NewDecision(q)
  <2>1. (Old(i) \/ New1(i)) /\ (Old(j) \/ New1(j))
    BY <1>6, <1>9, LiveAfterCommit
  <2>2. ASSUME NEW k, Old(k), Kind(q) = "decision", Store!Live(resolution'[k]),
               Contradicts(resolution'[k], NewDecision(q))
        PROVE  \E p \in Ended : /\ Kind(p) = "decision" /\ request[p].has.id = k
                                /\ Overlap(p, q)' /\ Overlap(q, p)'
    <3>1. request[q].has.stamp = {} /\ KnowsOrMissed(q, request[q].after, request[q].has)
      BY <1>3, <2>2 DEF RaceInv, Retires, Deciding
    <3>2. PICK p \in Ended : /\ Kind(p) = "decision" /\ request[p].has.id = k
                             /\ p \notin request[q].after
      BY <2>2, <3>1 DEF KnowsOrMissed
    <3>3. p \in Requests /\ q \notin request[p].after
      BY <1>3, <1>6 DEF Ended
    <3>4. {p, q} \subseteq Begun'
      BY <1>4, <1>5, <3>2 DEF Begun, Ended, At
    <3>5. request'[p].after = request[p].after
      BY <1>4
    <3> QED
      BY <1>5, <3>2, <3>3, <3>4, <3>5 DEF Overlap
  <2>3. CASE Old(i) /\ Old(j)
    <3>1. PICK p \in Ended, o \in Ended :
             /\ Kind(p) = "decision" /\ Kind(o) = "decision"
             /\ request[p].has.id = i /\ request[o].has.id = j /\ Overlap(p, o)
      BY <1>9, <2>3 DEF RaceInv, ContradictionNeedsARace, Contradicts
    <3>2. Overlap(p, o)'
      BY <1>4, <3>1 DEF Overlap, Begun, Ended, At
    <3> QED
      BY <1>4, <3>1, <3>2
  <2>4. CASE Old(i) /\ New1(j)
    <3>1. PICK p \in Ended : /\ Kind(p) = "decision" /\ request[p].has.id = i /\ Overlap(p, q)'
      BY <1>9, <2>2, <2>4
    <3> QED
      BY <1>4, <1>5, <2>4, <3>1
  <2>5. CASE New1(i) /\ Old(j)
    <3>1. Contradicts(resolution'[j], NewDecision(q))
      BY <1>9, <2>5, ContradictsSymmetric
    <3>2. PICK p \in Ended : /\ Kind(p) = "decision" /\ request[p].has.id = j /\ Overlap(q, p)'
      BY <1>9, <2>2, <2>5, <3>1
    <3> QED
      BY <1>4, <1>5, <2>5, <3>2
  <2> QED
    BY <1>9, <2>1, <2>3, <2>4, <2>5
<1>10. ContradictionNeedsARace'
  <2>1. SUFFICES ASSUME NEW i \in DOMAIN resolution', NEW j \in DOMAIN resolution', i # j,
                        Store!Live(resolution'[i]), Store!Live(resolution'[j]),
                        Store!Decisions!Contradicts(resolution'[i], resolution'[j])
                 PROVE  \E p, o \in Ended' :
                           /\ Kind(p)' = "decision" /\ Kind(o)' = "decision"
                           /\ request'[p].has.id = i /\ request'[o].has.id = j /\ Overlap(p, o)'
    BY DEF ContradictionNeedsARace, Store!Live, Store!Decisions!Contradicts,
           Store!Decisions!IdentitiesOf
  <2>2. PICK p \in Ended', o \in Ended' :
           /\ Kind(p) = "decision" /\ Kind(o) = "decision"
           /\ request'[p].has.id = i /\ request'[o].has.id = j /\ Overlap(p, o)'
    BY <1>9, <2>1 DEF Contradicts
  <2> QED
    BY <2>2 DEF Kind
<1> QED
  BY <1>7, <1>8, <1>10 DEF RaceInv

LEMMA RestartRaces == ASSUME RaceInv, IdInv', Restart PROVE RaceInv'
<1>1. resolution' = resolution /\ request' = [p \in Requests |-> AfterRestart(p)]
  BY DEF Restart, tables, AfterRestart
<1>2. ASSUME NEW p \in Ended PROVE request'[p] = request[p] /\ p \in Ended'
  BY <1>1 DEF AfterRestart, Open, Ended, At
<1>3. ContradictionNeedsARace'
  BY <1>1, <1>2, RacesStay DEF RaceInv
<1>4. ASSUME NEW p \in Requests
      PROVE  /\ request'[p].after \subseteq Ended'
             /\ Retires(p, request[p].at, request[p].after, request[p].has)'
  <2>1. request'[p].after = request[p].after /\ request[p].after \subseteq Ended
    BY <1>1, FinishedRequest DEF AfterRestart, RaceInv
  <2>2. request'[p].at \in {"new", "ended"}
    BY <1>1, OpenSteps, FinishedRequest DEF AfterRestart
  <2> QED
    BY <1>2, <2>1, <2>2 DEF Retires, Deciding
<1> QED
  BY <1>3, <1>4 DEF RaceInv

LEMMA InitRaces == ASSUME Init PROVE RaceInv
<1>1. resolution = Decided /\ \A q \in Requests : request[q] = New
  BY DEF Init
<1>2. ContradictionNeedsARace
  BY <1>1, DecidedAssumption DEF ContradictionNeedsARace
<1>3. New.after = {} /\ New.at \notin Deciding
  BY DEF New, Deciding
<1> QED
  BY <1>1, <1>2, <1>3, InitIds DEF RaceInv, Retires

LEMMA NextRaces == ASSUME RaceInv, [Next]_vars PROVE RaceInv'
<1>1. IdInv' /\ Shaped
  BY NextIds DEF RaceInv, IdInv, DigestInv, IndInv
<1>2. CASE UNCHANGED vars
  <2>1. request' = request /\ resolution' = resolution
    BY <1>2 DEF vars, tables
  <2>2. Ended' = Ended
    BY <2>1 DEF Ended, At
  <2>3. ContradictionNeedsARace'
    BY <2>1, <2>2, RacesStay DEF RaceInv
  <2>4. ASSUME NEW q \in Requests
        PROVE  Retires(q, request[q].at, request[q].after, request[q].has)'
    <3>1. Retires(q, request[q].at, request[q].after, request[q].has)
      BY DEF RaceInv
    <3> QED
      BY <2>1, <2>2, <3>1 DEF Retires, KnowsOrMissed, NewDecision, Kind, Contradicts, Store!Live,
           Store!Decisions!Contradicts, Store!Decisions!IdentitiesOf, Store!Decisions!Row
  <2> QED
    BY <1>1, <2>1, <2>2, <2>3, <2>4 DEF RaceInv
<1>3. CASE Restart
  BY <1>1, <1>3, RestartRaces
<1>4. ASSUME NEW q \in Requests,
             \/ Begin(q) \/ Reads(q) \/ Wrote(q) \/ Stops(q) \/ Passes(q) \/ Answer(q)
             \/ Commit(q)
      PROVE  RaceInv'
  BY <1>1, <1>4, ReadsRaces, WroteRaces, OtherRaces, CommitRaces
<1> QED
  BY <1>1, <1>2, <1>3, <1>4, Steps

\* Two live decisions that contradict each other were recorded by requests
\* that overlapped: whoever began after the other had committed retired it,
\* on either database and whatever failed or restarted in between.
THEOREM ContradictionsNeedRaces == Spec => []ContradictionNeedsARace
<1>1. Init => RaceInv
  BY InitRaces
<1>2. RaceInv /\ [Next]_vars => RaceInv'
  BY NextRaces
<1>3. RaceInv => ContradictionNeedsARace
  BY DEF RaceInv
<1> QED
  BY <1>1, <1>2, <1>3, PTL DEF Spec

----------------------------------------------------------------------------
(* Uploads of one source that take turns keep its versions a chain and its *)
(* periods apart, whatever else is under way, fails or is cut off.         *)


\* An upload whose file has passed the checks.
Passed == {"previous", "insert"} \cup Numbered

\* The delivery an upload replaces is the current one, if there is one.
Replaces(q, previous) ==
    LET current == Store!Files!CurrentBatch(Asked[q].source, Asked[q].period) IN
    IF previous = None THEN current = {} ELSE previous \in current

\* What an upload has seen is still so when it commits.
InPlace(q, step, has) ==
    (Kind(q) = "upload" /\ step \in Passed) =>
        /\ ~Store!Files!PartlyOverlaps(Asked[q].source, Asked[q].period)
        /\ step # "previous" => Replaces(q, has.previous)
        /\ step \in Numbered =>
              \A b \in DOMAIN file_batch : file_batch[b].source = Asked[q].source => b < has.id

Versioned ==
    \A b \in DOMAIN file_batch :
        /\ b \in Nat \ {None}
        /\ file_batch[b].period \in Nat \X Nat
        /\ file_batch[b].version \in Nat \ {0}

InOrderNow ==
    /\ Versioned
    /\ Store!Files!VersionChain
    /\ Store!Files!PeriodsNeverClash
    /\ \A q \in Requests : InPlace(q, request[q].at, request[q].has)

SerialInv == RaceInv /\ (UploadsSerial => InOrderNow)

\* Requests that overlapped go on to have overlapped.
LEMMA SerialBefore ==
    ASSUME Begun \subseteq Begun', \A p \in Begun : request'[p].after = request[p].after,
           UploadsSerial'
    PROVE  UploadsSerial
<1>1. ASSUME NEW p \in Requests, NEW q \in Requests, Overlap(p, q) PROVE Overlap(p, q)'
  BY <1>1 DEF Overlap
<1> QED
  BY <1>1 DEF UploadsSerial, Kind

\* A step that stores no file keeps all this, if its request stays in place.
LEMMA KeepsSerial ==
    ASSUME SerialInv, RaceInv', file_batch' = file_batch, NEW q \in Requests,
           NEW step, NEW after, NEW locks, NEW has, Becomes(q, step, after, locks, has),
           step # "new", q \in Begun => after = request[q].after,
           InOrderNow => InPlace(q, step, has)
    PROVE  SerialInv'
<1>1. /\ \A p \in Requests : p # q => request'[p] = request[p]
      /\ request'[q].at = step /\ request'[q].after = after /\ request'[q].has = has
  BY DEF Becomes
<1>2. Begun \subseteq Begun' /\ \A p \in Begun : request'[p].after = request[p].after
  BY <1>1 DEF Begun, At
<1>3. SUFFICES ASSUME UploadsSerial' PROVE InOrderNow'
  BY DEF SerialInv
<1>4. InOrderNow
  BY <1>2, <1>3, SerialBefore DEF SerialInv
<1>5. Versioned' /\ Store!Files!VersionChain' /\ Store!Files!PeriodsNeverClash'
  BY <1>4 DEF InOrderNow, Versioned, Store!Files!VersionChain, Store!Files!Chained, Store!Files!PeriodsNeverClash, Store!Files!Apart,
       Store!Files!SamePeriod
<1>6. ASSUME NEW p \in Requests, NEW s, NEW h, InPlace(p, s, h)
      PROVE  InPlace(p, s, h)'
  BY <1>6 DEF InPlace, Replaces, Kind, Store!Files!PartlyOverlaps, Store!Files!CurrentBatch,
       Store!Files!SamePeriod
<1>7. ASSUME NEW p \in Requests
      PROVE  InPlace(p, request[p].at, request[p].has)'
  <2>1. PICK at, hand : at = request'[p].at /\ hand = request'[p].has /\ InPlace(p, at, hand)
    <3>1. CASE p = q
      BY <1>1, <1>4, <3>1
    <3>2. CASE p # q
      BY <1>1, <1>4, <3>2 DEF InOrderNow
    <3> QED
      BY <3>1, <3>2
  <2>2. InPlace(p, at, hand)'
    BY <1>6, <2>1
  <2> QED
    BY <2>1, <2>2 DEF InPlace, Replaces
<1> QED
  BY <1>5, <1>7 DEF InOrderNow

\* The query for the current delivery returns it, if there is one.
LEMMA ReadingReplaces ==
    ASSUME Versioned, NEW q \in Requests,
           NEW read \in Readings(Asked[q].source, Asked[q].period)
    PROVE  Replaces(q, Max(read \cup {None}))
<1> DEFINE current == Store!Files!CurrentBatch(Asked[q].source, Asked[q].period)
<1>1. current \subseteq DOMAIN file_batch
  BY DEF Store!Files!CurrentBatch
<1>2. CASE current = {}
  <2>1. read \cup {None} = {0}
    BY <1>2 DEF Readings, None
  <2>2. Max({0}) = 0
    BY Greatest
  <2> QED
    BY <1>2, <2>1, <2>2 DEF Replaces, None
<1>3. CASE current # {}
  <2>1. PICK b \in current : read = {b}
    BY <1>3 DEF Readings
  <2>2. b \in Nat \ {None}
    BY <1>1 DEF Versioned
  <2>3. {b, None} \in SUBSET Nat /\ {b, None} # {} /\ \A m \in {b, None} : m <= b
    BY <2>2 DEF None
  <2>4. Max({b, None}) \in {b, None} /\ \A m \in {b, None} : m <= Max({b, None})
    BY <2>2, <2>3, Greatest
  <2>5. Max({b, None}) = b
    BY <2>2, <2>4 DEF None
  <2>6. read \cup {None} = {b, None}
    BY <2>1
  <2> QED
    BY <2>1, <2>2, <2>5, <2>6 DEF Replaces
<1> QED
  BY <1>2, <1>3

LEMMA ReadsSerial == ASSUME SerialInv, RaceInv', NEW q \in Requests, Reads(q) PROVE SerialInv'
<1>1. PICK step, has :
         /\ <<request[q].at, step>> \in ReadingSteps
         /\ request[q].at = "answered" => has = request[q].has
         /\ request[q].at = "previous" =>
               \E read \in Readings(Asked[q].source, Asked[q].period) :
                  has.previous = Max(read \cup {None})
         /\ GoesOn(q, step, has)
  BY DEF Reads
<1>2. Becomes(q, step, request[q].after, request[q].locks, has) /\ tables' = tables
  BY <1>1, GoesOnBecomes DEF SerialInv, RaceInv, IdInv, DigestInv, IndInv
<1>3. step # "new"
  BY <1>1 DEF ReadingSteps
<1>4. ASSUME InOrderNow, Kind(q) = "upload", step \in Passed
      PROVE  InPlace(q, step, has)
  <2>1. InPlace(q, request[q].at, request[q].has)
    BY <1>4 DEF InOrderNow
  <2>2. <<request[q].at, step>> \in {<<"previous", "insert">>, <<"answered", "committing">>}
    BY <1>1, <1>4 DEF ReadingSteps, Passed, Numbered
  <2>3. CASE request[q].at = "answered"
    BY <1>1, <1>4, <2>1, <2>2, <2>3 DEF InPlace, Passed, Numbered
  <2>4. CASE request[q].at = "previous"
    <3>1. Replaces(q, has.previous)
      BY <1>1, <1>4, <2>4, ReadingReplaces DEF InOrderNow
    <3> QED
      BY <1>4, <2>1, <2>2, <2>4, <3>1 DEF InPlace, Passed, Numbered
  <2> QED
    BY <2>2, <2>3, <2>4
<1>5. InOrderNow => InPlace(q, step, has)
  BY <1>4 DEF InPlace
<1> QED
  BY <1>2, <1>3, <1>5, KeepsSerial DEF tables

LEMMA WroteSerial == ASSUME SerialInv, RaceInv', NEW q \in Requests, Wrote(q) PROVE SerialInv'
<1>1. PICK step, has :
         /\ <<request[q].at, step>> \in WritingSteps(q)
         /\ has.id = CASE request[q].at = "insert" -> NewId(q, file_batch)
                      [] request[q].at = "record" -> NewId(q, resolution)
                      [] OTHER                    -> request[q].has.id
         /\ request[q].at \in {"insert", "mark"} => has.previous = request[q].has.previous
         /\ Writing(q, step, has)
  BY DEF Wrote
<1>2. Becomes(q, step, request[q].after, request[q].locks \cup Needs(q), has) /\ tables' = tables
  BY <1>1, WritingBecomes DEF SerialInv, RaceInv, IdInv, DigestInv, IndInv
<1>3. Fits(q, request[q].at) /\ \A p \in Requests : request[p].has.id \in Nat
  BY DEF SerialInv, RaceInv, IdInv, OwnId, DigestInv, IndInv
<1>4. step # "new"
  BY <1>1, <1>3, AskedAssumption DEF WritingSteps, AfterStamps, Fits, Kind
<1>5. ASSUME InOrderNow, Kind(q) = "upload", step \in Passed
      PROVE  InPlace(q, step, has)
  <2>1. InPlace(q, request[q].at, request[q].has)
    BY <1>5 DEF InOrderNow
  <2>2. request[q].at \in {"insert", "mark"} /\ step \in {"mark", "answer"}
    BY <1>1, <1>3, <1>5 DEF WritingSteps, AfterStamps, Fits, Passed, Numbered
  <2>3. /\ ~Store!Files!PartlyOverlaps(Asked[q].source, Asked[q].period)
        /\ Replaces(q, has.previous)
    BY <1>1, <1>5, <2>1, <2>2 DEF InPlace, Passed, Numbered
  <2>4. \A b \in DOMAIN file_batch : file_batch[b].source = Asked[q].source => b < has.id
    <3>1. CASE request[q].at = "insert"
      <4>1. has.id = NewId(q, file_batch) /\ Bounded(DOMAIN file_batch)
        BY <1>1, <3>1 DEF SerialInv, RaceInv, IdInv
      <4> QED
        BY <1>3, <4>1, NewIdIsNew
    <3>2. CASE request[q].at = "mark"
      BY <1>1, <1>5, <2>1, <3>2 DEF InPlace, Passed, Numbered
    <3> QED
      BY <2>2, <3>1, <3>2
  <2> QED
    BY <2>3, <2>4 DEF InPlace
<1>6. InOrderNow => InPlace(q, step, has)
  BY <1>5 DEF InPlace
<1> QED
  BY <1>2, <1>4, <1>6, KeepsSerial DEF tables

\* The other steps that store nothing.
LEMMA OtherSerial ==
    ASSUME SerialInv, RaceInv', NEW q \in Requests,
           Begin(q) \/ Stops(q) \/ Passes(q) \/ Answer(q)
    PROVE  SerialInv'
<1>0. Shaped
  BY DEF SerialInv, RaceInv, IdInv, DigestInv, IndInv
<1>1. CASE Begin(q)
  <2>1. /\ Becomes(q, FirstStep[Kind(q)], Ended, request[q].locks, request[q].has)
        /\ file_batch' = file_batch
    BY <1>0, <1>1, BeginBecomes DEF tables
  <2>2. FirstStep[Kind(q)] \notin Passed \cup {"new"}
    BY FirstSteps DEF Passed, Numbered
  <2>3. q \notin Begun
    BY <1>1 DEF Begin, Begun, At
  <2> QED
    BY <2>1, <2>2, <2>3, KeepsSerial DEF InPlace
<1>2. CASE Stops(q)
  <2>1. PICK answer : Ends(q, answer)
    BY <1>2 DEF Stops
  <2>2. request' = [request EXCEPT ![q] = Finished(q, answer, None)] /\ file_batch' = file_batch
    BY <2>1 DEF Ends, tables
  <2>3. PICK has : Becomes(q, "ended", request[q].after, {}, has)
    BY <1>0, <2>2, FinishedBecomes
  <2>4. InPlace(q, "ended", has)
    BY DEF InPlace, Passed, Numbered
  <2> QED
    BY <2>2, <2>3, <2>4, KeepsSerial
<1>3. CASE Passes(q)
  <2>1. Becomes(q, "previous", request[q].after, request[q].locks, request[q].has)
    BY <1>0, <1>3, PassesBecomes
  <2>2. file_batch' = file_batch
    BY <1>3 DEF Passes, tables
  <2>3. InPlace(q, "previous", request[q].has)
    BY <1>3 DEF Passes, InPlace, Numbered
  <2> QED
    BY <2>1, <2>2, <2>3, KeepsSerial
<1>4. CASE Answer(q)
  <2>1. Becomes(q, "answered", request[q].after, request[q].locks, request[q].has)
    BY <1>0, <1>4, AnswerBecomes
  <2>2. file_batch' = file_batch /\ request[q].at = "answer"
    BY <1>4 DEF Answer, At, tables
  <2>3. InOrderNow => InPlace(q, "answered", request[q].has)
    BY <2>2 DEF InOrderNow, InPlace, Passed, Numbered
  <2> QED
    BY <2>1, <2>2, <2>3, KeepsSerial
<1> QED
  BY <1>1, <1>2, <1>3, <1>4

----------------------------------------------------------------------------
(* The commit of an upload.                                                *)

\* What it leaves in the table.
Stored(q) ==
    LET id       == request[q].has.id
        previous == request[q].has.previous
    IN  /\ id \in Nat \ {None} /\ id \notin DOMAIN file_batch
        /\ DOMAIN file_batch' = DOMAIN file_batch \cup {id}
        /\ file_batch'[id].source = Asked[q].source
        /\ file_batch'[id].period = Asked[q].period
        /\ file_batch'[id].superseded_by = None
        /\ file_batch'[id].version = IF previous = None THEN 1 ELSE file_batch[previous].version + 1
        /\ \A i \in DOMAIN file_batch :
              /\ file_batch'[i].source = file_batch[i].source
              /\ file_batch'[i].period = file_batch[i].period
              /\ file_batch'[i].version = file_batch[i].version
              /\ file_batch'[i].superseded_by = IF i = previous THEN id ELSE file_batch[i].superseded_by

LEMMA CommitStores ==
    ASSUME IdInv, NEW q \in Requests, Commit(q), Kind(q) = "upload"
    PROVE  Stored(q)
<1> DEFINE id == request[q].has.id
           previous == request[q].has.previous
           new == Store!Files!NewBatch(Asked[q].source, Asked[q].period, Asked[q].content, previous)
<1>1. id \in Nat \ {None} /\ id \notin DOMAIN file_batch
  BY CommittedId DEF Rows
<1>2. /\ new.source = Asked[q].source /\ new.period = Asked[q].period
      /\ new.superseded_by = None
      /\ new.version = IF previous = None THEN 1 ELSE file_batch[previous].version + 1
  BY DEF Store!Files!NewBatch, None, Store!Files!None
<1>3. \A i \in DOMAIN file_batch : IsBatch(file_batch[i])
  BY DEF IdInv, DigestInv
<1>4. file_batch' = FilesAfter(q)
  BY DEF Commit
<1> HIDE DEF new
<1>5. FilesAfter(q) =
         [b \in DOMAIN file_batch \cup {id} |->
             IF b = id THEN new
             ELSE IF b = previous THEN [file_batch[b] EXCEPT !.superseded_by = id]
             ELSE file_batch[b]]
  BY DEF FilesAfter, new
<1> HIDE DEF id, previous
<1>6. DOMAIN file_batch' = DOMAIN file_batch \cup {id} /\ file_batch'[id] = new
  BY <1>4, <1>5
<1>7. ASSUME NEW i \in DOMAIN file_batch
      PROVE  /\ file_batch'[i].source = file_batch[i].source
             /\ file_batch'[i].period = file_batch[i].period
             /\ file_batch'[i].version = file_batch[i].version
             /\ file_batch'[i].superseded_by = IF i = previous THEN id ELSE file_batch[i].superseded_by
  <2>1. i # id
    BY <1>1
  <2>2. CASE i = previous
    <3>1. file_batch'[i] = [file_batch[i] EXCEPT !.superseded_by = id]
      BY <1>4, <1>5, <2>1, <2>2
    <3>2. DOMAIN file_batch[i] = BatchFields
      BY <1>3 DEF IsBatch
    <3> QED
      BY <2>2, <3>1, <3>2 DEF BatchFields
  <2>3. CASE i # previous
    BY <1>4, <1>5, <2>1, <2>3
  <2> QED
    BY <2>2, <2>3
<1> QED
  BY <1>1, <1>2, <1>6, <1>7 DEF Stored, id, previous

\* What the upload knows when it commits, if its source's uploads take turns.
LEMMA CommitInPlace ==
    ASSUME InOrderNow, NEW q \in Requests, Commit(q), Kind(q) = "upload"
    PROVE  LET id == request[q].has.id
               previous == request[q].has.previous
           IN  /\ ~Store!Files!PartlyOverlaps(Asked[q].source, Asked[q].period)
               /\ Replaces(q, previous)
               /\ \A b \in DOMAIN file_batch : file_batch[b].source = Asked[q].source => b < id
<1>1. request[q].at = "committing" /\ InPlace(q, request[q].at, request[q].has)
  BY DEF Commit, At, InOrderNow
<1> QED
  BY <1>1 DEF InPlace, Passed, Numbered

LEMMA CommitVersioned ==
    ASSUME InOrderNow, NEW q \in Requests, Commit(q), Kind(q) = "upload", Stored(q)
    PROVE  Versioned'
<1> DEFINE id == request[q].has.id
           previous == request[q].has.previous
<1>1. previous # None => previous \in DOMAIN file_batch
  BY CommitInPlace DEF Replaces, Store!Files!CurrentBatch
<1>2. Asked[q].period \in Nat \X Nat
  BY AskedAssumption, PeriodsAssumption DEF Kind
<1>3. \A b \in DOMAIN file_batch :
         b \in Nat \ {None} /\ file_batch[b].period \in Nat \X Nat /\ file_batch[b].version \in Nat \ {0}
  BY DEF InOrderNow, Versioned
<1>4. file_batch'[id].version \in Nat \ {0}
  <2>1. file_batch'[id].version = IF previous = None THEN 1 ELSE file_batch[previous].version + 1
    BY DEF Stored
  <2>2. previous # None => file_batch[previous].version \in Nat
    BY <1>1, <1>3
  <2> QED
    BY <2>1, <2>2
<1> QED
  BY <1>2, <1>3, <1>4 DEF Versioned, Stored

LEMMA CommitApart ==
    ASSUME InOrderNow, NEW q \in Requests, Commit(q), Kind(q) = "upload", Stored(q)
    PROVE  Store!Files!PeriodsNeverClash'
<1> DEFINE id == request[q].has.id
           clear(one, other) == one.source = other.source =>
                                   \/ one.period = other.period
                                   \/ one.period[2] < other.period[1]
                                   \/ other.period[2] < one.period[1]
<1>1. Asked[q].period \in Nat \X Nat
  BY AskedAssumption, PeriodsAssumption DEF Kind
<1>2. ASSUME NEW i \in DOMAIN file_batch
      PROVE  clear(file_batch'[i], file_batch'[id]) /\ clear(file_batch'[id], file_batch'[i])
  <2>1. file_batch[i].period \in Nat \X Nat
    BY DEF InOrderNow, Versioned
  <2>2. file_batch[i].source = Asked[q].source
           /\ Store!Files!Overlaps(file_batch[i].period, Asked[q].period)
              => file_batch[i].period = Asked[q].period
    BY CommitInPlace DEF Store!Files!PartlyOverlaps
  <2> QED
    BY <1>1, <2>1, <2>2 DEF Stored, Store!Files!Overlaps
<1>3. \A i, j \in DOMAIN file_batch : clear(file_batch'[i], file_batch'[j])
  BY DEF Stored, InOrderNow, Store!Files!PeriodsNeverClash, Store!Files!Apart
<1>4. DOMAIN file_batch' = DOMAIN file_batch \cup {id} /\ clear(file_batch'[id], file_batch'[id])
  BY DEF Stored
<1>5. \A i, j \in DOMAIN file_batch' : clear(file_batch'[i], file_batch'[j])
  BY <1>2, <1>3, <1>4
<1> QED
  BY <1>5 DEF Store!Files!PeriodsNeverClash, Store!Files!Apart

LEMMA CommitChains ==
    ASSUME InOrderNow, NEW q \in Requests, Commit(q), Kind(q) = "upload", Stored(q)
    PROVE  Store!Files!VersionChain'
<1> DEFINE id       == request[q].has.id
           previous == request[q].has.previous
           mine(i)    == Store!Files!SamePeriod(file_batch[i], Asked[q].source, Asked[q].period)
           same(i, j) == Store!Files!SamePeriod(file_batch[j], file_batch[i].source, file_batch[i].period)
           sameNew(i, j) ==
               Store!Files!SamePeriod(file_batch'[j], file_batch'[i].source, file_batch'[i].period)
<1>1. \A i \in DOMAIN file_batch : i \in Nat \ {None} /\ file_batch[i].version \in Nat \ {0}
  BY DEF InOrderNow, Versioned
<1>2. /\ id \in Nat \ {None} /\ id \notin DOMAIN file_batch
      /\ DOMAIN file_batch' = DOMAIN file_batch \cup {id}
  BY DEF Stored
<1>3. /\ file_batch'[id].source = Asked[q].source
      /\ file_batch'[id].period = Asked[q].period
      /\ file_batch'[id].superseded_by = None
      /\ previous = None => file_batch'[id].version = 1
      /\ previous # None => file_batch'[id].version = file_batch[previous].version + 1
  BY DEF Stored
<1>4. \A i \in DOMAIN file_batch :
         /\ file_batch'[i].source = file_batch[i].source
         /\ file_batch'[i].period = file_batch[i].period
         /\ file_batch'[i].version = file_batch[i].version
         /\ i # previous => file_batch'[i].superseded_by = file_batch[i].superseded_by
         /\ i = previous => file_batch'[i].superseded_by = id
  BY DEF Stored
<1>5. \A i \in DOMAIN file_batch : mine(i) => i < id
  BY CommitInPlace DEF Store!Files!SamePeriod
<1>6. ASSUME NEW i \in DOMAIN file_batch
      PROVE  /\ file_batch[i].superseded_by = None =>
                   \A j \in DOMAIN file_batch : same(i, j) => j <= i
             /\ file_batch[i].superseded_by # None =>
                   /\ file_batch[i].superseded_by \in DOMAIN file_batch
                   /\ file_batch[i].superseded_by > i
                   /\ same(i, file_batch[i].superseded_by)
                   /\ file_batch[file_batch[i].superseded_by].version = file_batch[i].version + 1
                   /\ \A j \in DOMAIN file_batch :
                         same(i, j) => (j <= i \/ j >= file_batch[i].superseded_by)
             /\ file_batch[i].version = 1 <=> \A j \in DOMAIN file_batch : same(i, j) => j >= i
             /\ \E head \in DOMAIN file_batch :
                   head >= i /\ same(i, head) /\ file_batch[head].superseded_by = None
  BY DEF InOrderNow, Store!Files!VersionChain, Store!Files!Chained, None, Store!Files!None
<1>7. /\ \A i, j \in DOMAIN file_batch : sameNew(i, j) <=> same(i, j)
      /\ \A i \in DOMAIN file_batch : sameNew(i, id) <=> mine(i)
      /\ \A i \in DOMAIN file_batch : sameNew(id, i) <=> mine(i)
      /\ sameNew(id, id)
      /\ \A i, j \in DOMAIN file_batch : mine(i) => (mine(j) <=> same(i, j))
      /\ \A i, j \in DOMAIN file_batch : same(i, j) <=> same(j, i)
  BY <1>3, <1>4 DEF Store!Files!SamePeriod
<1>8. /\ previous = None => \A i \in DOMAIN file_batch : mine(i) => file_batch[i].superseded_by # None
      /\ previous # None => /\ previous \in DOMAIN file_batch /\ mine(previous)
                            /\ file_batch[previous].superseded_by = None
  BY CommitInPlace DEF Replaces, Store!Files!CurrentBatch, Store!Files!SamePeriod,
       None, Store!Files!None
<1> DEFINE chained(i) ==
      LET next == file_batch'[i].superseded_by IN
      /\ next = None => \A j \in DOMAIN file_batch' : sameNew(i, j) => j <= i
      /\ next # None =>
            /\ next \in DOMAIN file_batch' /\ next > i /\ sameNew(i, next)
            /\ file_batch'[next].version = file_batch'[i].version + 1
            /\ \A j \in DOMAIN file_batch' : sameNew(i, j) => (j <= i \/ j >= next)
      /\ file_batch'[i].version = 1 <=> \A j \in DOMAIN file_batch' : sameNew(i, j) => j >= i
      /\ \E head \in DOMAIN file_batch' :
            head >= i /\ sameNew(i, head) /\ file_batch'[head].superseded_by = None
<1> HIDE DEF id, previous, mine, same, sameNew
<1>9. previous # None => /\ \A j \in DOMAIN file_batch : mine(j) => j <= previous
                         /\ \A j \in DOMAIN file_batch :
                               mine(j) /\ file_batch[j].superseded_by = None => j = previous
  BY <1>1, <1>6, <1>7, <1>8
<1>10. previous = None => \A j \in DOMAIN file_batch : ~mine(j)
  <2>1. ASSUME previous = None, NEW j \in DOMAIN file_batch, mine(j) PROVE FALSE
    <3>1. PICK head \in DOMAIN file_batch : same(j, head) /\ file_batch[head].superseded_by = None
      BY <1>6
    <3> QED
      BY <1>7, <1>8, <2>1, <3>1
  <2> QED
    BY <2>1
<1>11. ASSUME NEW i \in DOMAIN file_batch, i = previous PROVE chained(i)
  BY <1>1, <1>2, <1>3, <1>4, <1>5, <1>6, <1>7, <1>8, <1>9, <1>11 DEF None
<1>12. ASSUME NEW i \in DOMAIN file_batch, i # previous, mine(i) PROVE chained(i)
  BY <1>1, <1>2, <1>3, <1>4, <1>5, <1>6, <1>7, <1>8, <1>9, <1>10, <1>12 DEF None
<1>13. ASSUME NEW i \in DOMAIN file_batch, i # previous, ~mine(i) PROVE chained(i)
  <2>1. /\ ~sameNew(i, id)
        /\ \A j \in DOMAIN file_batch : sameNew(i, j) => j # previous
    BY <1>1, <1>7, <1>8, <1>13
  <2>2. \A j \in DOMAIN file_batch' : sameNew(i, j) => j \in DOMAIN file_batch /\ same(i, j)
    BY <1>2, <1>7, <2>1
  <2>3. /\ file_batch'[i].superseded_by = file_batch[i].superseded_by
        /\ file_batch'[i].version = file_batch[i].version
    BY <1>4, <1>13
  <2>4. \E head \in DOMAIN file_batch' :
            head >= i /\ sameNew(i, head) /\ file_batch'[head].superseded_by = None
    <3>1. PICK head \in DOMAIN file_batch :
             head >= i /\ same(i, head) /\ file_batch[head].superseded_by = None
      BY <1>6
    <3>2. sameNew(i, head) /\ head # previous
      BY <1>7, <2>1, <3>1
    <3> QED
      BY <1>2, <1>4, <3>1, <3>2
  <2>5. file_batch'[i].superseded_by # None =>
           LET next == file_batch'[i].superseded_by IN
            /\ next \in DOMAIN file_batch' /\ next > i /\ sameNew(i, next)
            /\ file_batch'[next].version = file_batch'[i].version + 1
            /\ \A j \in DOMAIN file_batch' : sameNew(i, j) => (j <= i \/ j >= next)
    BY <1>2, <1>4, <1>6, <1>7, <2>2, <2>3
  <2>6. file_batch'[i].superseded_by = None =>
           \A j \in DOMAIN file_batch' : sameNew(i, j) => j <= i
    BY <1>6, <2>2, <2>3
  <2>7. file_batch'[i].version = 1 <=> \A j \in DOMAIN file_batch' : sameNew(i, j) => j >= i
    BY <1>2, <1>6, <1>7, <2>2, <2>3
  <2> QED
    BY <2>4, <2>5, <2>6, <2>7
<1>14. chained(id)
  BY <1>1, <1>2, <1>3, <1>5, <1>7, <1>8, <1>10 DEF None
<1>15. \A i \in DOMAIN file_batch' : chained(i)
  BY <1>2, <1>11, <1>12, <1>13, <1>14
<1> QED
  BY <1>15 DEF Store!Files!VersionChain, Store!Files!Chained, sameNew, None, Store!Files!None

\* Another upload under way is of another source, and finds all as it was.
LEMMA OthersInPlace ==
    ASSUME SerialInv, InOrderNow, NEW q \in Requests, Commit(q), Kind(q) = "upload", Stored(q),
           UploadsSerial', NEW p \in Requests
    PROVE  InPlace(p, request[p].at, request[p].has)'
<1> DEFINE id       == request[q].has.id
           previous == request[q].has.previous
<1>0. PICK has : Becomes(q, "ended", request[q].after, {}, has)
  BY CommitBecomes DEF SerialInv, RaceInv, IdInv, DigestInv, IndInv
<1>1. CASE p = q
  BY <1>0, <1>1 DEF Becomes, InPlace, Passed, Numbered
<1>2. CASE p # q
  <2>1. request'[p] = request[p] /\ InPlace(p, request[p].at, request[p].has)
    BY <1>0, <1>2 DEF Becomes, InOrderNow
  <2>2. SUFFICES ASSUME Kind(p) = "upload", request[p].at \in Passed
                 PROVE  InPlace(p, request[p].at, request[p].has)'
    BY <2>1 DEF InPlace, Kind
  <2>3. Asked[p].source # Asked[q].source
    <3>1. {p, q} \subseteq Begun' /\ p \notin Ended /\ q \notin Ended
      BY <1>0, <2>1, <2>2 DEF Becomes, Commit, Passed, Numbered, Begun, Ended, At
    <3>2. request[p].after \subseteq Ended /\ request[q].after \subseteq Ended
      BY DEF SerialInv, RaceInv
    <3>3. request'[p].after = request[p].after /\ request'[q].after = request[q].after
      BY <1>0, <2>1 DEF Becomes
    <3>4. Overlap(p, q)'
      BY <3>1, <3>2, <3>3 DEF Overlap
    <3> QED
      BY <1>2, <2>2, <3>4 DEF UploadsSerial, Kind
  <2>4. previous # None => /\ previous \in DOMAIN file_batch
                           /\ file_batch[previous].source = Asked[q].source
    BY CommitInPlace DEF Replaces, Store!Files!CurrentBatch, Store!Files!SamePeriod
  <2>5. \A i \in DOMAIN file_batch : i # None
    BY DEF InOrderNow, Versioned
  <2>6. /\ DOMAIN file_batch' = DOMAIN file_batch \cup {id}
        /\ file_batch'[id].source # Asked[p].source
        /\ \A i \in DOMAIN file_batch :
              /\ file_batch'[i].source = file_batch[i].source
              /\ file_batch'[i].period = file_batch[i].period
              /\ file_batch'[i].superseded_by = IF i = previous THEN id ELSE file_batch[i].superseded_by
    BY <2>3 DEF Stored
  <2> HIDE DEF id, previous
  <2>7. ~Store!Files!PartlyOverlaps(Asked[p].source, Asked[p].period)'
    BY <2>1, <2>2, <2>6 DEF InPlace, Store!Files!PartlyOverlaps
  <2>8. Store!Files!CurrentBatch(Asked[p].source, Asked[p].period)'
           = Store!Files!CurrentBatch(Asked[p].source, Asked[p].period)
    <3>1. ASSUME NEW i \in DOMAIN file_batch, file_batch[i].source = Asked[p].source
          PROVE  i # previous
      BY <2>3, <2>4, <2>5, <3>1
    <3> QED
      BY <2>6, <3>1 DEF Store!Files!CurrentBatch, Store!Files!SamePeriod
  <2>9. request[p].at # "previous" => Replaces(p, request[p].has.previous)'
    BY <2>1, <2>2, <2>8 DEF InPlace, Replaces
  <2>10. request[p].at \in Numbered =>
            \A b \in DOMAIN file_batch' : file_batch'[b].source = Asked[p].source => b < request[p].has.id
    BY <2>1, <2>2, <2>6 DEF InPlace
  <2> QED
    BY <2>1, <2>7, <2>9, <2>10 DEF InPlace, Replaces
<1> QED
  BY <1>1, <1>2

LEMMA CommitSerial == ASSUME SerialInv, RaceInv', NEW q \in Requests, Commit(q) PROVE SerialInv'
<1>1. PICK has : Becomes(q, "ended", request[q].after, {}, has)
  BY CommitBecomes DEF SerialInv, RaceInv, IdInv, DigestInv, IndInv
<1>2. CASE Kind(q) # "upload"
  <2>1. file_batch' = file_batch
    BY <1>2 DEF Commit
  <2>2. InPlace(q, "ended", has)
    BY DEF InPlace, Passed, Numbered
  <2> QED
    BY <1>1, <2>1, <2>2, KeepsSerial
<1>3. CASE Kind(q) = "upload"
  <2>1. SUFFICES ASSUME UploadsSerial' PROVE InOrderNow'
    BY DEF SerialInv
  <2>2. Begun \subseteq Begun' /\ \A p \in Begun : request'[p].after = request[p].after
    BY <1>1 DEF Becomes, Begun, At
  <2>3. InOrderNow
    BY <2>1, <2>2, SerialBefore DEF SerialInv
  <2>4. Stored(q)
    BY <1>3, CommitStores DEF SerialInv, RaceInv
  <2>5. Versioned' /\ Store!Files!VersionChain' /\ Store!Files!PeriodsNeverClash'
    BY <1>3, <2>3, <2>4, CommitVersioned, CommitChains, CommitApart
  <2>6. \A p \in Requests : InPlace(p, request[p].at, request[p].has)'
    BY <1>3, <2>1, <2>3, <2>4, OthersInPlace
  <2> QED
    BY <2>5, <2>6 DEF InOrderNow
<1> QED
  BY <1>2, <1>3

----------------------------------------------------------------------------

LEMMA RestartSerial == ASSUME SerialInv, RaceInv', Restart PROVE SerialInv'
<1>1. file_batch' = file_batch /\ request' = [p \in Requests |-> AfterRestart(p)]
  BY DEF Restart, tables, AfterRestart
<1>2. \A p \in Requests : /\ request'[p].after = request[p].after
                          /\ request'[p].at \in {"new", "ended"}
                          /\ request[p].at # "new" => request'[p].at # "new"
  BY <1>1, OpenSteps, FinishedRequest DEF AfterRestart
<1>3. SUFFICES ASSUME UploadsSerial' PROVE InOrderNow'
  BY DEF SerialInv
<1>4. Begun \subseteq Begun' /\ \A p \in Begun : request'[p].after = request[p].after
  BY <1>2 DEF Begun, At
<1>5. InOrderNow
  BY <1>3, <1>4, SerialBefore DEF SerialInv
<1>6. Versioned' /\ Store!Files!VersionChain' /\ Store!Files!PeriodsNeverClash'
  BY <1>1, <1>5 DEF InOrderNow, Versioned, Store!Files!VersionChain, Store!Files!Chained,
       Store!Files!PeriodsNeverClash, Store!Files!Apart, Store!Files!SamePeriod
<1>7. \A p \in Requests : InPlace(p, request[p].at, request[p].has)'
  BY <1>2 DEF InPlace, Passed, Numbered
<1> QED
  BY <1>6, <1>7 DEF InOrderNow

LEMMA InitSerial == ASSUME Init PROVE SerialInv
<1>1. file_batch = Loaded /\ \A q \in Requests : request[q] = New
  BY DEF Init
<1>2. ASSUME NEW b \in DOMAIN Loaded
      PROVE  b \in Nat \ {None} /\ Loaded[b].period \in Nat \X Nat /\ Loaded[b].version \in Nat \ {0}
  <2>1. Loaded[b] \in Store!Files!FileBatch /\ b \in Nat \ {0}
    BY LoadedAssumption
  <2> QED
    BY <2>1, PeriodsAssumption DEF Store!Files!FileBatch, None
<1>3. Versioned
  BY <1>1, <1>2 DEF Versioned
<1>4. Store!Files!VersionChain /\ Store!Files!PeriodsNeverClash
  BY <1>1, LoadedAssumption DEF Store!Files!VersionChain, Store!Files!PeriodsNeverClash
<1>5. \A q \in Requests : InPlace(q, request[q].at, request[q].has)
  BY <1>1 DEF New, InPlace, Passed, Numbered
<1> QED
  BY <1>3, <1>4, <1>5, InitRaces DEF SerialInv, InOrderNow

LEMMA NextSerial == ASSUME SerialInv, [Next]_vars PROVE SerialInv'
<1>1. RaceInv' /\ Shaped
  BY NextRaces DEF SerialInv, RaceInv, IdInv, DigestInv, IndInv
<1>2. CASE UNCHANGED vars
  <2>1. request' = request /\ file_batch' = file_batch
    BY <1>2 DEF vars
  <2>2. UploadsSerial' <=> UploadsSerial
    BY <2>1 DEF UploadsSerial, Overlap, Begun, At, Kind
  <2>3. InOrderNow' <=> InOrderNow
    BY <2>1 DEF InOrderNow, Versioned, Store!Files!VersionChain, Store!Files!Chained,
       Store!Files!PeriodsNeverClash, Store!Files!Apart, Store!Files!SamePeriod, InPlace, Replaces,
       Kind, Store!Files!PartlyOverlaps, Store!Files!CurrentBatch
  <2> QED
    BY <1>1, <2>2, <2>3 DEF SerialInv
<1>3. CASE Restart
  BY <1>1, <1>3, RestartSerial
<1>4. ASSUME NEW q \in Requests,
             \/ Begin(q) \/ Reads(q) \/ Wrote(q) \/ Stops(q) \/ Passes(q) \/ Answer(q)
             \/ Commit(q)
      PROVE  SerialInv'
  BY <1>1, <1>4, ReadsSerial, WroteSerial, OtherSerial, CommitSerial
<1> QED
  BY <1>1, <1>2, <1>3, <1>4, Steps

\* As long as the uploads of each source take turns, the versions of a period
\* are a chain and the periods of a source apart, whatever decisions, runs and
\* uploads of other sources overlap them, and whatever fails or restarts, on
\* either database.
THEOREM TurnsKeepTheChain == Spec => []SerialUploadsKeepTheChain
<1>1. Init => SerialInv
  BY InitSerial
<1>2. SerialInv /\ [Next]_vars => SerialInv'
  BY NextSerial
<1>3. SerialInv => SerialUploadsKeepTheChain
  BY DEF SerialInv, InOrderNow, SerialUploadsKeepTheChain
<1> QED
  BY <1>1, <1>2, <1>3, PTL DEF Spec

=============================================================================
