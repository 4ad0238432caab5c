------------------------------ MODULE Requests ------------------------------
(***************************************************************************)
(* Requests that overlap: the three POST handlers (app/web/routes.py) with *)
(* the services they call, one action per statement or group of statements *)
(* that reads or writes one thing, and the session they run in             *)
(* (app/db/session.py).                                                    *)
(*                                                                         *)
(* Decisions and runs are handled in threads.  An upload is a coroutine,   *)
(* so from its first query to its answer it has the event loop, which      *)
(* every request needs to begin, to answer and to have its commit started: *)
(* the transaction of a request ends after its answer is sent.  Tables     *)
(* show what is committed; what a request wrote is in its own record until *)
(* then.  The locks are those of the two databases the service runs on:    *)
(* SQLite has one writer, and whoever waits for it gives up; PostgreSQL    *)
(* locks rows and unique keys, waits for ever, and aborts a transaction    *)
(* that waits in a circle.  Reads wait for nobody and see what is          *)
(* committed at that moment.  A refused request writes nothing, so it ends *)
(* with its message.                                                       *)
(***************************************************************************)
EXTENDS Integers, Sequences, FiniteSets, FiniteSetsExt

CONSTANTS Sources, Periods, Contents, RecordRow, Parsed, MaxBatches,   \* Reconcile
          Identity, NoRecord, MaxResolutions,
          References, Buckets, Times, Quantities, SuggestWindow,
          SourcePairs, MaxRuns,
          BpsUnit, AmountBps, AmountFloor, PriceBps, QtyBps, TimeTolerance,
          Requests,      \* the requests people may make
          Asked,         \* what each of them asks for
          Engines,       \* the databases to run on: "sqlite", "postgresql"
          Loaded,        \* the deliveries and decisions stored before
          Decided,
          Code,          \* the codes of sources, in their sorted order: naturals
          Together,      \* bound: which requests are made in one history
          Free           \* the event loop serves nobody

ASSUME EnginesAssumption == Engines \subseteq {"sqlite", "postgresql"}
ASSUME FreeAssumption == Free \notin Requests
ASSUME CodeAssumption ==
    /\ Code \in [Sources -> Nat]
    /\ \A s, t \in Sources : Code[s] = Code[t] => s = t

VARIABLES engine,        \* the database in use
          file_batch, resolution,   \* committed rows, functions of their ids
          run,           \* committed runs, in the order of their commits
          request,       \* how far each request has come
          loop           \* the upload that has the event loop, if any

tables == <<file_batch, resolution, run>>

vars == <<engine, file_batch, resolution, run, request, loop>>

None == 0

\* The service on the committed tables, and on other contents of them.
Store == INSTANCE Reconcile

DB(files, decisions) == INSTANCE Reconcile WITH file_batch <- files,
                                                resolution <- decisions, run <- <<>>

\* The constants of the service are as its modules assume.
ASSUME ServiceAssumption ==
    /\ Store!TablesAssumption /\ Store!SourcePairsAssumption
    /\ Store!ReferencesAssumption /\ Store!MeasuresAssumption /\ Store!WindowAssumption
    /\ Store!NoRecordAssumption
    /\ Store!BpsUnitAssumption /\ Store!QtyBpsAssumption /\ Store!ProfileAssumption

\* People make finitely many requests, none of which a form or its service
\* refuses for what it says (a record paired with itself, a pair of sources
\* without a profile): those read and write nothing.
ASSUME RequestsAssumption == IsFiniteSet(Requests)
ASSUME PeriodsAssumption == Periods \subseteq Nat \X Nat
ASSUME AskedAssumption ==
    \A q \in Requests :
        /\ Asked[q].kind \in {"upload", "decision", "run"}
        /\ Asked[q].kind = "upload" =>
              /\ Asked[q].source \in Sources /\ Asked[q].content \in Contents
              /\ Asked[q].period \in Periods
        /\ Asked[q].kind = "decision" =>
              /\ Asked[q].left \in Identity
              /\ \/ /\ Asked[q].decision = "accept_unmatched" /\ Asked[q].right = NoRecord
                 \/ /\ Asked[q].decision \in {"manual_match", "reject_suggestion"}
                    /\ Asked[q].right \in Identity \ {Asked[q].left}
        /\ Asked[q].kind = "run" =>
              /\ <<Asked[q].left, Asked[q].right>> \in SourcePairs
              /\ Asked[q].period \in Periods

\* A history starts with tables that unraced requests can leave: no bytes
\* stored twice for a source, versions in a chain, periods apart, decisions of
\* the right shape and no two live ones in contradiction (Ingest, Resolutions).
ASSUME LoadedAssumption ==
    /\ Loaded \in Seq(Store!Files!FileBatch)
    /\ Store!Files!Chained(Loaded) /\ Store!Files!Apart(Loaded)
    /\ \A i, j \in DOMAIN Loaded :
          <<Loaded[i].source, Loaded[i].content>> = <<Loaded[j].source, Loaded[j].content>> => i = j
ASSUME DecidedAssumption ==
    /\ Decided \in Seq(Store!Decisions!Resolution)
    /\ \A i, j \in DOMAIN Decided :
          i # j /\ Store!Live(Decided[i]) /\ Store!Live(Decided[j])
             => ~Store!Decisions!Contradicts(Decided[i], Decided[j])
    /\ \A i \in DOMAIN Decided :
          /\ Decided[i].kind = "accept_unmatched" <=> Decided[i].right = NoRecord
          /\ Decided[i].left # Decided[i].right

\* The bounds of Reconcile are none here.
ASSUME BoundsAssumption ==
    /\ MaxBatches >= Len(Loaded) + Cardinality(Requests)
    /\ MaxResolutions >= Len(Decided) + Cardinality(Requests)
    /\ MaxRuns \in Nat /\ MaxRuns >= Cardinality(Requests)

----------------------------------------------------------------------------
(* Requests.                                                               *)

\* What a handler has in hand: the id of the row it adds, the delivery an
\* upload replaces, the decisions still to stamp and those stamped, and what
\* a run read, found and has yet to revoke.
Nothing == [id |-> None, previous |-> None, stamp |-> {}, stamped |-> {},
            read |-> {}, prior |-> <<>>, revoke |-> {}, row |-> <<>>]

New == [at |-> "new", answer |-> "none", after |-> {}, locks |-> {}, has |-> Nothing]

At(q, step) == request[q].at = step

Begun == {q \in Requests : ~At(q, "new")}
Ended == {q \in Requests : At(q, "ended")}
Open  == Begun \ Ended

Kind(q) == Asked[q].kind

FirstStep == [upload |-> "check", decision |-> "collisions", run |-> "left"]

\* The step that follows the last decision a handler stamps.
AfterStamps == [decision |-> "record", run |-> "find"]

Writes == {"insert", "mark", "stamp", "record", "pairs", "items"}

\* The handler goes on to a step with what it now has in hand.
GoesOn(q, step, has) ==
    /\ request' = [request EXCEPT ![q].at = step, ![q].has = has]
    /\ UNCHANGED <<engine, tables, loop>>

\* A bug the checks must catch: a session that is not closed keeps its locks.
LockedAfter(q) == request[q].locks

\* The transaction is over and its session closed.
LocksAfter(q) == {}

Finished(q, answer, id) ==
    [at |-> "ended", answer |-> answer, after |-> request[q].after,
     locks |-> LocksAfter(q), has |-> [Nothing EXCEPT !.id = id]]

\* The request is over and has left no trace.
Ends(q, answer) ==
    /\ request' = [request EXCEPT ![q] = Finished(q, answer, None)]
    /\ loop' = IF loop = q THEN Free ELSE loop
    /\ UNCHANGED <<engine, tables>>

\* One loop serves every request; those that ended are over for good.
Begin(q) ==
    /\ At(q, "new") /\ loop = Free
    /\ \E requests \in Together : Begun \cup {q} \subseteq requests
    /\ request' = [request EXCEPT ![q].at = FirstStep[Kind(q)], ![q].after = Ended]
    /\ UNCHANGED <<engine, tables, loop>>

----------------------------------------------------------------------------
(* Locks, as <<table, key>>, held until the transaction ends.              *)

NextStamp(q) == Min(request[q].has.stamp)

\* What the statement a request is about to run has to lock.
Needs(q) ==
    IF request[q].at \notin Writes THEN {}
    ELSE IF engine = "sqlite" THEN {<<"writer", None>>}
    ELSE CASE At(q, "insert") -> {<<"digest", <<Asked[q].source, Asked[q].content>>>>}
           [] At(q, "mark")   -> {<<"file_batch", request[q].has.previous>>}
           [] At(q, "stamp")  -> {<<"resolution", NextStamp(q)>>}
           [] OTHER           -> {}

WaitsFor(q, p) == p # q /\ Needs(q) \cap request[p].locks # {}

Blocked(q) == \E p \in Requests : WaitsFor(q, p)

\* A bug the checks must catch: a statement does not wait.
NeverWaits(q) == TRUE

MayWrite(q) == ~Blocked(q)

\* The statement runs, and the handler goes on.
Writing(q, step, has) ==
    /\ MayWrite(q)
    /\ request' = [request EXCEPT ![q].at = step, ![q].has = has,
                                  ![q].locks = @ \cup Needs(q)]
    /\ UNCHANGED <<engine, tables, loop>>

\* Ids grow in the order rows are flushed; a transaction rolled back may
\* leave a gap.
NewId(q, rows) ==
    1 + Max({None} \cup DOMAIN rows \cup
            {request[p].has.id : p \in {o \in Open : Kind(o) = Kind(q)}})

----------------------------------------------------------------------------
(* POST /files (upload_file, ingest_file).                                 *)

\* The guards; a file that passes keeps the event loop until its answer.
Check(q) ==
    LET asked == Asked[q] IN
    /\ At(q, "check") /\ loop = Free
    /\ IF \/ ~Store!Files!ValidPeriod(asked.period)
          \/ Store!Files!Duplicate(asked.source, asked.content)
          \/ Store!Files!PartlyOverlaps(asked.source, asked.period)
          \/ ~Parsed[asked.source][asked.content].readable
       THEN Ends(q, "message")
       ELSE /\ request' = [request EXCEPT ![q].at = "previous"]
            /\ loop' = q
            /\ UNCHANGED <<engine, tables>>

\* A bug the checks must catch: the version read may be one of the past.
AnyVersion(source, period) ==
    {{b} : b \in {c \in DOMAIN file_batch : Store!Files!SamePeriod(file_batch[c], source, period)}}

\* What the query for the current delivery may return: one, if there is any.
Readings(source, period) ==
    LET current == Store!Files!CurrentBatch(source, period)
    IN  IF current = {} THEN {{}} ELSE {{b} : b \in current}

ReadPrevious(q) ==
    /\ At(q, "previous")
    /\ \E read \in Readings(Asked[q].source, Asked[q].period) :
          GoesOn(q, "insert", [Nothing EXCEPT !.previous = Max(read \cup {None})])

\* A bug the checks must catch: no unique index on source and digest.
Unindexed(q) == FALSE

\* The unique index on source and digest, once whoever had the key is done.
InIndex(q) == Store!Files!Duplicate(Asked[q].source, Asked[q].content)

\* The rows are flushed after the batch, and one that is too long fails then.
RowsFail(q) == ~Parsed[Asked[q].source][Asked[q].content].storable

Insert(q) ==
    LET has == request[q].has IN
    /\ At(q, "insert")
    /\ IF MayWrite(q) /\ (InIndex(q) \/ RowsFail(q))
       THEN Ends(q, "failed")
       ELSE Writing(q, IF has.previous = None THEN "answer" ELSE "mark",
                    [has EXCEPT !.id = NewId(q, file_batch)])

MarkPrevious(q) == At(q, "mark") /\ Writing(q, "answer", request[q].has)

\* A bug the checks must catch: the mark on the previous version is lost.
FilesUnmarked(q) ==
    [b \in DOMAIN file_batch \cup {request[q].has.id} |->
        IF b = request[q].has.id
        THEN Store!Files!NewBatch(Asked[q].source, Asked[q].period, Asked[q].content,
                                  request[q].has.previous)
        ELSE file_batch[b]]

\* The deliveries once an upload has committed.
FilesAfter(q) ==
    LET has == request[q].has IN
    [b \in DOMAIN file_batch \cup {has.id} |->
        IF b = has.id
        THEN Store!Files!NewBatch(Asked[q].source, Asked[q].period, Asked[q].content, has.previous)
        ELSE IF b = has.previous THEN [file_batch[b] EXCEPT !.superseded_by = has.id]
        ELSE file_batch[b]]

----------------------------------------------------------------------------
(* POST /resolutions (create_resolution, _record).                         *)

NewDecision(q) == Store!Decisions!Row(Asked[q].decision, Asked[q].left, Asked[q].right)

\* A bug the checks must catch: only the left-hand record is looked up.
CollidingOnLeft(q) ==
    {i \in DOMAIN resolution : /\ Store!Live(resolution[i])
                               /\ resolution[i].left = NewDecision(q).left
                               /\ Store!Decisions!Contradicts(resolution[i], NewDecision(q))}

\* The live decisions the new one contradicts (_live_touching, _contradicts).
Colliding(q) ==
    {i \in DOMAIN resolution : /\ Store!Live(resolution[i])
                               /\ Store!Decisions!Contradicts(resolution[i], NewDecision(q))}

ReadCollisions(q) ==
    /\ At(q, "collisions")
    /\ \E ids \in {Colliding(q)} :
          GoesOn(q, IF ids = {} THEN "record" ELSE "stamp", [Nothing EXCEPT !.stamp = ids])

\* A row is stamped whatever became of it since it was read.
Stamp(q) ==
    LET has  == request[q].has
        rest == has.stamp \ {NextStamp(q)}
    IN  /\ At(q, "stamp")
        /\ Writing(q, IF rest = {} THEN AfterStamps[Kind(q)] ELSE "stamp",
                   [has EXCEPT !.stamp = rest, !.stamped = @ \cup {NextStamp(q)}])

Record(q) ==
    /\ At(q, "record")
    /\ Writing(q, "answer", [request[q].has EXCEPT !.id = NewId(q, resolution)])

\* A bug the checks must catch: what is replaced is deleted.
DecisionsReplaced(q) ==
    LET has == request[q].has IN
    [i \in (DOMAIN resolution \cup ({has.id} \ {None})) \ has.stamped |->
        IF i = has.id THEN NewDecision(q) ELSE resolution[i]]

\* A bug the checks must catch: what a run revokes is not written down.
DecisionsRecorded(q) ==
    LET has == request[q].has IN
    [i \in DOMAIN resolution \cup ({has.id} \ {None}) |->
        IF i = has.id THEN NewDecision(q)
        ELSE IF i \in has.stamped /\ has.id # None THEN [resolution[i] EXCEPT !.stamp = "superseded"]
        ELSE resolution[i]]

\* The decisions as the transaction that stamped some and added at most one
\* sees them, and as its commit leaves them.
DecisionsAfter(q) ==
    LET has  == request[q].has
        mark == IF Kind(q) = "run" THEN "withdrawn" ELSE "superseded"
    IN  [i \in DOMAIN resolution \cup ({has.id} \ {None}) |->
            IF i = has.id THEN NewDecision(q)
            ELSE IF i \in has.stamped THEN [resolution[i] EXCEPT !.stamp = mark]
            ELSE resolution[i]]

----------------------------------------------------------------------------
(* POST /runs (start_run, run_reconciliation).                             *)

ReadLeft(q) ==
    /\ At(q, "left")
    /\ \E read \in Readings(Asked[q].left, Asked[q].period) :
          GoesOn(q, "right", [Nothing EXCEPT !.read = read])

\* The deliveries a run has read, as they were when it read them.
AsRead(read) == [b \in read |-> [file_batch[b] EXCEPT !.superseded_by = None]]

Refused(asked, files) ==
    \/ \A b \in DOMAIN files : files[b].records = <<>>
    \/ ~DB(files, <<>>)!Unambiguous(asked.left, asked.period)
    \/ ~DB(files, <<>>)!Unambiguous(asked.right, asked.period)

ReadRight(q) ==
    /\ At(q, "right")
    /\ \E right \in Readings(Asked[q].right, Asked[q].period) :
       \E read \in {request[q].has.read \cup right} :
          IF Refused(Asked[q], AsRead(read))
          THEN Ends(q, "message")
          ELSE GoesOn(q, "decisions", [Nothing EXCEPT !.read = read])

ReadDecisions(q) ==
    /\ At(q, "decisions")
    /\ GoesOn(q, "pairs",
              [request[q].has EXCEPT
                  !.prior = DB(<<>>, resolution)!LoadPriorResolutions(
                                Asked[q].left, Asked[q].right, Asked[q].period)])

\* Matching, the run's own row and its pairs, with the decisions behind them
\* looked up again.
WritePairs(q) ==
    LET asked == Asked[q]
        has   == request[q].has
    IN  /\ At(q, "pairs")
        /\ \E files \in {AsRead(has.read)} :
           \E stored \in {DB(files, <<>>)!RunInput(asked.left, asked.right, asked.period)} :
           \E result \in {Store!MatchResult([stored EXCEPT !.prior = has.prior])} :
              Writing(q, "find",
                 [has EXCEPT
                     !.revoke = result.revocations,
                     !.row    = [files     |-> Cardinality(DOMAIN file_batch),
                                 decisions |-> Cardinality(DOMAIN resolution),
                                 pairs     |-> DB(files, resolution)!PairRows(result),
                                 items     |-> DB(files, <<>>)!RecordItems(result, asked.period)]])

\* Acceptances are revoked in the order of sources, and then of references.
Precedes(one, other) ==
    \/ Code[one[1]] < Code[other[1]]
    \/ one[1] = other[1] /\ one[2] < other[2]

\* The next acceptance to revoke is looked up by its record, and may be gone.
FindRevoked(q) ==
    LET has == request[q].has IN
    /\ At(q, "find")
    /\ IF has.revoke = {}
       THEN GoesOn(q, "items", has)
       ELSE \E key \in has.revoke :
               /\ \A other \in has.revoke \ {key} : Precedes(key, other)
               /\ \E found \in {DB(<<>>, DecisionsAfter(q))!Decisions!ResolutionFor(key)} :
                     GoesOn(q, IF found = {} THEN "find" ELSE "stamp",
                            [has EXCEPT !.revoke = @ \ {key}, !.stamp = found])

\* The deliveries as queries that all take the same one for current see them.
TakingAsCurrent(current, asked) ==
    LET others == (Store!Files!CurrentBatch(asked.left, asked.period) \cup
                   Store!Files!CurrentBatch(asked.right, asked.period)) \ current
    IN  [b \in DOMAIN file_batch \ others |-> file_batch[b]]

\* A bug the checks must catch: no unique constraint on run and record.
NotListed(items, withdrawn) == FALSE

\* Two items of one run about one stored record: uq_run_item refuses them.
ListedTwice(items, withdrawn) ==
    \E i \in items, w \in withdrawn : <<i.batch, i.reference>> = <<w.batch, w.reference>>

\* What is withdrawn or rejected is read only now, and the summary written.
\* These reads are several queries; here they agree on what is current.
WriteItems(q) ==
    LET asked == Asked[q]
        has   == request[q].has
    IN  /\ At(q, "items")
        /\ \E left \in Readings(asked.left, asked.period),
              right \in Readings(asked.right, asked.period) :
           \E files \in {TakingAsCurrent(left \cup right, asked)} :
           \E withdrawn \in {DB(files, <<>>)!WithdrawnItems(asked.left, asked.period) \cup
                             DB(files, <<>>)!WithdrawnItems(asked.right, asked.period)},
              rejected \in {DB(files, <<>>)!RejectedCount(asked.left, asked.period) +
                            DB(files, <<>>)!RejectedCount(asked.right, asked.period)} :
              IF ListedTwice(has.row.items, withdrawn)
              THEN Ends(q, "failed")
              ELSE Writing(q, "answer",
                      [has EXCEPT !.row =
                          [left      |-> asked.left,
                           right     |-> asked.right,
                           period    |-> asked.period,
                           files     |-> has.row.files,
                           decisions |-> has.row.decisions,
                           pairs     |-> has.row.pairs,
                           items     |-> has.row.items \cup withdrawn,
                           counts    |-> Store!Counts(has.row.items \cup withdrawn, rejected)]])

----------------------------------------------------------------------------
(* Answer first, commit later (session_dependency); and what goes wrong.   *)

\* An upload answers on the loop it holds; a thread has to get the loop.
Answer(q) ==
    /\ At(q, "answer") /\ loop \in {q, Free}
    /\ request' = [request EXCEPT ![q].at = "answered", ![q].answer = "success"]
    /\ loop' = Free
    /\ UNCHANGED <<engine, tables>>

\* The loop hands the rest of session_dependency to a thread.
Dispatch(q) ==
    /\ At(q, "answered") /\ loop = Free
    /\ GoesOn(q, "committing", request[q].has)

Commit(q) ==
    /\ At(q, "committing")
    /\ request' = [request EXCEPT ![q] = Finished(q, "success", request[q].has.id)]
    /\ \/ /\ Kind(q) = "upload"
          /\ file_batch' = FilesAfter(q)
          /\ UNCHANGED <<resolution, run>>
       \/ /\ Kind(q) = "decision"
          /\ resolution' = DecisionsAfter(q)
          /\ UNCHANGED <<file_batch, run>>
       \/ /\ Kind(q) = "run"
          /\ resolution' = DecisionsAfter(q)
          /\ run' = Append(run, request[q].has.row)
          /\ UNCHANGED file_batch
    /\ UNCHANGED <<engine, loop>>

\* Whoever answered success is not told.
CommitFails(q) == At(q, "committing") /\ Ends(q, "success")

\* A statement, or the connection, fails: the answer is an error page.
StatementFails(q) == request[q].at \in Writes /\ Ends(q, "failed")

\* SQLite: the writer is busy for longer than a statement waits.
TimesOut(q) == engine = "sqlite" /\ Blocked(q) /\ Ends(q, "failed")

\* Every one of some requests waits for another of them.
Deadlocked(q) ==
    \E circle \in SUBSET Open :
        q \in circle /\ \A p \in circle : \E o \in circle : WaitsFor(p, o)

\* PostgreSQL aborts one that waits in a circle.
IsAborted(q) == engine = "postgresql" /\ Deadlocked(q) /\ Ends(q, "failed")

\* The process is restarted: what is not committed is rolled back.
Restart ==
    /\ Open # {}
    /\ request' = [q \in Requests |->
                      IF q \in Open
                      THEN Finished(q, IF request[q].answer = "none" THEN "failed"
                                       ELSE request[q].answer, None)
                      ELSE request[q]]
    /\ loop' = Free
    /\ UNCHANGED <<engine, tables>>

\* What a handler does of itself.
Handler(q) ==
    \/ Check(q) \/ ReadPrevious(q) \/ Insert(q) \/ MarkPrevious(q)
    \/ ReadCollisions(q) \/ Stamp(q) \/ Record(q)
    \/ ReadLeft(q) \/ ReadRight(q) \/ ReadDecisions(q)
    \/ WritePairs(q) \/ FindRevoked(q) \/ WriteItems(q)
    \/ Answer(q)

GivesUp(q) == TimesOut(q) \/ IsAborted(q)

\* How a request gets on by itself.
Progress(q) == Handler(q) \/ Dispatch(q) \/ Commit(q) \/ GivesUp(q)

Init ==
    /\ engine \in Engines
    /\ file_batch = Loaded /\ resolution = Decided /\ run = <<>>
    /\ request = [q \in Requests |-> New]
    /\ loop = Free

Next ==
    \/ \E q \in Requests : Begin(q) \/ Progress(q) \/ StatementFails(q) \/ CommitFails(q)
    \/ Restart

\* Threads run, the loop serves what is ready, a statement that may run does
\* and a wait that has a limit or goes round in a circle is broken.
Fairness == \A q \in Requests : WF_vars(Progress(q))

Spec == Init /\ [][Next]_vars /\ Fairness

----------------------------------------------------------------------------
(* Properties.                                                             *)

\* Two requests were open at the same time.
Overlap(p, q) == {p, q} \subseteq Begun /\ p \notin request[q].after /\ q \notin request[p].after

\* The request the current step commits, as a set of at most one.
CommittedNow ==
    IF tables' = tables THEN {}
    ELSE {q \in Requests : At(q, "committing") /\ request'[q].at = "ended"}

\* Some other request of one of these kinds overlaps this one.
Raced(q, kinds) == \E p \in Requests \ {q} : Kind(p) \in kinds /\ Overlap(p, q)

\* Uploads of one source took turns.
UploadsSerial ==
    \A p, q \in Requests :
        (/\ p # q /\ Kind(p) = "upload" /\ Kind(q) = "upload"
         /\ Asked[p].source = Asked[q].source) => ~Overlap(p, q)

\* Decisions took turns.
DecisionsSerial ==
    \A p, q \in Requests :
        (p # q /\ Kind(p) = "decision" /\ Kind(q) = "decision") => ~Overlap(p, q)

\* A lock has one owner, the loop one upload on its way to an answer, and
\* nobody who is done or only reading keeps a lock.
TypeOK ==
    /\ engine \in Engines
    /\ \A q \in Requests :
          /\ request[q].locks # {} => request[q].at \in Writes \cup {"find", "answer", "answered", "committing"}
          /\ \A p \in Requests \ {q} : request[p].locks \cap request[q].locks = {}
          /\ q = loop <=> Kind(q) = "upload" /\ request[q].at \in {"previous", "insert", "mark", "answer"}

\* The same bytes are stored once for a source, even when uploads race
\* (TR-103): the index decides, whatever the check before it saw.
DigestsUnique ==
    \A i, j \in DOMAIN file_batch :
        <<file_batch[i].source, file_batch[i].content>> = <<file_batch[j].source, file_batch[j].content>>
            => i = j

\* Deliveries of one source that do not overlap in time keep the versions a
\* chain and the periods apart, whatever else races with them, fails or is
\* cut off (TR-104, TR-105).
SerialUploadsKeepTheChain ==
    UploadsSerial => Store!Files!VersionChain /\ Store!Files!PeriodsNeverClash

\* Two live decisions contradict each other only if the requests that made
\* them overlapped: one that began after the other had committed retired it.
ContradictionNeedsARace ==
    \A i, j \in DOMAIN resolution :
        (/\ i # j /\ Store!Live(resolution[i]) /\ Store!Live(resolution[j])
         /\ Store!Decisions!Contradicts(resolution[i], resolution[j]))
        => \E p, q \in Ended :
              /\ Kind(p) = "decision" /\ Kind(q) = "decision"
              /\ request[p].has.id = i /\ request[q].has.id = j /\ Overlap(p, q)

\* No run says two things of one stored row, even when a correction commits
\* while it reads (TR-509).
OneStatePerRecord ==
    \A k \in DOMAIN run : \A i, j \in run[k].items :
        <<i.batch, i.reference>> = <<j.batch, j.reference>> => i = j

\* The summary of a run adds up, as in Reconcile, unless uploads overlapped
\* it or each other: decisions and other runs cannot spoil it.
SummaryAddsUpUnlessRaced ==
    [][\A q \in CommittedNow :
          (Kind(q) = "run" /\ ~Raced(q, {"upload"}) /\ UploadsSerial) => Store!AddsUp(Store!NewRun')]_vars

\* A run that no decision and no other run overlapped reverses acceptances
\* and nothing else, if no two decisions overlapped each other before.
UnracedRunReversesAcceptances ==
    [][\A q \in CommittedNow :
          (Kind(q) = "run" /\ ~Raced(q, {"decision", "run"}) /\ DecisionsSerial) =>
              \A i \in DOMAIN resolution :
                  resolution'[i] # resolution[i] =>
                      resolution[i].kind = "accept_unmatched" /\ Store!Live(resolution[i])]_vars

\* Whatever races, fails or restarts, what is stored stays: no row goes, no
\* superseded delivery is current again and no revoked decision live again.
NothingUndone ==
    [][tables' # tables =>
       /\ DOMAIN file_batch \subseteq DOMAIN file_batch'
       /\ DOMAIN resolution \subseteq DOMAIN resolution'
       /\ \A b \in DOMAIN file_batch :
             /\ [file_batch'[b] EXCEPT !.superseded_by = file_batch[b].superseded_by] = file_batch[b]
             /\ file_batch'[b].superseded_by = None => file_batch[b].superseded_by = None
       /\ \A i \in DOMAIN resolution :
             /\ [resolution'[i] EXCEPT !.stamp = resolution[i].stamp] = resolution[i]
             /\ Store!Live(resolution'[i]) => Store!Live(resolution[i])]_vars

\* As long as no two requests have overlapped, the service is the one of
\* Reconcile: every commit is one of its atomic actions.
SerialRequestsAreAtomic ==
    [][(tables' # tables /\ \A p, q \in Begun : p # q => ~Overlap(p, q)) => Store!Next]_vars

\* An upload waits, on the event loop, for a lock of a request whose commit
\* waits for the event loop.
LoopIsStuck ==
    \E q, p \in Requests : loop = q /\ engine = "postgresql" /\ WaitsFor(q, p) /\ At(p, "answered")

\* Every request ends: again and again nobody is left waiting, unless the
\* event loop waits for itself, which SQLite cannot make it do.
EveryRequestEnds == []<>(Open = {} \/ LoopIsStuck)

\* healthz answers as long as the process lives, whatever the database does.
HealthCheckAnswers == []<>(loop = Free)

=============================================================================
