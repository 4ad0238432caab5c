------------------------------- MODULE Ingest -------------------------------
(***************************************************************************)
(* Loading files (app/services/ingest.py and POST /files).                 *)
(*                                                                         *)
(* A delivery is refused when the same bytes were accepted before for the  *)
(* source, when its period partly overlaps one already loaded, or when it  *)
(* is not the CSV the source is configured to send, and lost when one of   *)
(* its rows cannot be stored; otherwise it becomes a new version of its    *)
(* period and the version it replaces is marked superseded.  Nothing       *)
(* stored is ever changed but that mark.                                   *)
(*                                                                         *)
(* One action is one request in one transaction.  A delivery that is not   *)
(* accepted rolls back: it is the stuttering step.  What the bytes of a    *)
(* file parse to is the constant Parsed; digests are taken to be           *)
(* collision-free.                                                         *)
(***************************************************************************)
EXTENDS Naturals, Sequences, FiniteSets

CONSTANTS Sources,     \* configured sources
          Periods,     \* the <<start, end>> an upload form may carry, in days
          Contents,    \* file contents, by digest
          RecordRow,   \* normalised rows; each has a reference
          Parsed,      \* what a content is, read in a source's format
          MaxBatches   \* bound: deliveries accepted

\* Not UTF-8, no header or a header that lacks a mapped column: not readable.
\* A number too long: not storable.  Otherwise the rows that normalise and
\* how many do not (Loading!Load).
ParsedFile ==
    [readable : BOOLEAN, storable : BOOLEAN, records : Seq(RecordRow), errors : Nat]

ASSUME PeriodsAssumption == Periods \subseteq Nat \X Nat
ASSUME ParsedAssumption == \A source \in Sources, content \in Contents :
                              Parsed[source][content] \in ParsedFile
ASSUME MaxBatchesAssumption == MaxBatches \in Nat

VARIABLE file_batch    \* the accepted deliveries; a batch's id is its index

vars == <<file_batch>>

None == 0              \* superseded_by_id is NULL

FileBatch == [source        : Sources,
              period        : Periods,
              content       : Contents,
              version       : Nat \ {0},
              superseded_by : Nat,
              records       : Seq(RecordRow),
              errors        : Nat]

ReferencesIn(records) == {records[n].reference : n \in DOMAIN records}

SamePeriod(batch, source, period) ==
    batch.source = source /\ batch.period = period

\* A bug the checks must catch: only the current version is compared.
DuplicateOfCurrent(source, content) ==
    \E i \in DOMAIN file_batch :
        /\ file_batch[i].source = source
        /\ file_batch[i].content = content
        /\ file_batch[i].superseded_by = None

\* The same bytes were accepted for this source, whatever became of them.
Duplicate(source, content) ==
    \E i \in DOMAIN file_batch :
        file_batch[i].source = source /\ file_batch[i].content = content

\* A bug the checks must catch: periods that share a boundary day do not meet.
StrictlyOverlaps(one, other) == one[1] < other[2] /\ one[2] > other[1]

Overlaps(one, other) == one[1] <= other[2] /\ one[2] >= other[1]

\* Exact match or no overlap; anything between is refused.
PartlyOverlaps(source, period) ==
    \E i \in DOMAIN file_batch :
        /\ file_batch[i].source = source
        /\ Overlaps(file_batch[i].period, period)
        /\ file_batch[i].period # period

\* A bug the checks must catch: the form's dates are not compared.
AnyPeriod(period) == TRUE

\* The upload form refuses a period that ends before it starts.
ValidPeriod(period) == period[1] <= period[2]

\* A bug the checks must catch: any earlier version is taken for current.
AnyBatch(source, period) ==
    {i \in DOMAIN file_batch : SamePeriod(file_batch[i], source, period)}

\* The rows _current_batch's query selects; the code takes the first one.
CurrentBatch(source, period) ==
    {i \in DOMAIN file_batch :
        /\ SamePeriod(file_batch[i], source, period)
        /\ file_batch[i].superseded_by = None}

\* A bug the checks must catch: the old version's rows make room.
PurgePrevious(previous, id) ==
    [i \in DOMAIN file_batch |->
        IF i = previous THEN [file_batch[i] EXCEPT !.superseded_by = id, !.records = <<>>]
        ELSE file_batch[i]]

\* The batches once the previous version, if any, points at the new one.
MarkSuperseded(previous, id) ==
    [i \in DOMAIN file_batch |->
        IF i = previous THEN [file_batch[i] EXCEPT !.superseded_by = id]
        ELSE file_batch[i]]

NewBatch(source, period, content, previous) ==
    LET file == Parsed[source][content] IN
    [source        |-> source,
     period        |-> period,
     content       |-> content,
     version       |-> IF previous = None THEN 1 ELSE file_batch[previous].version + 1,
     superseded_by |-> None,
     records       |-> file.records,
     errors        |-> file.errors]

\* upload_file and ingest_file: the whole request.
UploadFile(source, period, content) ==
    /\ Len(file_batch) < MaxBatches
    /\ Parsed[source][content].readable /\ Parsed[source][content].storable
    /\ ValidPeriod(period)
    /\ ~Duplicate(source, content)
    /\ ~PartlyOverlaps(source, period)
    /\ LET current == CurrentBatch(source, period) IN
       \E previous \in IF current = {} THEN {None} ELSE current :
          file_batch' = Append(MarkSuperseded(previous, Len(file_batch) + 1),
                               NewBatch(source, period, content, previous))

Init == file_batch = <<>>

Next == \E source \in Sources, period \in Periods, content \in Contents :
            UploadFile(source, period, content)

Spec == Init /\ [][Next]_vars

----------------------------------------------------------------------------
(* What the reconciler reads back.                                         *)

SupersededBatches(source, period) ==
    {i \in DOMAIN file_batch :
        /\ SamePeriod(file_batch[i], source, period)
        /\ file_batch[i].superseded_by # None}

\* A bug the checks must catch: only the version just replaced is consulted.
WithdrawnSincePrevious(source, period) ==
    UNION {ReferencesIn(file_batch[i].records) \ ReferencesIn(file_batch[j].records) :
             i \in {k \in SupersededBatches(source, period) :
                       file_batch[k].superseded_by \in CurrentBatch(source, period)},
             j \in CurrentBatch(source, period)}

\* References some earlier version had and the current one lacks
\* (withdrawn_references).
WithdrawnReferences(source, period) ==
    LET ever == UNION {ReferencesIn(file_batch[i].records) :
                          i \in SupersededBatches(source, period)}
    IN  UNION {ever \ ReferencesIn(file_batch[current].records) :
                  current \in CurrentBatch(source, period)}

\* The batch accepted last.
Latest == file_batch[Len(file_batch)]

\* What the analyst was told was withdrawn when it was accepted
\* (IngestResult.withdrawn_references).
ReportedWithdrawn ==
    UNION {ReferencesIn(file_batch[previous].records) \ ReferencesIn(Latest.records) :
              previous \in {i \in DOMAIN file_batch :
                               file_batch[i].superseded_by = Len(file_batch)}}

----------------------------------------------------------------------------
(* Properties.                                                             *)

\* The table holds batches of the right shape, each for a real period, with
\* the rows its bytes parse to.
TypeOK ==
    /\ file_batch \in Seq(FileBatch)
    /\ Len(file_batch) <= MaxBatches
    /\ \A i \in DOMAIN file_batch :
          LET batch == file_batch[i] IN
          /\ batch.period[1] <= batch.period[2]
          /\ batch.records = Parsed[batch.source][batch.content].records
          /\ batch.errors = Parsed[batch.source][batch.content].errors

\* Numbered from 1 without a gap, each superseded by the next version of its
\* period, and only the last of them current.
Chained(batches) ==
    \A i \in DOMAIN batches :
        LET same(j) == SamePeriod(batches[j], batches[i].source, batches[i].period)
            next    == batches[i].superseded_by
        IN
        /\ next = None => \A j \in DOMAIN batches : same(j) => j <= i
        /\ next # None =>
              /\ next \in DOMAIN batches /\ next > i /\ same(next)
              /\ batches[next].version = batches[i].version + 1
              /\ \A j \in DOMAIN batches : same(j) => (j <= i \/ j >= next)
        /\ batches[i].version = 1 <=> \A j \in DOMAIN batches : same(j) => j >= i
        /\ \E head \in DOMAIN batches :
              head >= i /\ same(head) /\ batches[head].superseded_by = None

\* Of one source: equal periods, or no day in common.
Apart(batches) ==
    \A i, j \in DOMAIN batches :
        batches[i].source = batches[j].source =>
            \/ batches[i].period = batches[j].period
            \/ batches[i].period[2] < batches[j].period[1]
            \/ batches[j].period[2] < batches[i].period[1]

\* The versions of one period of one source form a chain: numbered from 1
\* without a gap, each superseded by the next, and only the last of them
\* current.  So what "current" means never depends on which row a query
\* returns (TR-105).
VersionChain == Chained(file_batch)

\* All the periods loaded for a source, superseded versions included, are
\* equal or have no day in common (TR-104): a file is always a complete
\* restatement of what it replaces.
PeriodsNeverClash == Apart(file_batch)

\* Batches are appended and their rows never change; at most a current one
\* becomes superseded, once (TR-501).
BatchesImmutable ==
    [][/\ Len(file_batch') >= Len(file_batch)
       /\ \A i \in DOMAIN file_batch :
             \/ file_batch'[i] = file_batch[i]
             \/ /\ file_batch[i].superseded_by = None
                /\ file_batch'[i] = [file_batch[i] EXCEPT !.superseded_by = Len(file_batch')]]_vars

\* The withdrawals reported upload by upload add up to the ones derived from
\* the whole history: a delivery adds exactly the references it reports and
\* clears exactly those it brings back, over any number of corrections.
WithdrawalsAddUp ==
    [][\A source \in Sources, period \in Periods :
          WithdrawnReferences(source, period)' =
             IF SamePeriod(Latest', source, period)
             THEN (WithdrawnReferences(source, period) \cup ReportedWithdrawn')
                     \ ReferencesIn(Latest'.records)
             ELSE WithdrawnReferences(source, period)]_vars

=============================================================================
