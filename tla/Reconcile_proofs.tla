-------------------------- MODULE Reconcile_proofs --------------------------
(***************************************************************************)
(* What the service keeps while files, decisions and runs interleave, for  *)
(* any sources, contents, identities and bounds.                           *)
(***************************************************************************)
EXTENDS Reconcile, Matching_proofs, FiniteSetTheorems, TLAPS

\* The theorems about the two tables, about the tables of this module.
Batches == INSTANCE Ingest_proofs
Rows    == INSTANCE Resolutions_proofs

\* The definitions by which an upload of the one is an upload of the other.
LEMMA SameUpload ==
    ASSUME NEW source, NEW period, NEW content, Files!UploadFile(source, period, content)
    PROVE  Batches!UploadFile(source, period, content)
  BY DEF Files!UploadFile, Files!Duplicate, Files!PartlyOverlaps, Files!Overlaps,
         Files!ValidPeriod, Files!CurrentBatch, Files!MarkSuperseded, Files!NewBatch,
         Files!SamePeriod, Files!None,
         Batches!UploadFile, Batches!Duplicate, Batches!PartlyOverlaps, Batches!Overlaps,
         Batches!ValidPeriod, Batches!CurrentBatch, Batches!MarkSuperseded, Batches!NewBatch,
         Batches!SamePeriod, Batches!None

LEMMA IngestAssumptions ==
    Batches!PeriodsAssumption /\ Batches!ParsedAssumption /\ Batches!MaxBatchesAssumption
  BY TablesAssumption
     DEF Batches!PeriodsAssumption, Batches!ParsedAssumption, Batches!MaxBatchesAssumption,
         Files!ParsedFile, Batches!ParsedFile

LEMMA ResolutionsAssumptions ==
    Rows!IdentityAssumption /\ Rows!NoRecordAssumption /\ Rows!MaxResolutionsAssumption
  BY TablesAssumption, NoRecordAssumption
     DEF RecordKey, Rows!IdentityAssumption, Rows!NoRecordAssumption, Rows!MaxResolutionsAssumption

\* The deliveries of a period, in the order they came, have rising versions.
Rising ==
    \A i, j \in DOMAIN file_batch :
        i < j /\ Files!SamePeriod(file_batch[j], file_batch[i].source, file_batch[i].period)
            => file_batch[i].version < file_batch[j].version

FilesInv == Batches!TypeOK /\ Batches!VersionChain /\ Rising

LEMMA FileRows ==
    ASSUME FilesInv
    PROVE  /\ Len(file_batch) \in Nat /\ DOMAIN file_batch = 1..Len(file_batch)
           /\ \A i \in DOMAIN file_batch :
                 /\ file_batch[i] \in Batches!FileBatch
                 /\ file_batch[i].version \in Nat
<1>1. file_batch \in Seq(Batches!FileBatch)
  BY DEF FilesInv, Batches!TypeOK
<1>2. \A i \in DOMAIN file_batch : file_batch[i] \in Batches!FileBatch
  BY <1>1
<1>3. \A batch \in Batches!FileBatch : batch.version \in Nat
  BY DEF Batches!FileBatch
<1> QED
  BY <1>1, <1>2, <1>3

\* All that reading them takes, whatever ids they have: rows of the right
\* shape, with finitely many ids, in chains.
FilesStored ==
    /\ \E last \in Nat : DOMAIN file_batch \subseteq 0..last
    /\ \A i \in DOMAIN file_batch : file_batch[i] \in Batches!FileBatch
    /\ Batches!VersionChain
    /\ Rising

LEMMA FilesKept == FilesInv => FilesStored
<1> SUFFICES ASSUME FilesInv PROVE FilesStored
  OBVIOUS
<1>1. Len(file_batch) \in Nat /\ DOMAIN file_batch \subseteq 0..Len(file_batch)
  BY FileRows
<1> QED
  BY <1>1, FileRows DEF FilesStored, FilesInv

LEMMA StoredRows ==
    ASSUME FilesStored, NEW i \in DOMAIN file_batch
    PROVE  i \in Nat /\ file_batch[i].version \in Nat
<1>1. \A batch \in Batches!FileBatch : batch.version \in Nat
  BY DEF Batches!FileBatch
<1> QED
  BY <1>1 DEF FilesStored

\* What an upload does to the table.
LEMMA UploadRows ==
    ASSUME FilesInv, NEW source \in Sources, NEW period \in Periods, NEW content \in Contents,
           Upload(source, period, content)
    PROVE  \E previous \in Nat : Batches!Accepted(source, period, content, previous)
<1>1. Batches!UploadFile(source, period, content)
  BY SameUpload DEF Upload
<1> QED
  BY <1>1, IngestAssumptions, Batches!UploadBatches DEF FilesInv

LEMMA FilesUpload ==
    ASSUME FilesInv, NEW source \in Sources, NEW period \in Periods, NEW content \in Contents,
           Upload(source, period, content)
    PROVE  FilesInv'
<1> DEFINE last == Len(file_batch) + 1
           same(i, j) == /\ file_batch[j].source = file_batch[i].source
                         /\ file_batch[j].period = file_batch[i].period
<1>1. Batches!TypeOK' /\ Batches!VersionChain'
  <2>1. Batches!Next
    BY SameUpload DEF Upload, Batches!Next
  <2> QED
    BY <2>1, IngestAssumptions, Batches!TypeNext, Batches!ChainNext DEF FilesInv
<1>2. PICK previous \in Nat : Batches!Accepted(source, period, content, previous)
  BY UploadRows
<1>3. /\ previous = 0 => Batches!CurrentBatch(source, period) = {}
      /\ previous # 0 => previous \in Batches!CurrentBatch(source, period)
      /\ DOMAIN file_batch' = DOMAIN file_batch \cup {last}
      /\ file_batch'[last] = Batches!NewBatch(source, period, content, previous)
      /\ \A i \in DOMAIN file_batch :
            file_batch'[i] = IF i = previous
                             THEN [file_batch[i] EXCEPT !.superseded_by = last]
                             ELSE file_batch[i]
  BY <1>2 DEF Batches!Accepted, Batches!None
<1>4. /\ file_batch'[last].source = source /\ file_batch'[last].period = period
      /\ file_batch'[last].version = IF previous = 0 THEN 1 ELSE file_batch[previous].version + 1
  BY <1>3 DEF Batches!NewBatch, Batches!None
<1>5. \A i \in DOMAIN file_batch : /\ file_batch'[i].source = file_batch[i].source
                                   /\ file_batch'[i].period = file_batch[i].period
                                   /\ file_batch'[i].version = file_batch[i].version
  <2> SUFFICES ASSUME NEW i \in DOMAIN file_batch
               PROVE  /\ file_batch'[i].source = file_batch[i].source
                      /\ file_batch'[i].period = file_batch[i].period
                      /\ file_batch'[i].version = file_batch[i].version
    OBVIOUS
  <2>1. file_batch[i] \in Batches!FileBatch
    BY FileRows
  <2> QED
    BY <1>3, <2>1 DEF Batches!FileBatch
<1>6. ASSUME NEW i \in DOMAIN file_batch, file_batch[i].source = source, file_batch[i].period = period
      PROVE  previous # 0 /\ previous \in DOMAIN file_batch /\ file_batch[i].version <= file_batch[previous].version
  <2>1. PICK head \in DOMAIN file_batch :
            /\ head >= i /\ same(i, head) /\ file_batch[head].superseded_by = 0
    BY DEF FilesInv, Batches!VersionChain, Batches!Chained, Batches!SamePeriod, Batches!None
  <2>2. head \in Batches!CurrentBatch(source, period)
    BY <1>6, <2>1 DEF Batches!CurrentBatch, Batches!SamePeriod, Batches!None
  <2>3. previous \in Batches!CurrentBatch(source, period) /\ previous # 0
    BY <1>3, <2>2
  <2>4. /\ previous \in DOMAIN file_batch
        /\ file_batch[previous].source = source /\ file_batch[previous].period = period
        /\ file_batch[previous].superseded_by = 0
    BY <2>3 DEF Batches!CurrentBatch, Batches!SamePeriod, Batches!None
  <2>5. i <= previous
    BY <1>6, <2>4 DEF FilesInv, Batches!VersionChain, Batches!Chained, Batches!SamePeriod, Batches!None
  <2>6. i = previous \/ file_batch[i].version < file_batch[previous].version
    BY <1>6, <2>4, <2>5, FileRows DEF FilesInv, Rising, Files!SamePeriod
  <2> QED
    BY <2>3, <2>4, <2>6, FileRows
<1>7. Rising'
  <2> SUFFICES ASSUME NEW i \in DOMAIN file_batch', NEW j \in DOMAIN file_batch', i < j,
                      file_batch'[j].source = file_batch'[i].source,
                      file_batch'[j].period = file_batch'[i].period
               PROVE  file_batch'[i].version < file_batch'[j].version
    BY DEF Rising, Files!SamePeriod
  <2>1. i \in DOMAIN file_batch
    BY <1>3, FileRows
  <2>2. CASE j \in DOMAIN file_batch
    BY <1>5, <2>1, <2>2 DEF FilesInv, Rising, Files!SamePeriod
  <2>3. CASE j = last
    BY <1>4, <1>5, <1>6, <2>1, <2>3, FileRows
  <2> QED
    BY <1>3, <2>2, <2>3
<1> QED
  BY <1>1, <1>7 DEF FilesInv

LEMMA FilesNext == FilesInv /\ [Next]_vars => FilesInv'
<1> SUFFICES ASSUME FilesInv, [Next]_vars PROVE FilesInv'
  OBVIOUS
<1>1. CASE \E source \in Sources, period \in Periods, content \in Contents :
              Upload(source, period, content)
  BY <1>1, FilesUpload
<1>2. CASE UNCHANGED file_batch
  BY <1>2 DEF FilesInv, Rising, Batches!TypeOK, Batches!VersionChain, Batches!Chained, Files!SamePeriod
<1> QED
  BY <1>1, <1>2 DEF Next, vars, CreateResolution, StartRun

LEMMA FilesInductive == Spec => []FilesInv
<1>1. Init => FilesInv
  BY IngestAssumptions
     DEF Init, FilesInv, Rising, Batches!TypeOK, Batches!VersionChain, Batches!Chained, Batches!MaxBatchesAssumption
<1> QED
  BY <1>1, FilesNext, PTL DEF Spec

----------------------------------------------------------------------------
(* The decisions.                                                          *)

\* A run leaves the decisions in their places and at most stamps some.
LEMMA RunStamps ==
    ASSUME Rows!TypeOK, NEW L, NEW R, NEW period, StartRun(L, R, period)
    PROVE  /\ resolution' \in Seq(Rows!Resolution) /\ Len(resolution') = Len(resolution)
           /\ DOMAIN resolution' = DOMAIN resolution
           /\ \A i \in DOMAIN resolution :
                 /\ resolution'[i].kind = resolution[i].kind
                 /\ resolution'[i].left = resolution[i].left
                 /\ resolution'[i].right = resolution[i].right
                 /\ resolution'[i].stamp = "live" => resolution'[i] = resolution[i]
<1>1. PICK revoked :
         resolution' = [i \in DOMAIN resolution |->
                          IF i \in revoked THEN [resolution[i] EXCEPT !.stamp = "withdrawn"]
                          ELSE resolution[i]]
  BY DEF StartRun
<1>2. /\ resolution \in Seq(Rows!Resolution) /\ Len(resolution) \in Nat
      /\ DOMAIN resolution = 1..Len(resolution)
      /\ \A i \in DOMAIN resolution : resolution[i] \in Rows!Resolution
  BY DEF Rows!TypeOK
<1>3. \A row \in Rows!Resolution :
         /\ [row EXCEPT !.stamp = "withdrawn"] \in Rows!Resolution
         /\ [row EXCEPT !.stamp = "withdrawn"].kind = row.kind
         /\ [row EXCEPT !.stamp = "withdrawn"].left = row.left
         /\ [row EXCEPT !.stamp = "withdrawn"].right = row.right
         /\ [row EXCEPT !.stamp = "withdrawn"].stamp = "withdrawn"
  BY DEF Rows!Resolution, Rows!Stamp
<1>4. \A i \in 1..Len(resolution) : resolution'[i] \in Rows!Resolution
  BY <1>1, <1>2, <1>3
<1>5. resolution' \in Seq(Rows!Resolution) /\ Len(resolution') = Len(resolution)
  BY <1>1, <1>2, <1>4
<1> QED
  BY <1>1, <1>2, <1>3, <1>5

LEMMA DecisionsNext ==
    Rows!TypeOK /\ Rows!NoContradiction /\ [Next]_vars => Rows!TypeOK' /\ Rows!NoContradiction'
<1> SUFFICES ASSUME Rows!TypeOK, Rows!NoContradiction, [Next]_vars
             PROVE  Rows!TypeOK' /\ Rows!NoContradiction'
  OBVIOUS
<1>1. ASSUME NEW left \in Identity, NEW right \in Identity \cup {NoRecord},
             CreateResolution(left, right)
      PROVE  Rows!Next
  BY <1>1 DEF CreateResolution, Decisions!ManualMatch, Decisions!RejectSuggestion,
              Decisions!AcceptUnmatched, Decisions!Record, Decisions!Row, Decisions!Superseded,
              Decisions!Contradicts, Decisions!IdentitiesOf, Decisions!Live,
              Rows!Next, Rows!ManualMatch, Rows!RejectSuggestion, Rows!AcceptUnmatched,
              Rows!Record, Rows!Row, Rows!Superseded, Rows!Contradicts, Rows!IdentitiesOf,
              Rows!Live
<1>2. CASE Rows!Next \/ UNCHANGED resolution
  BY <1>2, ResolutionsAssumptions, Rows!TypeNext, Rows!NoContradictionNext DEF Rows!vars
<1>3. ASSUME NEW L, NEW R, NEW period, StartRun(L, R, period)
      PROVE  Rows!TypeOK' /\ Rows!NoContradiction'
  <2>1. Rows!TypeOK'
    BY <1>3, RunStamps DEF Rows!TypeOK
  <2>2. Rows!NoContradiction'
    BY <1>3, RunStamps DEF Rows!NoContradiction, Rows!Live
  <2> QED
    BY <2>1, <2>2
<1> QED
  BY <1>1, <1>2, <1>3 DEF Next, vars, Upload

\* The decisions a run is given never contradict each other, although runs
\* revoke acceptances of their own accord: what Resolutions proves of the
\* analysts' requests holds of the whole service.
THEOREM DecisionsNeverContradict == Spec => []Decisions!NoContradiction
<1>1. Init => Rows!TypeOK /\ Rows!NoContradiction
  BY ResolutionsAssumptions
     DEF Init, Rows!TypeOK, Rows!NoContradiction, Rows!MaxResolutionsAssumption
<1>2. Rows!NoContradiction => Decisions!NoContradiction
  BY DEF Rows!NoContradiction, Rows!Live, Rows!Contradicts, Rows!IdentitiesOf,
         Decisions!NoContradiction, Decisions!Live, Decisions!Contradicts, Decisions!IdentitiesOf
<1> QED
  BY <1>1, <1>2, DecisionsNext, PTL DEF Spec

----------------------------------------------------------------------------
(* What a run reads.                                                       *)

DecisionsInv == Rows!TypeOK /\ Rows!NoContradiction

\* The rows of the table of decisions.
LEMMA DecisionsStored ==
    ASSUME Rows!TypeOK
    PROVE  /\ Len(resolution) \in Nat /\ DOMAIN resolution = 1..Len(resolution)
           /\ \A i \in DOMAIN resolution :
                 /\ resolution[i].kind \in {"manual_match", "accept_unmatched", "reject_suggestion"}
                 /\ resolution[i].left \in RecordKey
                 /\ resolution[i].right \in RecordKey \cup {NoRecord}
                 /\ resolution[i].right = NoRecord <=> resolution[i].kind = "accept_unmatched"
<1>1. resolution \in Seq(Rows!Resolution)
  BY DEF Rows!TypeOK
<1>2. \A i \in DOMAIN resolution : resolution[i] \in Rows!Resolution
  BY <1>1
<1>3. \A row \in Rows!Resolution :
         /\ row.kind \in {"manual_match", "accept_unmatched", "reject_suggestion"}
         /\ row.left \in RecordKey /\ row.right \in RecordKey \cup {NoRecord}
  BY TablesAssumption DEF Rows!Resolution, Rows!Kind
<1> QED
  BY <1>1, <1>2, <1>3 DEF Rows!TypeOK

\* The decisions given to a run.
LEMMA DecisionsRead ==
    ASSUME Rows!TypeOK, NEW L, NEW R, NEW period, NEW prior, prior = LoadPriorResolutions(L, R, period)
    PROVE  /\ \A i : i \in DOMAIN prior <=>
                    i \in DOMAIN resolution /\ Decisions!AboutSources(resolution[i], L, R)
           /\ \A i \in DOMAIN prior :
                 /\ prior[i] = Decisions!Oriented(resolution[i], R)
                 /\ prior[i].kind = resolution[i].kind
                 /\ {prior[i].left, prior[i].right} = {resolution[i].left, resolution[i].right}
                 /\ resolution[i].kind = "accept_unmatched" => prior[i].left = resolution[i].left
<1>1. \A i \in DOMAIN resolution : resolution[i].right = NoRecord <=> resolution[i].kind = "accept_unmatched"
  BY DecisionsStored
<1>2. /\ \A i : i \in DOMAIN prior <=>
               i \in DOMAIN resolution /\ Decisions!AboutSources(resolution[i], L, R)
      /\ \A i \in DOMAIN prior : prior[i] = Decisions!Oriented(resolution[i], R)
  BY DEF LoadPriorResolutions, Decisions!PriorResolutions
<1>3. ASSUME NEW row, row.right = NoRecord <=> row.kind = "accept_unmatched"
      PROVE  LET decision == Decisions!Oriented(row, R) IN
             /\ decision.kind = row.kind
             /\ {decision.left, decision.right} = {row.left, row.right}
             /\ row.kind = "accept_unmatched" => decision.left = row.left
  BY <1>3 DEF Decisions!Oriented
<1> QED
  BY <1>1, <1>2, <1>3

LEMMA PriorAreDecisions ==
    ASSUME Rows!TypeOK, NEW L, NEW R, NEW period
    PROVE  AreDecisions(LoadPriorResolutions(L, R, period))
<1>0. PICK prior : prior = LoadPriorResolutions(L, R, period)
  OBVIOUS
<1>1. DOMAIN prior \subseteq DOMAIN resolution /\ DOMAIN resolution \subseteq Nat
  BY <1>0, DecisionsRead, DecisionsStored
<1>2. ASSUME NEW i \in DOMAIN prior
      PROVE  /\ prior[i].kind \in {"manual_match", "accept_unmatched", "reject_suggestion"}
             /\ prior[i].left \in RecordKey
             /\ IF prior[i].kind = "accept_unmatched" THEN prior[i].right = NoRecord
                ELSE prior[i].right \in RecordKey
  <2>1. /\ i \in DOMAIN resolution
        /\ prior[i] = Decisions!Oriented(resolution[i], R)
        /\ prior[i].kind = resolution[i].kind
    BY <1>0, <1>1, DecisionsRead
  <2>2. /\ resolution[i].kind \in {"manual_match", "accept_unmatched", "reject_suggestion"}
        /\ resolution[i].left \in RecordKey
        /\ resolution[i].right \in RecordKey \cup {NoRecord}
        /\ resolution[i].right = NoRecord <=> resolution[i].kind = "accept_unmatched"
    BY <2>1, DecisionsStored
  <2> QED
    BY <2>1, <2>2, NoRecordAssumption DEF Decisions!Oriented
<1> QED
  BY <1>0, <1>1, <1>2 DEF AreDecisions

\* The decisions given to a run do not contend, because those that stand do
\* not contradict each other.
LEMMA PriorIsCoherent ==
    ASSUME DecisionsInv, NEW L, NEW R, NEW period, NEW in, in.prior = LoadPriorResolutions(L, R, period)
    PROVE  Coherent(in)
<1>1. Rows!TypeOK
  BY DEF DecisionsInv
<1>2. PICK prior : prior = in.prior
  OBVIOUS
<1>3. prior = LoadPriorResolutions(L, R, period)
  BY <1>2
<1> SUFFICES ASSUME NEW i \in DOMAIN prior, NEW j \in DOMAIN prior, i # j,
                    "reject_suggestion" \notin {prior[i].kind, prior[j].kind}
             PROVE  {prior[i].left, prior[i].right} \cap {prior[j].left, prior[j].right}
                       \subseteq {NoRecord}
  BY <1>2 DEF Coherent
<1>4. \A k \in {i, j} :
         /\ k \in DOMAIN resolution /\ Decisions!AboutSources(resolution[k], L, R)
         /\ prior[k].kind = resolution[k].kind
         /\ {prior[k].left, prior[k].right} = {resolution[k].left, resolution[k].right}
  BY <1>1, <1>3, DecisionsRead
<1>5. ~Rows!Contradicts(resolution[i], resolution[j])
  BY <1>4 DEF DecisionsInv, Rows!NoContradiction, Rows!Live, Decisions!AboutSources, Decisions!Live
<1>6. Rows!IdentitiesOf(resolution[i]) \cap Rows!IdentitiesOf(resolution[j]) = {}
  BY <1>4, <1>5 DEF Rows!Contradicts
<1>7. \A k \in {i, j} : {resolution[k].left, resolution[k].right} \subseteq Rows!IdentitiesOf(resolution[k]) \cup {NoRecord}
  BY DEF Rows!IdentitiesOf
<1> QED
  BY <1>4, <1>6, <1>7

\* The rows of a delivery.
LEMMA RowsStored ==
    ASSUME FilesStored, NEW i \in DOMAIN file_batch
    PROVE  /\ file_batch[i].records \in Seq(RecordRow)
           /\ DOMAIN file_batch[i].records = 1..Len(file_batch[i].records)
           /\ Len(file_batch[i].records) \in Nat /\ file_batch[i].errors \in Nat
           /\ \A n \in DOMAIN file_batch[i].records : file_batch[i].records[n] \in RecordRow
<1>1. file_batch[i] \in Batches!FileBatch
  BY DEF FilesStored
<1>2. file_batch[i].records \in Seq(RecordRow) /\ file_batch[i].errors \in Nat
  BY <1>1 DEF Batches!FileBatch
<1> QED
  BY <1>2

\* The current deliveries of a source and period: one, or none.
LEMMA CurrentIsOne ==
    ASSUME FilesStored, NEW source, NEW period
    PROVE  \A b \in Current(source, period) :
              /\ b \in DOMAIN file_batch /\ Files!SamePeriod(file_batch[b], source, period)
              /\ b = CurrentFile(source, period)
<1>1. \A b \in Current(source, period) :
         /\ b \in DOMAIN file_batch /\ Files!SamePeriod(file_batch[b], source, period)
         /\ file_batch[b].superseded_by = 0
  BY DEF Current, Files!CurrentBatch, Files!None
<1>2. \A b, c \in Current(source, period) : b = c
  <2> SUFFICES ASSUME NEW b \in Current(source, period), NEW c \in Current(source, period)
               PROVE  b = c
    OBVIOUS
  <2>1. b <= c /\ c <= b
    BY <1>1 DEF FilesStored, Batches!VersionChain, Batches!Chained, Batches!SamePeriod, Files!SamePeriod, Batches!None
  <2> QED
    BY <1>1, <2>1, StoredRows
<1> QED
  BY <1>1, <1>2 DEF CurrentFile

\* A position of a current row.
LEMMA RecordsRead ==
    ASSUME NEW source, NEW period
    PROVE  /\ \A b \in Current(source, period) : \A n \in DOMAIN file_batch[b].records :
                 <<b, n>> \in CurrentRecords(source, period)
           /\ \A p \in CurrentRecords(source, period) :
                 /\ p[1] \in Current(source, period) /\ p[2] \in DOMAIN file_batch[p[1]].records
                 /\ p = <<p[1], p[2]>>
                 /\ RowAt(p) = file_batch[p[1]].records[p[2]]
  BY DEF CurrentRecords, RowAt

LEMMA SideIsSide ==
    ASSUME FilesStored, NEW source, NEW period, Unambiguous(source, period)
    PROVE  IsSide(Side(source, period), source)
<1>1. \A r \in Side(source, period) : \E p \in CurrentRecords(source, period) : r = Normalized(source, RowAt(p))
  BY DEF Side
<1>2. ASSUME NEW p \in CurrentRecords(source, period) PROVE RowAt(p) \in RecordRow
  <2>1. p[1] \in Current(source, period) /\ p[2] \in DOMAIN file_batch[p[1]].records
    BY RecordsRead
  <2>2. p[1] \in DOMAIN file_batch
    BY <2>1, CurrentIsOne
  <2> QED
    BY <2>1, <2>2, RecordsRead, RowsStored
<1>3. ASSUME NEW r \in Side(source, period)
      PROVE  /\ r.source = source /\ r.reference \in References /\ r.cancelled \in BOOLEAN
             /\ r.bucket \in Buckets /\ r.time \in Times /\ r.quantity \in Quantities
  <2>1. PICK p \in CurrentRecords(source, period) : r = Normalized(source, RowAt(p))
    BY <1>1
  <2>2. /\ RowAt(p).reference \in References /\ RowAt(p).bucket \in Buckets
        /\ RowAt(p).time \in Times /\ RowAt(p).quantity \in Quantities
    BY <1>2, TablesAssumption
  <2>3. r.cancelled = (RowAt(p).status = "cancelled")
    BY <2>1 DEF Normalized
  <2>4. r.cancelled \in BOOLEAN
    BY <2>3
  <2> QED
    BY <2>1, <2>2, <2>4 DEF Normalized
<1>4. ASSUME NEW r \in Side(source, period), NEW s \in Side(source, period), r.reference = s.reference
      PROVE  r = s
  <2>1. PICK p \in CurrentRecords(source, period) : r = Normalized(source, RowAt(p))
    BY <1>1
  <2>2. PICK q \in CurrentRecords(source, period) : s = Normalized(source, RowAt(q))
    BY <1>1
  <2>3. RowAt(p).reference = RowAt(q).reference
    BY <1>4, <2>1, <2>2 DEF Normalized
  <2>4. p = q
    BY <2>3 DEF Unambiguous
  <2> QED
    BY <2>1, <2>2, <2>4
<1> QED
  BY <1>3, <1>4 DEF IsSide

\* What a run reads is the input of a run, and its decisions do not contend.
LEMMA RunReads ==
    ASSUME FilesInv, DecisionsInv, NEW L, NEW R, NEW period, <<L, R>> \in SourcePairs,
           Unambiguous(L, period), Unambiguous(R, period)
    PROVE  IsInput(RunInput(L, R, period)) /\ Coherent(RunInput(L, R, period))
<1>1. L \in Sources /\ R \in Sources /\ L # R
  <2>1. <<L, R>> \in Sources \X Sources /\ <<L, R>>[1] # <<L, R>>[2]
    BY SourcePairsAssumption
  <2> QED
    BY <2>1
<1>2. AreDecisions(LoadPriorResolutions(L, R, period))
  BY PriorAreDecisions DEF DecisionsInv
<1>3. RunInput(L, R, period).prior = LoadPriorResolutions(L, R, period)
  BY DEF RunInput
<1>4. IsSide(Side(L, period), L) /\ IsSide(Side(R, period), R)
  BY SideIsSide, FilesKept
<1> QED
  BY <1>1, <1>2, <1>3, <1>4, PriorIsCoherent DEF IsInput, RunInput

----------------------------------------------------------------------------
(* Where matching leaves the records, and the lines a run writes of it.    *)

\* The state a run gives a record of its input.
Ends(in, r, state) ==
    \/ state = "excluded" /\ r \in Cancelled(in.left) \cup Cancelled(in.right)
    \/ state = "status_disagreement" /\ r \in StatusDisagreements(in)
    \/ state = "accepted_unmatched" /\ r \in AcceptedUnmatched(in)
    \/ state = "unmatched" /\ r \in Unmatched(in)
    \/ state = "suggested" /\ r \in Suggested(in)
    \/ \E p \in Pairs(in) : r \in {p[1], p[2]} /\ state = Verdict(FieldDiffs(p[1], p[2]))

LEMMA Verdicts ==
    ASSUME NEW diffs
    PROVE  Verdict(diffs) \in {"break", "agreed_with_drift", "agreed"}
  BY DEF Verdict

\* It is one of the states of the partition.
LEMMA EndStates ==
    ASSUME NEW in, NEW r, NEW state, Ends(in, r, state)
    PROVE  /\ state \in RecordState /\ state \notin {"withdrawn", "rejected_row"}
           /\ state \in {"break", "agreed_with_drift", "agreed"} <=>
                 \E p \in Pairs(in) : r \in {p[1], p[2]} /\ state = Verdict(FieldDiffs(p[1], p[2]))
<1>1. CASE \E p \in Pairs(in) : r \in {p[1], p[2]} /\ state = Verdict(FieldDiffs(p[1], p[2]))
  BY <1>1, Verdicts DEF RecordState
<1>2. CASE state \in {"excluded", "status_disagreement", "accepted_unmatched", "unmatched", "suggested"}
  BY <1>2, Verdicts DEF RecordState
<1> QED
  BY <1>1, <1>2 DEF Ends

\* Every record of the input has one.
LEMMA EndsOnce ==
    ASSUME NEW in, IsInput(in), NEW r \in in.left \cup in.right
    PROVE  \E state : \A other : Ends(in, r, other) <=> other = state
<1> DEFINE named(outcome) ==
        IF outcome[1] = "paired" THEN Verdict(FieldDiffs(outcome[2][1], outcome[2][2])) ELSE outcome[1]
<1>1. PICK outcome : Outcomes(in, r) = {outcome}
  BY PartitionHolds
<1>2. ASSUME NEW state, Ends(in, r, state)
      PROVE  \E o \in Outcomes(in, r) : named(o) = state
  <2>1. CASE \E p \in Pairs(in) : r \in {p[1], p[2]} /\ state = Verdict(FieldDiffs(p[1], p[2]))
    <3>1. PICK p \in Pairs(in) : r \in {p[1], p[2]} /\ state = Verdict(FieldDiffs(p[1], p[2]))
      BY <2>1
    <3>2. <<"paired", p>> \in Outcomes(in, r)
      BY <3>1 DEF Outcomes
    <3> QED
      BY <3>1, <3>2
  <2>2. CASE state = "excluded" /\ r \in Cancelled(in.left) \cup Cancelled(in.right)
    <3>1. <<"excluded", r>> \in Outcomes(in, r)
      BY <2>2 DEF Outcomes
    <3> QED
      BY <2>2, <3>1
  <2>3. CASE state = "status_disagreement" /\ r \in StatusDisagreements(in)
    <3>1. <<"status_disagreement", r>> \in Outcomes(in, r)
      BY <2>3 DEF Outcomes
    <3> QED
      BY <2>3, <3>1
  <2>4. CASE state = "accepted_unmatched" /\ r \in AcceptedUnmatched(in)
    <3>1. <<"accepted_unmatched", r>> \in Outcomes(in, r)
      BY <2>4 DEF Outcomes
    <3> QED
      BY <2>4, <3>1
  <2>5. CASE state = "unmatched" /\ r \in Unmatched(in)
    <3>1. <<"unmatched", r>> \in Outcomes(in, r)
      BY <2>5 DEF Outcomes
    <3> QED
      BY <2>5, <3>1
  <2>6. CASE state = "suggested" /\ r \in Suggested(in)
    <3>1. <<"suggested", r>> \in Outcomes(in, r)
      BY <2>6 DEF Outcomes
    <3> QED
      BY <2>6, <3>1
  <2> HIDE DEF named
  <2> QED
    BY <1>2, <2>1, <2>2, <2>3, <2>4, <2>5, <2>6 DEF Ends
<1>3. ASSUME NEW o \in Outcomes(in, r)
      PROVE  Ends(in, r, named(o))
  <2>1. CASE \E p \in Pairs(in) : r \in {p[1], p[2]} /\ o = <<"paired", p>>
    BY <2>1 DEF Ends
  <2>2. CASE o = <<"excluded", r>> /\ r \in Cancelled(in.left) \cup Cancelled(in.right)
    BY <2>2 DEF Ends
  <2>3. CASE o = <<"status_disagreement", r>> /\ r \in StatusDisagreements(in)
    BY <2>3 DEF Ends
  <2>4. CASE o = <<"accepted_unmatched", r>> /\ r \in AcceptedUnmatched(in)
    BY <2>4 DEF Ends
  <2>5. CASE o = <<"unmatched", r>> /\ r \in Unmatched(in)
    BY <2>5 DEF Ends
  <2>6. CASE o = <<"suggested", r>> /\ r \in Suggested(in)
    BY <2>6 DEF Ends
  <2> HIDE DEF named
  <2> QED
    BY <2>1, <2>2, <2>3, <2>4, <2>5, <2>6 DEF Outcomes
<1> HIDE DEF named
<1> WITNESS named(outcome)
<1> QED
  BY <1>1, <1>2, <1>3

\* A record that has one is of the input, and one in play is available.
LEMMA EndsInPlay ==
    ASSUME NEW in, IsInput(in), NEW r, NEW state, Ends(in, r, state)
    PROVE  /\ r \in in.left \cup in.right
           /\ state \notin {"excluded", "status_disagreement"} =>
                 r \in Available(in, in.left) \cup Available(in, in.right)
<1>1. Available(in, in.left) \subseteq in.left /\ Available(in, in.right) \subseteq in.right
  BY AvailableRecords
<1>2. CASE state \in {"excluded", "status_disagreement"}
  <2>1. state \notin {"break", "agreed_with_drift", "agreed"}
    BY <1>2
  <2>2. r \in Cancelled(in.left) \cup Cancelled(in.right) \cup StatusDisagreements(in)
    BY <1>2, <2>1, Verdicts DEF Ends
  <2> QED
    BY <1>2, <2>2 DEF Cancelled, StatusDisagreements, DisagreeingWith, LiveIn
<1>3. CASE r \in AcceptedUnmatched(in) \cup Unmatched(in) \cup Suggested(in)
  BY <1>1, <1>3, OpenRecords
<1>4. CASE \E p \in Pairs(in) : r \in {p[1], p[2]}
  BY <1>1, <1>4, OneToOne
<1> QED
  BY <1>2, <1>3, <1>4 DEF Ends

\* The items of a run are the records of its input, each in its state.
LEMMA ItemsWritten ==
    ASSUME NEW in, IsInput(in), NEW period, NEW item
    PROVE  item \in RecordItems(MatchResult(in), period) <=>
              \E r \in in.left \cup in.right : \E state :
                 /\ Ends(in, r, state)
                 /\ item = Item(r.source, CurrentFile(r.source, period), r.reference, state)
<1> DEFINE written(r, state) == Item(r.source, CurrentFile(r.source, period), r.reference, state)
           result == MatchResult(in)
<1>1. /\ result.manual \cup result.reference = Pairs(in)
      /\ result.suggested = Suggested(in) /\ result.unmatched = Unmatched(in)
      /\ result.accepted_unmatched = AcceptedUnmatched(in)
      /\ result.status_disagreements = StatusDisagreements(in)
      /\ result.excluded = Cancelled(in.left) \cup Cancelled(in.right)
  BY DEF MatchResult, Pairs
<1>2. item \in RecordItems(result, period) <=>
         \/ \E r \in Cancelled(in.left) \cup Cancelled(in.right) : item = written(r, "excluded")
         \/ \E r \in StatusDisagreements(in) : item = written(r, "status_disagreement")
         \/ \E r \in AcceptedUnmatched(in) : item = written(r, "accepted_unmatched")
         \/ \E r \in Unmatched(in) : item = written(r, "unmatched")
         \/ \E r \in Suggested(in) : item = written(r, "suggested")
         \/ \E p \in Pairs(in) : \E r \in {p[1], p[2]} : item = written(r, Verdict(FieldDiffs(p[1], p[2])))
  <2> HIDE DEF result
  <2> QED
    BY <1>1 DEF RecordItems
<1> HIDE DEF written, result
<1>3. item \in RecordItems(result, period) <=> \E r, state : Ends(in, r, state) /\ item = written(r, state)
  BY <1>2 DEF Ends
<1> QED
  BY <1>3, EndsInPlay DEF written, result

----------------------------------------------------------------------------
(* The row of a run, and the decisions it stamps.                          *)

\* The row a run writes.
RunRow(L, R, period) ==
    LET result == MatchResult(RunInput(L, R, period))
        items  == RecordItems(result, period) \cup
                     WithdrawnItems(L, period) \cup WithdrawnItems(R, period)
    IN  [left      |-> L,
         right     |-> R,
         period    |-> period,
         files     |-> Len(file_batch),
         decisions |-> Len(resolution),
         pairs     |-> PairRows(result),
         items     |-> items,
         counts    |-> Counts(items, RejectedCount(L, period) + RejectedCount(R, period))]

LEMMA RunWrites ==
    ASSUME NEW L, NEW R, NEW period, StartRun(L, R, period)
    PROVE  /\ <<L, R>> \in SourcePairs
           /\ Unambiguous(L, period) /\ Unambiguous(R, period)
           /\ run' = Append(run, RunRow(L, R, period))
           /\ resolution' = [i \in DOMAIN resolution |->
                               IF i \in RevokedRows(MatchResult(RunInput(L, R, period)))
                               THEN [resolution[i] EXCEPT !.stamp = "withdrawn"]
                               ELSE resolution[i]]
           /\ file_batch' = file_batch
  BY DEF StartRun, RunRow

\* The row resolution_for finds for a record that a standing pairing or
\* acceptance is about.
LEMMA Governs ==
    ASSUME DecisionsInv, NEW i \in DOMAIN resolution, resolution[i].stamp = "live",
           resolution[i].kind # "reject_suggestion", NEW key \in RecordKey,
           key \in {resolution[i].left, resolution[i].right}
    PROVE  Decisions!ResolutionFor(key) = {i}
<1>1. Rows!GoverningIsUnique
  BY ResolutionsAssumptions, Rows!OneGoverns DEF DecisionsInv
<1>2. key \in Rows!IdentitiesOf(resolution[i])
  BY NoRecordAssumption DEF Rows!IdentitiesOf
<1>3. Rows!ResolutionFor(key) = {i}
  BY <1>1, <1>2 DEF Rows!GoverningIsUnique, Rows!Live
<1> QED
  BY <1>3 DEF Rows!ResolutionFor, Rows!LiveTouching, Rows!IdentitiesOf, Rows!Live,
              Decisions!ResolutionFor, Decisions!LiveTouching, Decisions!IdentitiesOf, Decisions!Live

\* A decision given to a run stands.
LEMMA ReadDecisionStands ==
    ASSUME DecisionsInv, NEW L, NEW R, NEW period, NEW prior,
           prior = LoadPriorResolutions(L, R, period), NEW i \in DOMAIN prior
    PROVE  /\ i \in DOMAIN resolution /\ resolution[i].stamp = "live"
           /\ prior[i] = Decisions!Oriented(resolution[i], R)
           /\ prior[i].kind = resolution[i].kind
           /\ {prior[i].left, prior[i].right} = {resolution[i].left, resolution[i].right}
           /\ resolution[i].kind = "accept_unmatched" => prior[i].left = resolution[i].left
<1>1. Rows!TypeOK
  BY DEF DecisionsInv
<1>2. i \in DOMAIN resolution /\ Decisions!AboutSources(resolution[i], L, R)
  BY <1>1, DecisionsRead
<1>3. /\ prior[i] = Decisions!Oriented(resolution[i], R)
      /\ prior[i].kind = resolution[i].kind
      /\ {prior[i].left, prior[i].right} = {resolution[i].left, resolution[i].right}
      /\ resolution[i].kind = "accept_unmatched" => prior[i].left = resolution[i].left
  BY <1>1, DecisionsRead
<1> QED
  BY <1>2, <1>3 DEF Decisions!AboutSources, Decisions!Live

\* The key of a record of the input is one of its two sources'.
LEMMA KeysOfSides ==
    ASSUME NEW in, IsInput(in), NEW r \in in.left \cup in.right
    PROVE  /\ Key(r) \in RecordKey /\ Key(r)[1] \in {in.leftSource, in.rightSource}
           /\ Key(r)[1] = r.source /\ Key(r)[2] = r.reference
           /\ r \in in.left <=> r.source = in.leftSource
           /\ \A s \in in.left \cup in.right : Key(s) = Key(r) => s = r
<1>1. in.leftSource # in.rightSource
  BY DEF IsInput
<1>2. \A s \in in.left \cup in.right : Key(s)[1] = s.source /\ Key(s)[2] = s.reference
  BY DEF Key
<1> QED
  BY <1>1, <1>2, SidesApart

\* The decisions that stamp in a run are the standing acceptances of records
\* it paired by reference.
LEMMA RevokedAre ==
    ASSUME DecisionsInv, NEW L, NEW R, NEW period, NEW in, in = RunInput(L, R, period), IsInput(in),
           NEW i \in DOMAIN resolution
    PROVE  i \in RevokedRows(MatchResult(in)) <=>
              /\ resolution[i].stamp = "live" /\ resolution[i].kind = "accept_unmatched"
              /\ \E p \in ReferencePairs(in) : resolution[i].left \in {Key(p[1]), Key(p[2])}
<1>1. PICK prior : prior = in.prior
  OBVIOUS
<1>2. prior = LoadPriorResolutions(L, R, period) /\ in.leftSource = L /\ in.rightSource = R
  BY <1>1 DEF RunInput
<1>3. i \in RevokedRows(MatchResult(in)) <=> \E key \in Revoked(in) : i \in Decisions!ResolutionFor(key)
  BY DEF RevokedRows, MatchResult
<1>4. ASSUME NEW key \in Revoked(in), i \in Decisions!ResolutionFor(key)
      PROVE  /\ resolution[i].stamp = "live" /\ resolution[i].kind = "accept_unmatched"
             /\ resolution[i].left = key
             /\ \E p \in ReferencePairs(in) : key \in {Key(p[1]), Key(p[2])}
  <2>1. PICK j \in DOMAIN prior : prior[j].kind = "accept_unmatched" /\ prior[j].left = key
    BY <1>1 DEF Revoked, Accepted, DecisionsOf
  <2>2. /\ j \in DOMAIN resolution /\ resolution[j].stamp = "live"
        /\ resolution[j].kind = "accept_unmatched" /\ resolution[j].left = key
    BY <1>2, <2>1, ReadDecisionStands
  <2>3. key \in RecordKey
    BY <2>2, DecisionsStored DEF DecisionsInv
  <2>4. Decisions!ResolutionFor(key) = {j}
    BY <2>2, <2>3, Governs
  <2> QED
    BY <1>4, <2>2, <2>4 DEF Revoked
<1>5. ASSUME resolution[i].stamp = "live", resolution[i].kind = "accept_unmatched",
             NEW p \in ReferencePairs(in), resolution[i].left \in {Key(p[1]), Key(p[2])}
      PROVE  \E key \in Revoked(in) : i \in Decisions!ResolutionFor(key)
  <2>1. /\ p[1] \in in.left \cup in.right /\ p[2] \in in.left \cup in.right
    BY AvailableRecords, OneToOne DEF Pairs
  <2>2. /\ resolution[i].left \in RecordKey /\ resolution[i].left[1] \in {L, R}
        /\ resolution[i].right = NoRecord
    BY <1>2, <1>5, <2>1, KeysOfSides, DecisionsStored DEF DecisionsInv
  <2>3. i \in DOMAIN prior
    BY <1>2, <1>5, <2>2, DecisionsRead DEF DecisionsInv, Decisions!AboutSources, Decisions!Live
  <2>4. prior[i].kind = "accept_unmatched" /\ prior[i].left = resolution[i].left
    BY <1>2, <1>5, <2>3, ReadDecisionStands
  <2>5. resolution[i].left \in Revoked(in)
    BY <1>1, <1>5, <2>3, <2>4 DEF Revoked, Accepted, DecisionsOf
  <2>6. Decisions!ResolutionFor(resolution[i].left) = {i}
    BY <1>5, <2>2, Governs
  <2> QED
    BY <2>5, <2>6
<1> QED
  BY <1>3, <1>4, <1>5

----------------------------------------------------------------------------
(* The pairs a run writes.                                                 *)

\* The row of a pair, with the decision behind it as the input has it.
PairWritten(in, p, manual) ==
    [left       |-> Key(p[1]),
     right      |-> Key(p[2]),
     manual     |-> manual,
     verdict    |-> Verdict(FieldDiffs(p[1], p[2])),
     resolution |-> {i \in DecisionsOf(in, "manual_match") :
                        manual /\ in.prior[i].left = Key(p[1]) /\ in.prior[i].right = Key(p[2])}]

PairsOf(in) ==
    {PairWritten(in, p, TRUE) : p \in ManualPairs(in)} \cup
    {PairWritten(in, p, FALSE) : p \in ReferencePairs(in)}

\* Of decisions that do not contend one made a manual pair.
LEMMA OnePairing ==
    ASSUME NEW in, IsInput(in), Coherent(in), NEW p \in ManualPairs(in)
    PROVE  /\ Key(p[1]) \in RecordKey /\ Key(p[2]) \in RecordKey
           /\ \E i \in DecisionsOf(in, "manual_match") :
                 /\ in.prior[i].left = Key(p[1]) /\ in.prior[i].right = Key(p[2])
                 /\ PairWritten(in, p, TRUE).resolution = {i}
<1>1. /\ ManuallyPaired(in, Key(p[1]), Key(p[2]))
      /\ p[1] \in in.left \cup in.right /\ p[2] \in in.left \cup in.right
  BY AvailableRecords DEF ManualPairs
<1>2. PICK i \in DecisionsOf(in, "manual_match") :
         in.prior[i].left = Key(p[1]) /\ in.prior[i].right = Key(p[2])
  BY <1>1 DEF ManuallyPaired
<1>3. Key(p[1]) \in RecordKey /\ Key(p[2]) \in RecordKey
  BY <1>1, KeysOfSides
<1>4. ASSUME NEW j \in DecisionsOf(in, "manual_match"), in.prior[j].left = Key(p[1])
      PROVE  j = i
  BY <1>2, <1>3, <1>4, NoOtherDecision DEF DecisionsOf
<1>5. PairWritten(in, p, TRUE).resolution = {i}
  BY <1>2, <1>4 DEF PairWritten
<1> QED
  BY <1>2, <1>3, <1>5

\* The lookup by the left-hand record finds just the decision that paired it.
LEMMA BehindManualPair ==
    ASSUME DecisionsInv, NEW L, NEW R, NEW period, NEW in, in = RunInput(L, R, period),
           IsInput(in), Coherent(in), NEW p \in ManualPairs(in)
    PROVE  Decisions!ResolutionFor(Key(p[1])) = PairWritten(in, p, TRUE).resolution
<1>1. PICK prior : prior = in.prior /\ prior = LoadPriorResolutions(L, R, period)
  BY DEF RunInput
<1>2. Key(p[1]) \in RecordKey
  BY OnePairing
<1>3. PICK i \in DecisionsOf(in, "manual_match") :
         in.prior[i].left = Key(p[1]) /\ PairWritten(in, p, TRUE).resolution = {i}
  BY OnePairing
<1>4. i \in DOMAIN prior /\ prior[i].kind = "manual_match" /\ prior[i].left = Key(p[1])
  BY <1>1, <1>3 DEF DecisionsOf
<1>5. /\ i \in DOMAIN resolution /\ resolution[i].stamp = "live"
      /\ resolution[i].kind = "manual_match"
      /\ Key(p[1]) \in {resolution[i].left, resolution[i].right}
  BY <1>1, <1>4, ReadDecisionStands
<1>6. Decisions!ResolutionFor(Key(p[1])) = {i}
  BY <1>2, <1>5, Governs
<1> QED
  BY <1>3, <1>6

LEMMA PairsWritten ==
    ASSUME DecisionsInv, NEW L, NEW R, NEW period, NEW in, in = RunInput(L, R, period),
           IsInput(in), Coherent(in)
    PROVE  PairRows(MatchResult(in)) = PairsOf(in)
<1>1. \A p : <<p[1].source, p[1].reference>> = Key(p[1]) /\ <<p[2].source, p[2].reference>> = Key(p[2])
  BY DEF Key
<1>2. ASSUME NEW p \in ManualPairs(in)
      PROVE  PairRow(p, TRUE) = PairWritten(in, p, TRUE)
  <2>1. Decisions!ResolutionFor(Key(p[1])) = PairWritten(in, p, TRUE).resolution
    BY BehindManualPair
  <2> QED
    BY <1>1, <2>1 DEF PairRow, PairWritten, ResolutionBehind
<1>3. \A p \in ReferencePairs(in) : PairRow(p, FALSE) = PairWritten(in, p, FALSE)
  BY <1>1 DEF PairRow, PairWritten, ResolutionBehind
<1>4. PairRows(MatchResult(in)) =
         {PairRow(p, TRUE) : p \in ManualPairs(in)} \cup {PairRow(p, FALSE) : p \in ReferencePairs(in)}
  BY DEF PairRows, MatchResult
<1> QED
  BY <1>2, <1>3, <1>4 DEF PairsOf

----------------------------------------------------------------------------
(* What stays true of a run, whatever happens after it.                    *)

\* A withdrawn line of a run points at the last delivery that had the
\* reference, among those there were.
ShownLast(item, period, files) ==
    /\ item.batch \in DOMAIN file_batch /\ item.batch <= files
    /\ item.reference \in Files!ReferencesIn(file_batch[item.batch].records)
    /\ \A b \in item.batch + 1..files :
          (file_batch[b].source = item.source /\ file_batch[b].period = period) =>
              item.reference \notin Files!ReferencesIn(file_batch[b].records)

KeyOf(item) == <<item.source, item.reference>>

\* A run says what matching made of an input: its pairs, and one item for
\* every record and every withdrawn reference.
Answers(row, in) ==
    /\ IsInput(in) /\ Coherent(in)
    /\ <<row.left, row.right>> \in SourcePairs
    /\ in.leftSource = row.left /\ in.rightSource = row.right
    /\ row.pairs = PairsOf(in)
    /\ \A item \in row.items :
          item.state # "withdrawn" =>
              \E r \in in.left \cup in.right : Key(r) = KeyOf(item) /\ Ends(in, r, item.state)
    /\ \A r \in in.left \cup in.right :
          \E item \in row.items : KeyOf(item) = Key(r) /\ item.state # "withdrawn"
    /\ \A one, other \in row.items : KeyOf(one) = KeyOf(other) => one = other

\* The deliveries still say what it read.
FilesSay(row, in) ==
    /\ row.files \in Nat /\ row.files <= Len(file_batch)
    /\ \E rejected \in Nat : row.counts = Counts(row.items, rejected)
    /\ \A item \in row.items :
          /\ item.source \in {row.left, row.right} /\ item.state \in RecordState \ {"rejected_row"}
          /\ item.batch \in 1..row.files
          /\ Files!SamePeriod(file_batch[item.batch], item.source, row.period)
          /\ item.reference \in Files!ReferencesIn(file_batch[item.batch].records)
          /\ item.state = "withdrawn" => ShownLast(item, row.period, row.files)
          /\ item.state # "withdrawn" =>
                \A n \in DOMAIN file_batch[item.batch].records :
                    file_batch[item.batch].records[n].reference = item.reference =>
                        Normalized(item.source, file_batch[item.batch].records[n]) \in in.left \cup in.right

\* The decisions still say what it read, those that stand have been read,
\* and no acceptance stands that it found to be mistaken.
DecisionsSay(row, in) ==
    /\ row.decisions \in Nat /\ row.decisions <= Len(resolution)
    /\ \A i \in DOMAIN in.prior :
          /\ i \in 1..row.decisions
          /\ in.prior[i] = Decisions!Oriented(resolution[i], row.right)
          /\ in.prior[i].kind = resolution[i].kind
          /\ {in.prior[i].left, in.prior[i].right} = {resolution[i].left, resolution[i].right}
    /\ \A i \in 1..row.decisions :
          resolution[i].stamp = "live" =>
             /\ Decisions!AboutSources(resolution[i], row.left, row.right) => i \in DOMAIN in.prior
             /\ resolution[i].kind = "accept_unmatched" =>
                   \A p \in ReferencePairs(in) : resolution[i].left \notin {Key(p[1]), Key(p[2])}

RunsInv ==
    /\ \E S : run \in Seq(S)
    /\ \A k \in DOMAIN run :
          \E in : Answers(run[k], in) /\ FilesSay(run[k], in) /\ DecisionsSay(run[k], in)
    /\ \A k, j \in DOMAIN run : k <= j => run[k].decisions <= run[j].decisions

\* What no step undoes: deliveries keep what they say but which replaced
\* them, decisions what they say but whether they stand.
FilesGrow ==
    /\ Len(file_batch) \in Nat /\ Len(file_batch') \in Nat /\ Len(file_batch) <= Len(file_batch')
    /\ DOMAIN file_batch = 1..Len(file_batch) /\ DOMAIN file_batch' = 1..Len(file_batch')
    /\ \A i \in DOMAIN file_batch : /\ file_batch'[i].source = file_batch[i].source
                                    /\ file_batch'[i].period = file_batch[i].period
                                    /\ file_batch'[i].records = file_batch[i].records

DecisionsGrow ==
    /\ Len(resolution) \in Nat /\ Len(resolution') \in Nat /\ Len(resolution) <= Len(resolution')
    /\ DOMAIN resolution = 1..Len(resolution) /\ DOMAIN resolution' = 1..Len(resolution')
    /\ \A i \in DOMAIN resolution : /\ resolution'[i].kind = resolution[i].kind
                                    /\ resolution'[i].left = resolution[i].left
                                    /\ resolution'[i].right = resolution[i].right
                                    /\ resolution'[i].stamp = "live" => resolution[i].stamp = "live"

LEMMA FilesStillSay ==
    ASSUME FilesGrow, NEW row, NEW in, FilesSay(row, in)
    PROVE  FilesSay(row, in)'
<1>1. row.files \in Nat /\ row.files <= Len(file_batch) /\ row.files <= Len(file_batch')
  BY DEF FilesGrow, FilesSay
<1>2. \A b \in 1..row.files : b \in DOMAIN file_batch
  BY <1>1 DEF FilesGrow
<1>3. \A b \in 1..row.files : /\ file_batch'[b].source = file_batch[b].source
                              /\ file_batch'[b].period = file_batch[b].period
                              /\ file_batch'[b].records = file_batch[b].records
  BY <1>2 DEF FilesGrow
<1>4. ASSUME NEW item, ShownLast(item, row.period, row.files)
      PROVE  ShownLast(item, row.period, row.files)'
  <2>1. item.batch \in DOMAIN file_batch /\ item.batch \in Nat /\ item.batch \in 1..row.files
    BY <1>1, <1>4 DEF ShownLast, FilesGrow
  <2>2. \A b \in item.batch + 1..row.files : b \in 1..row.files
    BY <1>1, <2>1
  <2>3. item.batch \in DOMAIN file_batch'
    BY <1>1, <2>1 DEF FilesGrow
  <2> QED
    BY <1>3, <1>4, <2>1, <2>2, <2>3 DEF ShownLast, Files!ReferencesIn
<1>5. ASSUME NEW item \in row.items
      PROVE  /\ item.source \in {row.left, row.right} /\ item.state \in RecordState \ {"rejected_row"}
             /\ item.batch \in 1..row.files
             /\ Files!SamePeriod(file_batch'[item.batch], item.source, row.period)
             /\ item.reference \in Files!ReferencesIn(file_batch'[item.batch].records)
             /\ item.state = "withdrawn" => ShownLast(item, row.period, row.files)'
             /\ item.state # "withdrawn" =>
                   \A n \in DOMAIN file_batch'[item.batch].records :
                       file_batch'[item.batch].records[n].reference = item.reference =>
                           Normalized(item.source, file_batch'[item.batch].records[n]) \in in.left \cup in.right
  BY <1>3, <1>4 DEF FilesSay, Files!SamePeriod
<1> QED
  BY <1>1, <1>5 DEF FilesSay

LEMMA DecisionsStillSay ==
    ASSUME DecisionsGrow, NEW row, NEW in, IsInput(in), DecisionsSay(row, in)
    PROVE  DecisionsSay(row, in)'
<1>1. row.decisions \in Nat /\ row.decisions <= Len(resolution) /\ row.decisions <= Len(resolution')
  BY DEF DecisionsGrow, DecisionsSay
<1>2. ASSUME NEW i \in 1..row.decisions
      PROVE  /\ resolution'[i].kind = resolution[i].kind
             /\ resolution'[i].left = resolution[i].left
             /\ resolution'[i].right = resolution[i].right
             /\ resolution'[i].stamp = "live" => resolution[i].stamp = "live"
             /\ Decisions!Oriented(resolution'[i], row.right) = Decisions!Oriented(resolution[i], row.right)
             /\ Decisions!AboutSources(resolution'[i], row.left, row.right) =>
                   Decisions!AboutSources(resolution[i], row.left, row.right)
  <2>1. i \in DOMAIN resolution
    BY <1>1 DEF DecisionsGrow
  <2>2. /\ resolution'[i].kind = resolution[i].kind
        /\ resolution'[i].left = resolution[i].left
        /\ resolution'[i].right = resolution[i].right
        /\ resolution'[i].stamp = "live" => resolution[i].stamp = "live"
    BY <2>1 DEF DecisionsGrow
  <2> QED
    BY <2>2 DEF Decisions!Oriented, Decisions!AboutSources, Decisions!Live
<1>3. \A i \in DOMAIN in.prior : i \in 1..row.decisions
  BY DEF DecisionsSay
<1>4. \A i \in DOMAIN in.prior :
         /\ in.prior[i] = Decisions!Oriented(resolution'[i], row.right)
         /\ in.prior[i].kind = resolution'[i].kind
         /\ {in.prior[i].left, in.prior[i].right} = {resolution'[i].left, resolution'[i].right}
  BY <1>2, <1>3 DEF DecisionsSay
<1>5. \A i \in 1..row.decisions :
         resolution'[i].stamp = "live" =>
             /\ Decisions!AboutSources(resolution'[i], row.left, row.right) => i \in DOMAIN in.prior
             /\ resolution'[i].kind = "accept_unmatched" =>
                   \A p \in ReferencePairs(in) : resolution'[i].left \notin {Key(p[1]), Key(p[2])}
  BY <1>2 DEF DecisionsSay
<1> QED
  BY <1>1, <1>3, <1>4, <1>5 DEF DecisionsSay

LEMMA UploadGrows ==
    ASSUME FilesInv, NEW source \in Sources, NEW period \in Periods, NEW content \in Contents,
           Upload(source, period, content)
    PROVE  FilesGrow
<1>1. PICK previous \in Nat : Batches!Accepted(source, period, content, previous)
  BY UploadRows
<1>2. /\ Len(file_batch') = Len(file_batch) + 1 /\ file_batch' \in Seq(Batches!FileBatch)
      /\ \A i \in DOMAIN file_batch :
            file_batch'[i] = IF i = previous
                             THEN [file_batch[i] EXCEPT !.superseded_by = Len(file_batch) + 1]
                             ELSE file_batch[i]
  BY <1>1 DEF Batches!Accepted
<1>3. ASSUME NEW i \in DOMAIN file_batch
      PROVE  /\ file_batch'[i].source = file_batch[i].source
             /\ file_batch'[i].period = file_batch[i].period
             /\ file_batch'[i].records = file_batch[i].records
  <2>1. file_batch[i] \in Batches!FileBatch
    BY FileRows
  <2> QED
    BY <1>2, <2>1 DEF Batches!FileBatch
<1> QED
  BY <1>2, <1>3, FileRows DEF FilesGrow

\* Recording a decision adds a row and at most stamps others.
LEMMA CreateGrows ==
    ASSUME Rows!TypeOK, NEW left \in Identity, NEW right \in Identity \cup {NoRecord},
           CreateResolution(left, right)
    PROVE  DecisionsGrow /\ Len(resolution') = Len(resolution) + 1
<1>1. PICK kind \in Rows!Kind : Rows!Record(kind, left, right)
  BY DEF CreateResolution, Decisions!ManualMatch, Decisions!RejectSuggestion,
         Decisions!AcceptUnmatched, Decisions!Record, Decisions!Row, Decisions!Superseded,
         Decisions!Contradicts, Decisions!IdentitiesOf, Decisions!Live,
         Rows!Kind, Rows!Record, Rows!Row, Rows!Superseded, Rows!Contradicts, Rows!IdentitiesOf,
         Rows!Live
<1>2. /\ resolution' \in Seq(Rows!Resolution) /\ Len(resolution') = Len(resolution) + 1
      /\ \A i \in DOMAIN resolution :
            resolution'[i] = Rows!Superseded(Rows!Row(kind, left, right))[i]
  BY <1>1, ResolutionsAssumptions, Rows!RecordRows
<1>3. \A i \in DOMAIN resolution :
         /\ Rows!Superseded(Rows!Row(kind, left, right))[i].kind = resolution[i].kind
         /\ Rows!Superseded(Rows!Row(kind, left, right))[i].left = resolution[i].left
         /\ Rows!Superseded(Rows!Row(kind, left, right))[i].right = resolution[i].right
         /\ Rows!Superseded(Rows!Row(kind, left, right))[i].stamp \in {"superseded", resolution[i].stamp}
  BY ResolutionsAssumptions, Rows!SupersededRows
<1>4. /\ Len(resolution) \in Nat /\ DOMAIN resolution = 1..Len(resolution)
  BY DecisionsStored
<1> QED
  BY <1>2, <1>3, <1>4 DEF DecisionsGrow

LEMMA StartRunGrows ==
    ASSUME Rows!TypeOK, NEW L, NEW R, NEW period, StartRun(L, R, period)
    PROVE  DecisionsGrow /\ Len(resolution') = Len(resolution)
<1>1. /\ resolution' \in Seq(Rows!Resolution) /\ Len(resolution') = Len(resolution)
      /\ \A i \in DOMAIN resolution :
            /\ resolution'[i].kind = resolution[i].kind
            /\ resolution'[i].left = resolution[i].left
            /\ resolution'[i].right = resolution[i].right
            /\ resolution'[i].stamp = "live" => resolution'[i] = resolution[i]
  BY RunStamps
<1>2. /\ Len(resolution) \in Nat /\ DOMAIN resolution = 1..Len(resolution)
  BY DecisionsStored
<1> QED
  BY <1>1, <1>2 DEF DecisionsGrow

LEMMA NothingGrows ==
    ASSUME FilesInv, Rows!TypeOK
    PROVE  /\ UNCHANGED file_batch => FilesGrow
           /\ UNCHANGED resolution => DecisionsGrow
  BY FileRows, DecisionsStored DEF FilesGrow, DecisionsGrow

\* Every step of the service lets the tables grow, and only a run adds to
\* the runs.
LEMMA StepGrows ==
    ASSUME FilesInv, DecisionsInv, [Next]_vars
    PROVE  /\ FilesGrow /\ DecisionsGrow
           /\ \/ UNCHANGED run
              \/ \E pair \in SourcePairs, period \in Periods :
                    StartRun(pair[1], pair[2], period)
<1>1. CASE \E source \in Sources, period \in Periods, content \in Contents :
              Upload(source, period, content)
  <2>1. UNCHANGED <<resolution, run>>
    BY <1>1 DEF Upload
  <2> QED
    BY <1>1, <2>1, UploadGrows, NothingGrows DEF DecisionsInv
<1>2. CASE \E left \in Identity, right \in Identity \cup {NoRecord} : CreateResolution(left, right)
  <2>1. UNCHANGED <<file_batch, run>>
    BY <1>2 DEF CreateResolution
  <2> QED
    BY <1>2, <2>1, CreateGrows, NothingGrows DEF DecisionsInv
<1>3. CASE \E pair \in SourcePairs, period \in Periods : StartRun(pair[1], pair[2], period)
  <2>1. UNCHANGED file_batch
    BY <1>3 DEF StartRun
  <2> QED
    BY <1>3, <2>1, StartRunGrows, NothingGrows DEF DecisionsInv
<1>4. CASE UNCHANGED vars
  BY <1>4, NothingGrows DEF vars, DecisionsInv
<1> QED
  BY <1>1, <1>2, <1>3, <1>4 DEF Next

----------------------------------------------------------------------------
(* The lines of the withdrawn references.                                  *)

\* The newest superseded version with a withdrawn reference is the last
\* version with it at all, because versions rise and the current one, which
\* has it not, is the only version that is not superseded.
LEMMA WithdrawnLast ==
    ASSUME FilesInv, NEW source, NEW period, NEW item \in WithdrawnItems(source, period)
    PROVE  ShownLast(item, period, Len(file_batch))
<1>0. PICK reference \in Files!WithdrawnReferences(source, period) :
         \E batch \in LatestSuperseded(source, period, reference) :
            item = Item(source, batch, reference, "withdrawn")
  BY DEF WithdrawnItems
<1>1. PICK batch \in LatestSuperseded(source, period, reference) :
         item = Item(source, batch, reference, "withdrawn")
  BY <1>0
<1>2. item.source = source /\ item.batch = batch /\ item.reference = reference
  BY <1>1 DEF Item
<1>3. /\ batch \in DOMAIN file_batch
      /\ file_batch[batch].source = source /\ file_batch[batch].period = period
      /\ reference \in Files!ReferencesIn(file_batch[batch].records)
  BY DEF LatestSuperseded, Files!SupersededBatches, Files!SamePeriod
<1>4. PICK current \in Files!CurrentBatch(source, period) :
         reference \notin Files!ReferencesIn(file_batch[current].records)
  BY DEF Files!WithdrawnReferences
<1>5. ASSUME NEW b \in batch + 1..Len(file_batch),
             file_batch[b].source = source, file_batch[b].period = period,
             reference \in Files!ReferencesIn(file_batch[b].records)
      PROVE  FALSE
  <2>1. b \in DOMAIN file_batch /\ batch < b
    BY <1>3, <1>5, FileRows
  <2>2. CASE file_batch[b].superseded_by = 0
    <3>1. /\ current \in DOMAIN file_batch /\ file_batch[current].superseded_by = 0
          /\ file_batch[current].source = source /\ file_batch[current].period = period
      BY DEF Files!CurrentBatch, Files!SamePeriod, Files!None
    <3>2. b <= current /\ current <= b
      BY <1>5, <2>1, <2>2, <3>1 DEF FilesInv, Batches!VersionChain, Batches!Chained, Batches!SamePeriod, Batches!None
    <3>3. b = current
      BY <2>1, <3>1, <3>2, FileRows
    <3> QED
      BY <1>4, <1>5, <3>3
  <2>3. CASE file_batch[b].superseded_by # 0
    <3>1. b \in Files!SupersededBatches(source, period)
      BY <1>5, <2>1, <2>3 DEF Files!SupersededBatches, Files!SamePeriod, Files!None
    <3>2. file_batch[b].version <= file_batch[batch].version
      BY <1>5, <3>1 DEF LatestSuperseded
    <3>3. file_batch[batch].version < file_batch[b].version
      BY <1>3, <1>5, <2>1 DEF FilesInv, Rising, Files!SamePeriod
    <3> QED
      BY <1>3, <2>1, <3>2, <3>3, FileRows
  <2> QED
    BY <2>2, <2>3
<1> QED
  BY <1>2, <1>3, <1>5, FileRows DEF ShownLast

\* A row a run read is one of a current delivery, and the other way round.
LEMMA SideRows ==
    ASSUME FilesStored, NEW source, NEW period
    PROVE  /\ \A r \in Side(source, period) :
                 /\ r.source = source /\ CurrentFile(source, period) \in DOMAIN file_batch
                 /\ CurrentFile(source, period) \in Current(source, period)
                 /\ Files!SamePeriod(file_batch[CurrentFile(source, period)], source, period)
                 /\ r.reference \in Files!ReferencesIn(file_batch[CurrentFile(source, period)].records)
           /\ \A b \in Current(source, period) : \A n \in DOMAIN file_batch[b].records :
                 Normalized(source, file_batch[b].records[n]) \in Side(source, period)
<1>1. ASSUME NEW r \in Side(source, period)
      PROVE  /\ r.source = source /\ CurrentFile(source, period) \in DOMAIN file_batch
             /\ CurrentFile(source, period) \in Current(source, period)
             /\ Files!SamePeriod(file_batch[CurrentFile(source, period)], source, period)
             /\ r.reference \in Files!ReferencesIn(file_batch[CurrentFile(source, period)].records)
  <2>1. PICK p \in CurrentRecords(source, period) : r = Normalized(source, RowAt(p))
    BY DEF Side
  <2>2. /\ p[1] \in Current(source, period) /\ p[2] \in DOMAIN file_batch[p[1]].records
        /\ RowAt(p) = file_batch[p[1]].records[p[2]]
    BY RecordsRead
  <2>3. /\ p[1] = CurrentFile(source, period) /\ p[1] \in DOMAIN file_batch
        /\ Files!SamePeriod(file_batch[p[1]], source, period)
    BY <2>2, CurrentIsOne
  <2>4. r.source = source /\ r.reference = RowAt(p).reference
    BY <2>1 DEF Normalized
  <2> QED
    BY <2>2, <2>3, <2>4 DEF Files!ReferencesIn
<1>2. ASSUME NEW b \in Current(source, period), NEW n \in DOMAIN file_batch[b].records
      PROVE  Normalized(source, file_batch[b].records[n]) \in Side(source, period)
  <2>1. <<b, n>> \in CurrentRecords(source, period)
    BY RecordsRead
  <2>2. RowAt(<<b, n>>) = file_batch[b].records[n]
    BY DEF RowAt
  <2> QED
    BY <2>1, <2>2 DEF Side
<1> QED
  BY <1>1, <1>2

\* The line of a withdrawn reference.
LEMMA WithdrawnLines ==
    ASSUME NEW source, NEW period, NEW item \in WithdrawnItems(source, period)
    PROVE  /\ item.source = source /\ item.state = "withdrawn"
           /\ item.batch \in DOMAIN file_batch
           /\ Files!SamePeriod(file_batch[item.batch], source, period)
           /\ item.reference \in Files!ReferencesIn(file_batch[item.batch].records)
           /\ item.reference \in Files!WithdrawnReferences(source, period)
           /\ item.batch \in LatestSuperseded(source, period, item.reference)
           /\ item = Item(source, item.batch, item.reference, "withdrawn")
<1>1. PICK reference \in Files!WithdrawnReferences(source, period) :
         \E batch \in LatestSuperseded(source, period, reference) :
            item = Item(source, batch, reference, "withdrawn")
  BY DEF WithdrawnItems
<1>2. PICK batch \in LatestSuperseded(source, period, reference) :
         item = Item(source, batch, reference, "withdrawn")
  BY <1>1
<1>3. item.source = source /\ item.batch = batch /\ item.reference = reference /\ item.state = "withdrawn"
  BY <1>2 DEF Item
<1>4. /\ batch \in DOMAIN file_batch /\ Files!SamePeriod(file_batch[batch], source, period)
      /\ reference \in Files!ReferencesIn(file_batch[batch].records)
  BY DEF LatestSuperseded, Files!SupersededBatches
<1> QED
  BY <1>2, <1>3, <1>4

\* There is one for a reference, and none for a reference the current
\* delivery has.
LEMMA WithdrawnOnce ==
    ASSUME FilesStored, NEW source, NEW period
    PROVE  /\ \A one, other \in WithdrawnItems(source, period) :
                 one.reference = other.reference => one = other
           /\ \A item \in WithdrawnItems(source, period) :
                 \A r \in Side(source, period) : r.reference # item.reference
<1>1. ASSUME NEW one \in WithdrawnItems(source, period), NEW other \in WithdrawnItems(source, period),
             one.reference = other.reference
      PROVE  one = other
  <2> DEFINE a == one.batch
             b == other.batch
  <2>1. /\ a \in DOMAIN file_batch /\ b \in DOMAIN file_batch
        /\ Files!SamePeriod(file_batch[a], source, period) /\ Files!SamePeriod(file_batch[b], source, period)
        /\ a \in LatestSuperseded(source, period, one.reference)
        /\ b \in LatestSuperseded(source, period, one.reference)
    BY <1>1, WithdrawnLines
  <2>2. file_batch[a].version <= file_batch[b].version /\ file_batch[b].version <= file_batch[a].version
    BY <2>1 DEF LatestSuperseded
  <2>3. /\ a < b => file_batch[a].version < file_batch[b].version
        /\ b < a => file_batch[b].version < file_batch[a].version
    BY <2>1 DEF FilesStored, Rising, Files!SamePeriod
  <2>4. /\ a \in Nat /\ b \in Nat
        /\ file_batch[a].version \in Nat /\ file_batch[b].version \in Nat
    BY <2>1, StoredRows
  <2>5. a = b
    BY <2>2, <2>3, <2>4
  <2> QED
    BY <1>1, <2>5, WithdrawnLines
<1>2. ASSUME NEW item \in WithdrawnItems(source, period), NEW r \in Side(source, period),
             r.reference = item.reference
      PROVE  FALSE
  <2>1. item.reference \in Files!WithdrawnReferences(source, period)
    BY WithdrawnLines
  <2>2. PICK current \in Files!CurrentBatch(source, period) :
           item.reference \notin Files!ReferencesIn(file_batch[current].records)
    BY <2>1 DEF Files!WithdrawnReferences
  <2>3. current = CurrentFile(source, period)
    BY CurrentIsOne DEF Current
  <2> QED
    BY <1>2, <2>2, <2>3, SideRows
<1> QED
  BY <1>1, <1>2

----------------------------------------------------------------------------
(* A new run says what it read.                                            *)

\* A row is written of an input whose sides are the current deliveries,
\* whichever decisions it has.
Written(new, in) ==
    /\ IsInput(in)
    /\ in.leftSource = new.left /\ in.rightSource = new.right
    /\ in.left = Side(new.left, new.period) /\ in.right = Side(new.right, new.period)
    /\ Unambiguous(new.left, new.period) /\ Unambiguous(new.right, new.period)
    /\ new.items = RecordItems(MatchResult(in), new.period) \cup
                      WithdrawnItems(new.left, new.period) \cup WithdrawnItems(new.right, new.period)
    /\ new.counts = Counts(new.items, RejectedCount(new.left, new.period)
                                         + RejectedCount(new.right, new.period))

LEMMA RunWritten ==
    ASSUME FilesInv, DecisionsInv, NEW L, NEW R, NEW period, <<L, R>> \in SourcePairs,
           Unambiguous(L, period), Unambiguous(R, period), NEW new, new = RunRow(L, R, period),
           NEW in, in = RunInput(L, R, period)
    PROVE  Written(new, in) /\ new.left = L /\ new.right = R /\ new.period = period
<1>1. IsInput(in)
  BY RunReads
<1>2. /\ new.left = L /\ new.right = R /\ new.period = period
      /\ new.items = RecordItems(MatchResult(in), period) \cup
                       WithdrawnItems(L, period) \cup WithdrawnItems(R, period)
      /\ new.counts = Counts(new.items, RejectedCount(L, period) + RejectedCount(R, period))
  BY DEF RunRow
<1>3. /\ in.left = Side(L, period) /\ in.right = Side(R, period)
      /\ in.leftSource = L /\ in.rightSource = R
  BY DEF RunInput
<1> QED
  BY <1>1, <1>2, <1>3 DEF Written

\* The lines of a run: one for each record of its input, and those of the
\* withdrawn references.
LEMMA RunItems ==
    ASSUME NEW in, NEW new, Written(new, in), NEW item
    PROVE  item \in new.items <=>
              \/ \E r \in in.left \cup in.right : \E state :
                    /\ Ends(in, r, state)
                    /\ item = Item(r.source, CurrentFile(r.source, new.period), r.reference, state)
              \/ item \in WithdrawnItems(new.left, new.period) \cup WithdrawnItems(new.right, new.period)
  BY ItemsWritten DEF Written

\* One of them.
LEMMA RunItemIs ==
    ASSUME NEW in, NEW new, Written(new, in), NEW item \in new.items
    PROVE  \/ \E r \in in.left \cup in.right :
                 /\ Ends(in, r, item.state) /\ Key(r) = KeyOf(item)
                 /\ item = Item(r.source, CurrentFile(r.source, new.period), r.reference, item.state)
                 /\ item.source = r.source /\ item.reference = r.reference
                 /\ item.batch = CurrentFile(r.source, new.period)
                 /\ item.state \in RecordState \ {"withdrawn", "rejected_row"}
           \/ \E source \in {new.left, new.right} :
                 /\ item \in WithdrawnItems(source, new.period)
                 /\ item.source = source /\ item.state = "withdrawn"
<1>1. CASE \E r \in in.left \cup in.right : \E state :
              /\ Ends(in, r, state)
              /\ item = Item(r.source, CurrentFile(r.source, new.period), r.reference, state)
  <2>0. PICK r \in in.left \cup in.right : \E state :
           /\ Ends(in, r, state)
           /\ item = Item(r.source, CurrentFile(r.source, new.period), r.reference, state)
    BY <1>1
  <2>1. PICK state :
           /\ Ends(in, r, state)
           /\ item = Item(r.source, CurrentFile(r.source, new.period), r.reference, state)
    BY <2>0
  <2>2. /\ item.source = r.source /\ item.reference = r.reference
        /\ item.batch = CurrentFile(r.source, new.period) /\ item.state = state
    BY <2>1 DEF Item
  <2>3. state \in RecordState \ {"withdrawn", "rejected_row"}
    BY <2>1, EndStates
  <2>4. Key(r) = KeyOf(item)
    BY <2>2 DEF Key, KeyOf
  <2> QED
    BY <2>0, <2>1, <2>2, <2>3, <2>4
<1>2. CASE item \in WithdrawnItems(new.left, new.period) \cup WithdrawnItems(new.right, new.period)
  BY <1>2, WithdrawnLines
<1> QED
  BY <1>1, <1>2, RunItems

LEMMA RunItemsOnce ==
    ASSUME FilesStored, NEW in, NEW new, Written(new, in),
           NEW one \in new.items, NEW other \in new.items, KeyOf(one) = KeyOf(other)
    PROVE  one = other
<1>0. one.source = other.source /\ one.reference = other.reference
  BY DEF KeyOf
<1>1. /\ in.left = Side(new.left, new.period) /\ in.right = Side(new.right, new.period)
      /\ IsInput(in)
  BY DEF Written
<1>2. ASSUME NEW r \in in.left \cup in.right, NEW source \in {new.left, new.right},
             NEW item \in WithdrawnItems(source, new.period), r.source = source,
             r.reference = item.reference
      PROVE  FALSE
  <2>1. r \in Side(source, new.period)
    BY <1>1, <1>2, SideRows
  <2> QED
    BY <1>2, <2>1, WithdrawnOnce
<1>3. CASE one.state # "withdrawn" /\ other.state # "withdrawn"
  <2>1. PICK r \in in.left \cup in.right :
           /\ Ends(in, r, one.state) /\ Key(r) = KeyOf(one)
           /\ one = Item(r.source, CurrentFile(r.source, new.period), r.reference, one.state)
    BY <1>3, RunItemIs
  <2>2. PICK s \in in.left \cup in.right :
           /\ Ends(in, s, other.state) /\ Key(s) = KeyOf(other)
           /\ other = Item(s.source, CurrentFile(s.source, new.period), s.reference, other.state)
    BY <1>3, RunItemIs
  <2>3. r = s
    BY <1>1, <2>1, <2>2, KeysOfSides
  <2>4. one.state = other.state
    BY <1>1, <2>1, <2>2, <2>3, EndsOnce
  <2> QED
    BY <2>1, <2>2, <2>3, <2>4
<1>4. CASE one.state = "withdrawn" /\ other.state = "withdrawn"
  <2>1. PICK source \in {new.left, new.right} : one \in WithdrawnItems(source, new.period) /\ one.source = source
    BY <1>4, RunItemIs
  <2>2. PICK its \in {new.left, new.right} : other \in WithdrawnItems(its, new.period) /\ other.source = its
    BY <1>4, RunItemIs
  <2>3. other \in WithdrawnItems(source, new.period)
    BY <1>0, <2>1, <2>2
  <2> QED
    BY <1>0, <2>1, <2>3, WithdrawnOnce
<1>5. CASE one.state # "withdrawn" /\ other.state = "withdrawn"
  <2>1. PICK r \in in.left \cup in.right : one.source = r.source /\ one.reference = r.reference
    BY <1>5, RunItemIs
  <2>2. PICK source \in {new.left, new.right} : other \in WithdrawnItems(source, new.period) /\ other.source = source
    BY <1>5, RunItemIs
  <2> QED
    BY <1>0, <1>2, <2>1, <2>2
<1>6. CASE one.state = "withdrawn" /\ other.state # "withdrawn"
  <2>1. PICK r \in in.left \cup in.right : other.source = r.source /\ other.reference = r.reference
    BY <1>6, RunItemIs
  <2>2. PICK source \in {new.left, new.right} : one \in WithdrawnItems(source, new.period) /\ one.source = source
    BY <1>6, RunItemIs
  <2> QED
    BY <1>0, <1>2, <2>1, <2>2
<1>7. \/ one.state # "withdrawn" /\ other.state # "withdrawn"
      \/ one.state = "withdrawn" /\ other.state = "withdrawn"
      \/ one.state # "withdrawn" /\ other.state = "withdrawn"
      \/ one.state = "withdrawn" /\ other.state # "withdrawn"
  OBVIOUS
<1> QED
  BY <1>3, <1>4, <1>5, <1>6, <1>7

\* A run answers what it reads.
LEMMA RunAnswers ==
    ASSUME FilesInv, DecisionsInv, NEW L, NEW R, NEW period, <<L, R>> \in SourcePairs,
           Unambiguous(L, period), Unambiguous(R, period), NEW new, new = RunRow(L, R, period),
           NEW in, in = RunInput(L, R, period)
    PROVE  Answers(new, in)
<1>0. Written(new, in) /\ new.period = period
  BY RunWritten
<1>1. IsInput(in) /\ Coherent(in)
  BY RunReads
<1>2. in.leftSource = L /\ in.rightSource = R
  BY DEF RunInput
<1>3. new.left = L /\ new.right = R
  BY DEF RunRow
<1>5. new.pairs = PairRows(MatchResult(in))
  BY DEF RunRow
<1>6. new.pairs = PairsOf(in)
  BY <1>1, <1>5, PairsWritten
<1>7. \A item \in new.items :
         item.state # "withdrawn" =>
             \E r \in in.left \cup in.right : Key(r) = KeyOf(item) /\ Ends(in, r, item.state)
  BY <1>0, RunItemIs
<1>8. ASSUME NEW r \in in.left \cup in.right
      PROVE  \E item \in new.items : KeyOf(item) = Key(r) /\ item.state # "withdrawn"
  <2>1. PICK state : Ends(in, r, state)
    BY <1>1, EndsOnce
  <2>2. PICK item : item = Item(r.source, CurrentFile(r.source, period), r.reference, state)
    OBVIOUS
  <2>3. item \in new.items
    BY <1>0, <2>1, <2>2, RunItems
  <2>4. KeyOf(item) = Key(r) /\ item.state = state
    BY <2>2 DEF KeyOf, Key, Item
  <2>5. state # "withdrawn"
    BY <2>1, EndStates
  <2> QED
    BY <2>3, <2>4, <2>5
<1>9. \A one, other \in new.items : KeyOf(one) = KeyOf(other) => one = other
  BY <1>0, FilesKept, RunItemsOnce
<1> QED
  BY <1>1, <1>2, <1>3, <1>6, <1>7, <1>8, <1>9 DEF Answers

LEMMA RejectedIsNat ==
    ASSUME FilesStored, NEW source, NEW period
    PROVE  RejectedCount(source, period) \in Nat
<1>1. CASE Current(source, period) = {}
  BY <1>1 DEF RejectedCount
<1>2. CASE Current(source, period) # {}
  <2>1. CurrentFile(source, period) \in DOMAIN file_batch
    BY <1>2, CurrentIsOne
  <2> QED
    BY <1>2, <2>1, RowsStored DEF RejectedCount
<1> QED
  BY <1>1, <1>2

\* What it writes points at the rows it read.
LEMMA RunFilesSay ==
    ASSUME FilesInv, DecisionsInv, NEW L, NEW R, NEW period, <<L, R>> \in SourcePairs,
           Unambiguous(L, period), Unambiguous(R, period), NEW new, new = RunRow(L, R, period),
           NEW in, in = RunInput(L, R, period)
    PROVE  FilesSay(new, in)
<1>1. Written(new, in) /\ new.left = L /\ new.right = R /\ new.period = period
  BY RunWritten
<1>2. /\ new.left = L /\ new.right = R /\ new.period = period /\ new.files = Len(file_batch)
      /\ new.counts = Counts(new.items, RejectedCount(L, period) + RejectedCount(R, period))
  BY DEF RunRow
<1>3. in.left = Side(L, period) /\ in.right = Side(R, period)
  BY DEF RunInput
<1>4. RejectedCount(L, period) + RejectedCount(R, period) \in Nat
  <2>1. RejectedCount(L, period) \in Nat /\ RejectedCount(R, period) \in Nat
    BY FilesKept, RejectedIsNat
  <2> QED
    BY <2>1
<1>5. ASSUME NEW item \in new.items
      PROVE  /\ item.source \in {L, R} /\ item.state \in RecordState \ {"rejected_row"}
             /\ item.batch \in 1..Len(file_batch)
             /\ Files!SamePeriod(file_batch[item.batch], item.source, period)
             /\ item.reference \in Files!ReferencesIn(file_batch[item.batch].records)
             /\ item.state = "withdrawn" => ShownLast(item, period, Len(file_batch))
             /\ item.state # "withdrawn" =>
                   \A n \in DOMAIN file_batch[item.batch].records :
                       file_batch[item.batch].records[n].reference = item.reference =>
                           Normalized(item.source, file_batch[item.batch].records[n]) \in in.left \cup in.right
  <2>1. CASE item.state = "withdrawn"
    <3>1. PICK source \in {L, R} : item \in WithdrawnItems(source, period) /\ item.source = source
      BY <1>1, <2>1, RunItemIs
    <3>2. /\ item.batch \in DOMAIN file_batch
          /\ Files!SamePeriod(file_batch[item.batch], source, period)
          /\ item.reference \in Files!ReferencesIn(file_batch[item.batch].records)
      BY <3>1, WithdrawnLines
    <3>3. ShownLast(item, period, Len(file_batch))
      BY <3>1, WithdrawnLast
    <3> QED
      BY <2>1, <3>1, <3>2, <3>3, FileRows DEF RecordState
  <2>2. CASE item.state # "withdrawn"
    <3>1. PICK r \in in.left \cup in.right :
             /\ item.source = r.source /\ item.reference = r.reference
             /\ item.batch = CurrentFile(r.source, period)
             /\ item.state \in RecordState \ {"withdrawn", "rejected_row"}
      BY <1>1, <2>2, RunItemIs
    <3>2. PICK source \in {L, R} : r \in Side(source, period)
      BY <1>3
    <3>3. /\ r.source = source /\ item.batch \in DOMAIN file_batch
          /\ item.batch \in Current(source, period)
          /\ Files!SamePeriod(file_batch[item.batch], source, period)
          /\ item.reference \in Files!ReferencesIn(file_batch[item.batch].records)
      BY <3>1, <3>2, FilesKept, SideRows
    <3>4. \A n \in DOMAIN file_batch[item.batch].records :
             Normalized(source, file_batch[item.batch].records[n]) \in Side(source, period)
      BY <3>3, FilesKept, SideRows
    <3> QED
      BY <1>3, <2>2, <3>1, <3>2, <3>3, <3>4, FileRows
  <2> QED
    BY <2>1, <2>2
<1> QED
  BY <1>2, <1>4, <1>5, FileRows DEF FilesSay

\* The decisions it read are there, and the acceptances it found to be
\* mistaken no longer stand.
LEMMA RunDecisionsSay ==
    ASSUME FilesInv, DecisionsInv, NEW L, NEW R, NEW period, StartRun(L, R, period),
           NEW new, new = RunRow(L, R, period), NEW in, in = RunInput(L, R, period)
    PROVE  DecisionsSay(new, in)'
<1>0. Rows!TypeOK
  BY DEF DecisionsInv
<1>1. /\ <<L, R>> \in SourcePairs /\ Unambiguous(L, period) /\ Unambiguous(R, period)
      /\ resolution' = [i \in DOMAIN resolution |->
                          IF i \in RevokedRows(MatchResult(in))
                          THEN [resolution[i] EXCEPT !.stamp = "withdrawn"]
                          ELSE resolution[i]]
  BY RunWrites
<1>2. IsInput(in)
  BY <1>1, RunReads
<1>3. new.left = L /\ new.right = R /\ new.decisions = Len(resolution)
  BY DEF RunRow
<1>4. PICK prior : prior = in.prior /\ prior = LoadPriorResolutions(L, R, period)
  BY DEF RunInput
<1>5. DecisionsGrow /\ Len(resolution') = Len(resolution)
  BY <1>0, StartRunGrows
<1>6. /\ Len(resolution) \in Nat /\ DOMAIN resolution = 1..Len(resolution)
      /\ DOMAIN resolution' = 1..Len(resolution)
      /\ \A i \in DOMAIN resolution : /\ resolution'[i].kind = resolution[i].kind
                                      /\ resolution'[i].left = resolution[i].left
                                      /\ resolution'[i].right = resolution[i].right
                                      /\ resolution'[i].stamp = "live" => resolution[i].stamp = "live"
  BY <1>5 DEF DecisionsGrow
<1>7. ASSUME NEW i \in DOMAIN prior
      PROVE  /\ i \in 1..Len(resolution)
             /\ prior[i] = Decisions!Oriented(resolution'[i], R)
             /\ prior[i].kind = resolution'[i].kind
             /\ {prior[i].left, prior[i].right} = {resolution'[i].left, resolution'[i].right}
  <2>1. /\ i \in DOMAIN resolution
        /\ prior[i] = Decisions!Oriented(resolution[i], R)
        /\ prior[i].kind = resolution[i].kind
        /\ {prior[i].left, prior[i].right} = {resolution[i].left, resolution[i].right}
    BY <1>4, ReadDecisionStands
  <2>2. Decisions!Oriented(resolution'[i], R) = Decisions!Oriented(resolution[i], R)
    BY <1>6, <2>1 DEF Decisions!Oriented
  <2> QED
    BY <1>6, <2>1, <2>2
<1>8. ASSUME NEW i \in 1..Len(resolution), resolution'[i].stamp = "live"
      PROVE  /\ Decisions!AboutSources(resolution'[i], L, R) => i \in DOMAIN prior
             /\ resolution'[i].kind = "accept_unmatched" =>
                   \A p \in ReferencePairs(in) : resolution'[i].left \notin {Key(p[1]), Key(p[2])}
  <2>1. /\ i \in DOMAIN resolution /\ resolution[i].stamp = "live"
        /\ resolution'[i].kind = resolution[i].kind
        /\ resolution'[i].left = resolution[i].left
        /\ resolution'[i].right = resolution[i].right
    BY <1>6, <1>8
  <2>2. Decisions!AboutSources(resolution'[i], L, R) => Decisions!AboutSources(resolution[i], L, R)
    BY <2>1 DEF Decisions!AboutSources, Decisions!Live
  <2>3. Decisions!AboutSources(resolution'[i], L, R) => i \in DOMAIN prior
    BY <1>0, <1>4, <2>1, <2>2, DecisionsRead
  <2>4. i \notin RevokedRows(MatchResult(in))
    <3> SUFFICES ASSUME i \in RevokedRows(MatchResult(in)) PROVE FALSE
      OBVIOUS
    <3>1. resolution'[i] = [resolution[i] EXCEPT !.stamp = "withdrawn"]
      BY <1>1, <2>1
    <3>2. resolution[i] \in Rows!Resolution
      BY <1>0, <2>1 DEF Rows!TypeOK
    <3>3. resolution'[i].stamp = "withdrawn"
      BY <3>1, <3>2 DEF Rows!Resolution
    <3> QED
      BY <1>8, <3>3
  <2>5. resolution[i].kind = "accept_unmatched" =>
           \A p \in ReferencePairs(in) : resolution[i].left \notin {Key(p[1]), Key(p[2])}
    BY <1>2, <2>1, <2>4, RevokedAre
  <2> QED
    BY <2>1, <2>3, <2>5
<1>9. /\ \A i \in DOMAIN in.prior :
            /\ i \in 1..new.decisions
            /\ in.prior[i] = Decisions!Oriented(resolution'[i], new.right)
            /\ in.prior[i].kind = resolution'[i].kind
            /\ {in.prior[i].left, in.prior[i].right} = {resolution'[i].left, resolution'[i].right}
      /\ \A i \in 1..new.decisions :
            resolution'[i].stamp = "live" =>
                /\ Decisions!AboutSources(resolution'[i], new.left, new.right) => i \in DOMAIN in.prior
                /\ resolution'[i].kind = "accept_unmatched" =>
                      \A p \in ReferencePairs(in) : resolution'[i].left \notin {Key(p[1]), Key(p[2])}
  BY <1>3, <1>4, <1>7, <1>8
<1>10. new.decisions \in Nat /\ new.decisions <= Len(resolution')
  BY <1>3, <1>5, <1>6
<1> QED
  BY <1>9, <1>10 DEF DecisionsSay

\* A step keeps what is said of a run.
LEMMA RunStillSays ==
    ASSUME FilesInv, DecisionsInv, [Next]_vars, NEW row, NEW in,
           Answers(row, in), FilesSay(row, in), DecisionsSay(row, in)
    PROVE  FilesSay(row, in)' /\ DecisionsSay(row, in)'
<1>1. FilesGrow /\ DecisionsGrow
  BY StepGrows
<1> QED
  BY <1>1, FilesStillSay, DecisionsStillSay DEF Answers

LEMMA RunsStep ==
    ASSUME FilesInv, DecisionsInv, RunsInv, [Next]_vars
    PROVE  RunsInv'
<1>1. PICK S : run \in Seq(S)
  BY DEF RunsInv
<1>2. ASSUME NEW row, NEW in, Answers(row, in), FilesSay(row, in), DecisionsSay(row, in)
      PROVE  Answers(row, in) /\ FilesSay(row, in)' /\ DecisionsSay(row, in)'
  BY <1>2, RunStillSays
<1>3. ASSUME NEW k \in DOMAIN run, NEW row, row = run[k]
      PROVE  \E in : Answers(row, in) /\ FilesSay(row, in)' /\ DecisionsSay(row, in)'
  <2>1. PICK in : Answers(row, in) /\ FilesSay(row, in) /\ DecisionsSay(row, in)
    BY <1>3 DEF RunsInv
  <2> QED
    BY <1>2, <2>1
<1>4. ASSUME \E T : run' \in Seq(T),
             \A k \in DOMAIN run' : \E row, in :
                 row = run'[k] /\ Answers(row, in) /\ FilesSay(row, in)' /\ DecisionsSay(row, in)',
             \A k, j \in DOMAIN run' : k <= j => run'[k].decisions <= run'[j].decisions
      PROVE  RunsInv'
  <2>1. ASSUME NEW k \in DOMAIN run'
        PROVE  (\E in : Answers(run[k], in) /\ FilesSay(run[k], in) /\ DecisionsSay(run[k], in))'
    <3>1. PICK row, in : row = run'[k] /\ Answers(row, in) /\ FilesSay(row, in)' /\ DecisionsSay(row, in)'
      BY <1>4
    <3> QED
      BY <3>1 DEF Answers, FilesSay, DecisionsSay, ShownLast
  <2> QED
    BY <1>4, <2>1 DEF RunsInv
<1>5. CASE UNCHANGED run
  <2>1. \A k \in DOMAIN run' : run'[k] = run[k] /\ k \in DOMAIN run
    BY <1>5
  <2>2. \A k \in DOMAIN run' : \E row, in :
           row = run'[k] /\ Answers(row, in) /\ FilesSay(row, in)' /\ DecisionsSay(row, in)'
    BY <1>3, <2>1
  <2>3. \A k, j \in DOMAIN run' : k <= j => run'[k].decisions <= run'[j].decisions
    BY <2>1 DEF RunsInv
  <2> QED
    BY <1>1, <1>4, <1>5, <2>2, <2>3
<1>6. CASE \E pair \in SourcePairs, period \in Periods : StartRun(pair[1], pair[2], period)
  <2>1. PICK pair \in SourcePairs, period \in Periods : StartRun(pair[1], pair[2], period)
    BY <1>6
  <2> DEFINE L == pair[1]
             R == pair[2]
  <2>2. PICK new : new = RunRow(L, R, period)
    OBVIOUS
  <2>3. PICK in : in = RunInput(L, R, period)
    OBVIOUS
  <2>4. /\ <<L, R>> \in SourcePairs /\ Unambiguous(L, period) /\ Unambiguous(R, period)
        /\ run' = Append(run, new)
    BY <2>1, <2>2, RunWrites
  <2>5. Answers(new, in) /\ FilesSay(new, in)
    BY <2>2, <2>3, <2>4, RunAnswers, RunFilesSay
  <2>6. DecisionsSay(new, in)'
    BY <2>1, <2>2, <2>3, RunDecisionsSay
  <2>7. FilesSay(new, in)'
    BY <2>5, StepGrows, FilesStillSay
  <2>8. run \in Seq(S \cup {new})
    BY <1>1
  <2>9. /\ run' \in Seq(S \cup {new})
        /\ DOMAIN run' = DOMAIN run \cup {Len(run) + 1}
        /\ run'[Len(run) + 1] = new
        /\ \A k \in DOMAIN run : run'[k] = run[k]
    BY <2>4, <2>8
  <2>10. ASSUME NEW k \in DOMAIN run'
         PROVE  \E row, i :
                   row = run'[k] /\ Answers(row, i) /\ FilesSay(row, i)' /\ DecisionsSay(row, i)'
    <3>1. CASE k \in DOMAIN run
      BY <1>3, <2>9, <3>1
    <3>2. CASE k = Len(run) + 1
      BY <2>5, <2>6, <2>7, <2>9, <3>2
    <3> QED
      BY <2>9, <3>1, <3>2
  <2>11. ASSUME NEW k \in DOMAIN run', NEW j \in DOMAIN run', k <= j
         PROVE  run'[k].decisions <= run'[j].decisions
    <3>1. Len(run) \in Nat /\ DOMAIN run = 1..Len(run)
      BY <1>1
    <3>2. CASE j \in DOMAIN run
      BY <2>9, <2>11, <3>1, <3>2 DEF RunsInv
    <3>3. CASE k \in DOMAIN run /\ j = Len(run) + 1
      <4>1. run[k].decisions <= Len(resolution)
        BY <3>3 DEF RunsInv, DecisionsSay
      <4>2. new.decisions = Len(resolution)
        BY <2>2 DEF RunRow
      <4> QED
        BY <2>9, <3>3, <4>1, <4>2
    <3>4. CASE k = Len(run) + 1 /\ j = Len(run) + 1
      <4>1. new.decisions \in Nat
        BY <2>2, DecisionsStored DEF RunRow, DecisionsInv
      <4> QED
        BY <2>9, <3>4, <4>1
    <3> QED
      BY <2>9, <2>11, <3>1, <3>2, <3>3, <3>4
  <2> QED
    BY <1>4, <2>9, <2>10, <2>11
<1> QED
  BY <1>6, <1>5, StepGrows

\* The inductive invariant of the service.
ServiceInv == FilesInv /\ DecisionsInv /\ RunsInv

LEMMA ServiceInductive == Spec => []ServiceInv
<1>1. Init => DecisionsInv /\ RunsInv
  BY ResolutionsAssumptions
     DEF Init, DecisionsInv, RunsInv, Rows!TypeOK, Rows!NoContradiction, Rows!MaxResolutionsAssumption
<1>2. DecisionsInv /\ [Next]_vars => DecisionsInv'
  BY DecisionsNext DEF DecisionsInv
<1>3. FilesInv /\ DecisionsInv /\ RunsInv /\ [Next]_vars => RunsInv'
  BY RunsStep
<1> QED
  BY <1>1, <1>2, <1>3, FilesInductive, PTL DEF Spec, ServiceInv

----------------------------------------------------------------------------
(* The lines of a run.                                                     *)

\* The rows of all the deliveries.
LinesOf(b) == {<<b, n>> : n \in DOMAIN file_batch[b].records}
Places     == UNION {LinesOf(b) : b \in DOMAIN file_batch}

LEMMA PlacesFinite ==
    ASSUME FilesStored
    PROVE  IsFiniteSet(Places)
<1> DEFINE all == {LinesOf(b) : b \in DOMAIN file_batch}
           of  == [b \in DOMAIN file_batch |-> LinesOf(b)]
<1>1. ASSUME NEW b \in DOMAIN file_batch PROVE IsFiniteSet(LinesOf(b))
  <2> DEFINE at == [n \in DOMAIN file_batch[b].records |-> <<b, n>>]
  <2>1. IsFiniteSet(DOMAIN file_batch[b].records)
    BY FS_Interval, RowsStored
  <2>2. at \in Surjection(DOMAIN file_batch[b].records, LinesOf(b))
    BY DEF Surjection, LinesOf
  <2> QED
    BY <2>1, <2>2, FS_Surjection
<1>2. IsFiniteSet(DOMAIN file_batch)
  <2>1. PICK last \in Nat : DOMAIN file_batch \subseteq 0..last
    BY DEF FilesStored
  <2>2. IsFiniteSet(0..last)
    BY FS_Interval
  <2> QED
    BY <2>1, <2>2, FS_Subset
<1>3. of \in Surjection(DOMAIN file_batch, all)
  BY DEF Surjection
<1>4. IsFiniteSet(all)
  BY <1>2, <1>3, FS_Surjection
<1> QED
  BY <1>1, <1>4, FS_UNION DEF Places

\* A run has finitely many lines: at most one for every row there is.
LEMMA ItemsFinite ==
    ASSUME FilesInv, NEW row, NEW in, Answers(row, in), FilesSay(row, in)
    PROVE  IsFiniteSet(row.items)
<1> DEFINE batch(item)   == file_batch[item.batch]
           line(item) == CHOOSE n \in DOMAIN batch(item).records :
                               batch(item).records[n].reference = item.reference
           place == [item \in row.items |-> <<item.batch, line(item)>>]
<1>1. ASSUME NEW item \in row.items
      PROVE  /\ item.batch \in DOMAIN file_batch /\ item.source = batch(item).source
             /\ line(item) \in DOMAIN batch(item).records /\ line(item) \in Nat
             /\ batch(item).records[line(item)].reference = item.reference
  <2>1. /\ item.batch \in 1..row.files /\ row.files \in Nat /\ row.files <= Len(file_batch)
        /\ Files!SamePeriod(file_batch[item.batch], item.source, row.period)
        /\ item.reference \in Files!ReferencesIn(file_batch[item.batch].records)
    BY DEF FilesSay
  <2>2. item.batch \in DOMAIN file_batch
    BY <2>1, FileRows
  <2>3. /\ line(item) \in DOMAIN batch(item).records
        /\ batch(item).records[line(item)].reference = item.reference
    BY <2>1 DEF Files!ReferencesIn
  <2>4. DOMAIN batch(item).records \subseteq Nat
    BY <2>2, FilesKept, RowsStored
  <2> QED
    BY <2>1, <2>2, <2>3, <2>4 DEF Files!SamePeriod
<1>2. ASSUME NEW item \in row.items PROVE place[item] \in Places
  <2>1. place[item] \in LinesOf(item.batch) /\ item.batch \in DOMAIN file_batch
    BY <1>1 DEF LinesOf
  <2> QED
    BY <2>1 DEF Places
<1>3. ASSUME NEW one \in row.items, NEW other \in row.items, place[one] = place[other]
      PROVE  one = other
  <2>1. one.batch = other.batch /\ line(one) = line(other)
    <3> HIDE DEF line
    <3>1. \A item \in row.items : place[item] = <<item.batch, line(item)>>
      OBVIOUS
    <3> QED
      BY <1>3, <3>1
  <2>2. one.source = other.source /\ one.reference = other.reference
    BY <1>1, <2>1
  <2> QED
    BY <2>2 DEF Answers, KeyOf
<1>4. place \in [row.items -> Places] /\ DOMAIN place = row.items
  BY <1>2
<1> HIDE DEF place
<1>5. place \in Injection(row.items, Places)
  <2>1. IsInjective(place)
    BY <1>3, <1>4 DEF IsInjective
  <2> QED
    BY <1>4, <2>1 DEF Injection
<1> QED
  BY <1>5, FilesKept, PlacesFinite, FS_Injection

LEMMA TypeHolds ==
    ASSUME ServiceInv
    PROVE  TypeOK
<1> SUFFICES ASSUME NEW k \in DOMAIN run
             PROVE  /\ <<run[k].left, run[k].right>> \in SourcePairs
                    /\ run[k].files <= Len(file_batch) /\ run[k].decisions <= Len(resolution)
                    /\ run[k].counts \in [RecordState -> Nat]
                    /\ \A item \in run[k].items :
                          /\ item.state \in RecordState
                          /\ item.batch \in 1..run[k].files
                          /\ Files!SamePeriod(file_batch[item.batch], item.source, run[k].period)
                          /\ item.reference \in Files!ReferencesIn(file_batch[item.batch].records)
  BY DEF TypeOK
<1>1. PICK in : Answers(run[k], in) /\ FilesSay(run[k], in) /\ DecisionsSay(run[k], in)
  BY DEF ServiceInv, RunsInv
<1>2. PICK rejected \in Nat : run[k].counts = Counts(run[k].items, rejected)
  BY <1>1 DEF FilesSay
<1>3. ASSUME NEW state \in RecordState
      PROVE  Cardinality({item \in run[k].items : item.state = state})
                + (IF state = "rejected_row" THEN rejected ELSE 0) \in Nat
  <2>1. IsFiniteSet(run[k].items)
    BY <1>1, ItemsFinite DEF ServiceInv
  <2>2. {item \in run[k].items : item.state = state} \in SUBSET run[k].items
    OBVIOUS
  <2>3. Cardinality({item \in run[k].items : item.state = state}) \in Nat
    BY <2>1, <2>2, FS_Subset, FS_CardinalityType
  <2> QED
    BY <2>3
<1>4. run[k].counts \in [RecordState -> Nat]
  BY <1>2, <1>3 DEF Counts
<1> QED
  BY <1>1, <1>4 DEF Answers, FilesSay, DecisionsSay

\* What a run says stays true of the tables it was made from: its items
\* point at rows of its own sources and period that were there when it
\* started, and each state has a count.
THEOREM RunsAreTyped == Spec => []TypeOK
<1>1. ServiceInv => TypeOK
  BY TypeHolds
<1> QED
  BY <1>1, ServiceInductive, PTL

\* A withdrawn reference is shown as its last delivery had it, in every run
\* and whatever is delivered later (TR-107): the query for the newest
\* superseded version with the reference finds the right file.
THEOREM WithdrawalsShowTheLastDelivery == Spec => []WithdrawnShowsLastValue
<1>1. ServiceInv => WithdrawnShowsLastValue
  BY DEF ServiceInv, RunsInv, FilesSay, ShownLast, WithdrawnShowsLastValue
<1> QED
  BY <1>1, ServiceInductive, PTL

----------------------------------------------------------------------------
(* The pairs of a run.                                                     *)

\* A pair a run applied, and the decision behind it.
LEMMA PairApplied ==
    ASSUME NEW row, NEW in, Answers(row, in), DecisionsSay(row, in), NEW p \in row.pairs
    PROVE  /\ ~p.manual => p.resolution = {}
           /\ p.manual =>
                 \E i \in 1..row.decisions :
                    /\ p.resolution = {i} /\ i \in DOMAIN in.prior
                    /\ in.prior[i] = Decisions!Oriented(resolution[i], row.right)
                    /\ in.prior[i].kind = "manual_match" /\ resolution[i].kind = "manual_match"
                    /\ in.prior[i].left = p.left /\ in.prior[i].right = p.right
                    /\ {resolution[i].left, resolution[i].right} = {p.left, p.right}
                    /\ p.left[1] = row.left /\ p.right[1] = row.right
<1>1. p \in PairsOf(in) /\ IsInput(in) /\ Coherent(in)
  BY DEF Answers
<1>2. CASE \E q \in ReferencePairs(in) : p = PairWritten(in, q, FALSE)
  <2>1. ~p.manual /\ p.resolution = {}
    BY <1>2 DEF PairWritten
  <2> QED
    BY <2>1
<1>3. CASE \E q \in ManualPairs(in) : p = PairWritten(in, q, TRUE)
  <2>1. PICK q \in ManualPairs(in) : p = PairWritten(in, q, TRUE)
    BY <1>3
  <2>2. PICK i \in DecisionsOf(in, "manual_match") :
           /\ in.prior[i].left = Key(q[1]) /\ in.prior[i].right = Key(q[2])
           /\ p.resolution = {i}
    BY <1>1, <2>1, OnePairing
  <2>3. p.manual /\ p.left = Key(q[1]) /\ p.right = Key(q[2])
    BY <2>1 DEF PairWritten
  <2>4. i \in DOMAIN in.prior /\ in.prior[i].kind = "manual_match"
    BY <2>2 DEF DecisionsOf
  <2>5. /\ i \in 1..row.decisions
        /\ in.prior[i] = Decisions!Oriented(resolution[i], row.right)
        /\ in.prior[i].kind = resolution[i].kind
        /\ {in.prior[i].left, in.prior[i].right} = {resolution[i].left, resolution[i].right}
    BY <2>4 DEF DecisionsSay
  <2>6. q[1] \in in.left /\ q[2] \in in.right
    BY <2>1, AvailableRecords DEF ManualPairs
  <2>7. p.left[1] = row.left /\ p.right[1] = row.right
    BY <1>1, <2>3, <2>6, KeysOfSides, SidesApart DEF Answers
  <2> QED
    BY <2>2, <2>3, <2>4, <2>5, <2>7
<1> QED
  BY <1>1, <1>2, <1>3 DEF PairsOf

LEMMA ProvenanceHolds ==
    ASSUME ServiceInv
    PROVE  ProvenanceIsTheDecision
<1> SUFFICES ASSUME NEW k \in DOMAIN run, NEW p \in run[k].pairs
             PROVE  IF ~p.manual THEN p.resolution = {}
                    ELSE \E i \in 1..run[k].decisions :
                            /\ p.resolution = {i}
                            /\ resolution[i].kind = "manual_match"
                            /\ {resolution[i].left, resolution[i].right} = {p.left, p.right}
  BY DEF ProvenanceIsTheDecision
<1>1. PICK in : Answers(run[k], in) /\ FilesSay(run[k], in) /\ DecisionsSay(run[k], in)
  BY DEF ServiceInv, RunsInv
<1> QED
  BY <1>1, PairApplied

\* The decision behind a pair can be found from every run, for ever (TR-508).
THEOREM PairsNameTheirDecision == Spec => []ProvenanceIsTheDecision
<1>1. ServiceInv => ProvenanceIsTheDecision
  BY ProvenanceHolds
<1> QED
  BY <1>1, ServiceInductive, PTL

\* A record whose line is neither set aside nor withdrawn is available.
LEMMA InPlay ==
    ASSUME NEW row, NEW in, Answers(row, in), NEW item \in row.items,
           item.state \notin {"excluded", "status_disagreement", "withdrawn"}
    PROVE  \E r \in Available(in, in.left) \cup Available(in, in.right) :
              /\ Key(r) = KeyOf(item)
              /\ item.source = row.left => r \in Available(in, in.left)
              /\ item.source = row.right => r \in Available(in, in.right)
<1>1. IsInput(in) /\ in.leftSource = row.left /\ in.rightSource = row.right
  BY DEF Answers
<1>2. PICK r \in in.left \cup in.right : Key(r) = KeyOf(item) /\ Ends(in, r, item.state)
  BY DEF Answers
<1>3. r \in Available(in, in.left) \cup Available(in, in.right)
  BY <1>1, <1>2, EndsInPlay
<1>4. r.source = item.source
  BY <1>2 DEF Key, KeyOf
<1>5. row.left # row.right
  BY <1>1 DEF IsInput
<1> QED
  BY <1>1, <1>2, <1>3, <1>4, <1>5, AvailableRecords, SidesApart

LEMMA SurvivalHolds ==
    ASSUME ServiceInv
    PROVE  PairSurvivesCorrection
<1> SUFFICES ASSUME NEW k \in DOMAIN run, NEW j \in DOMAIN run, NEW p \in run[k].pairs,
                    k < j, p.manual, run[j].left = run[k].left, run[j].right = run[k].right,
                    \A i \in p.resolution : Live(resolution[i]),
                    \A key \in {p.left, p.right} : \E item \in run[j].items :
                       /\ <<item.source, item.reference>> = key
                       /\ item.state \notin {"excluded", "status_disagreement", "withdrawn"}
             PROVE  \E q \in run[j].pairs :
                       <<q.left, q.right, q.resolution>> = <<p.left, p.right, p.resolution>>
  BY DEF PairSurvivesCorrection
<1>1. PICK early : Answers(run[k], early) /\ DecisionsSay(run[k], early)
  BY DEF ServiceInv, RunsInv
<1>2. PICK later : Answers(run[j], later) /\ DecisionsSay(run[j], later)
  BY DEF ServiceInv, RunsInv
<1>3. PICK i \in 1..run[k].decisions :
         /\ p.resolution = {i} /\ i \in DOMAIN early.prior
         /\ early.prior[i] = Decisions!Oriented(resolution[i], run[k].right)
         /\ resolution[i].kind = "manual_match"
         /\ early.prior[i].left = p.left /\ early.prior[i].right = p.right
         /\ {resolution[i].left, resolution[i].right} = {p.left, p.right}
         /\ p.left[1] = run[k].left /\ p.right[1] = run[k].right
  BY <1>1, PairApplied
<1>4. i \in 1..run[j].decisions
  <2>1. run[k].decisions <= run[j].decisions
    <3>1. k <= j
      BY DEF ServiceInv, RunsInv
    <3> QED
      BY <3>1 DEF ServiceInv, RunsInv
  <2>2. run[k].decisions \in Nat /\ run[j].decisions \in Nat
    BY <1>1, <1>2 DEF DecisionsSay
  <2> QED
    BY <2>1, <2>2
<1>5. resolution[i].stamp = "live"
  BY <1>3 DEF Live
<1>6. Decisions!AboutSources(resolution[i], run[j].left, run[j].right)
  <2>1. resolution[i].left \in {p.left, p.right} /\ resolution[i].right \in {p.left, p.right}
    BY <1>3
  <2> QED
    BY <1>3, <1>5, <2>1 DEF Decisions!AboutSources, Decisions!Live
<1>7. /\ i \in DOMAIN later.prior
      /\ later.prior[i] = early.prior[i] /\ later.prior[i].kind = "manual_match"
  <2>1. i \in DOMAIN later.prior
    BY <1>2, <1>4, <1>5, <1>6 DEF DecisionsSay
  <2>2. /\ later.prior[i] = Decisions!Oriented(resolution[i], run[j].right)
        /\ later.prior[i].kind = resolution[i].kind
    BY <1>2, <2>1 DEF DecisionsSay
  <2> QED
    BY <1>3, <2>1, <2>2
<1>8. PICK a \in run[j].items : /\ KeyOf(a) = p.left
                                /\ a.state \notin {"excluded", "status_disagreement", "withdrawn"}
  BY DEF KeyOf
<1>9. PICK b \in run[j].items : /\ KeyOf(b) = p.right
                                /\ b.state \notin {"excluded", "status_disagreement", "withdrawn"}
  BY DEF KeyOf
<1>10. a.source = run[j].left /\ b.source = run[j].right
  BY <1>3, <1>8, <1>9 DEF KeyOf
<1>11. PICK l \in Available(later, later.left) : Key(l) = p.left
  BY <1>2, <1>8, <1>10, InPlay
<1>12. PICK r \in Available(later, later.right) : Key(r) = p.right
  BY <1>2, <1>9, <1>10, InPlay
<1>13. IsInput(later) /\ Coherent(later) /\ run[j].pairs = PairsOf(later)
  BY <1>2 DEF Answers
<1>14. i \in DecisionsOf(later, "manual_match")
  BY <1>7 DEF DecisionsOf
<1>15. <<l, r>> \in ManualPairs(later)
  BY <1>3, <1>7, <1>11, <1>12, <1>13, <1>14, PairingsApplied
<1>16. PICK q : q = PairWritten(later, <<l, r>>, TRUE)
  OBVIOUS
<1>17. q \in run[j].pairs
  BY <1>13, <1>15, <1>16 DEF PairsOf
<1>18. q.left = p.left /\ q.right = p.right
  BY <1>11, <1>12, <1>16 DEF PairWritten
<1>19. i \in q.resolution
  BY <1>3, <1>7, <1>11, <1>12, <1>14, <1>16 DEF PairWritten
<1>20. q.resolution = {i}
  <2>1. PICK d : PairWritten(later, <<l, r>>, TRUE).resolution = {d}
    BY <1>13, <1>15, OnePairing
  <2> QED
    BY <1>16, <1>19, <2>1
<1> QED
  BY <1>3, <1>17, <1>18, <1>20

\* A pairing survives corrections (R7.6, TR-317): while its decision stands,
\* a later run over the two records in play pairs them again, whatever was
\* loaded, decided and run in between.
THEOREM PairingsSurvive == Spec => []PairSurvivesCorrection
<1>1. ServiceInv => PairSurvivesCorrection
  BY SurvivalHolds
<1> QED
  BY <1>1, ServiceInductive, PTL

----------------------------------------------------------------------------
(* What a run reverses.                                                    *)

\* The run a step adds, and its last row.
LEMMA RunAdded ==
    ASSUME NEW S, run \in Seq(S), NEW L, NEW R, NEW period, StartRun(L, R, period)
    PROVE  NewRun' = RunRow(L, R, period)
<1>1. PICK new : new = RunRow(L, R, period)
  OBVIOUS
<1>2. run \in Seq(S \cup {new})
  OBVIOUS
<1>3. run' = Append(run, new)
  BY <1>1, RunWrites
<1>4. run'[Len(run')] = new
  BY <1>2, <1>3
<1> QED
  BY <1>1, <1>4 DEF NewRun

LEMMA Reversed ==
    ASSUME FilesInv, DecisionsInv, NEW L, NEW R, NEW period, StartRun(L, R, period),
           \E S : run \in Seq(S), NEW i \in DOMAIN resolution
    PROVE  LET found == UNION {{p.left, p.right} : p \in {q \in NewRun'.pairs : ~q.manual}}
           IN  (resolution'[i] # resolution[i]) <=>
                   /\ Live(resolution[i])
                   /\ resolution[i].kind = "accept_unmatched"
                   /\ resolution[i].left \in found
<1> DEFINE found == UNION {{p.left, p.right} : p \in {q \in NewRun'.pairs : ~q.manual}}
<1>1. PICK in : in = RunInput(L, R, period)
  OBVIOUS
<1>2. /\ <<L, R>> \in SourcePairs /\ Unambiguous(L, period) /\ Unambiguous(R, period)
      /\ run' = Append(run, RunRow(L, R, period))
      /\ resolution' = [d \in DOMAIN resolution |->
                          IF d \in RevokedRows(MatchResult(in))
                          THEN [resolution[d] EXCEPT !.stamp = "withdrawn"]
                          ELSE resolution[d]]
  BY <1>1, RunWrites
<1>3. IsInput(in) /\ Coherent(in)
  BY <1>1, <1>2, RunReads
<1>4. NewRun' = RunRow(L, R, period)
  BY RunAdded
<1>5. NewRun'.pairs = PairRows(MatchResult(in))
  BY <1>1, <1>4 DEF RunRow
<1>6. NewRun'.pairs = PairsOf(in)
  BY <1>1, <1>3, <1>5, PairsWritten
<1>7. \A key : key \in found <=> \E p \in ReferencePairs(in) : key \in {Key(p[1]), Key(p[2])}
  <2>1. \A p : LET q == PairWritten(in, p, FALSE) IN ~q.manual /\ {q.left, q.right} = {Key(p[1]), Key(p[2])}
    BY DEF PairWritten
  <2>2. \A p : PairWritten(in, p, TRUE).manual
    BY DEF PairWritten
  <2>3. \A q : q \in NewRun'.pairs /\ ~q.manual <=> \E p \in ReferencePairs(in) : q = PairWritten(in, p, FALSE)
    BY <1>6, <2>1, <2>2 DEF PairsOf
  <2>4. \A key : key \in found <=> \E q \in NewRun'.pairs : ~q.manual /\ key \in {q.left, q.right}
    OBVIOUS
  <2> HIDE DEF found
  <2>5. ASSUME NEW key, key \in found
        PROVE  \E p \in ReferencePairs(in) : key \in {Key(p[1]), Key(p[2])}
    <3>1. PICK q \in NewRun'.pairs : ~q.manual /\ key \in {q.left, q.right}
      BY <2>4, <2>5
    <3>2. PICK p \in ReferencePairs(in) : q = PairWritten(in, p, FALSE)
      BY <2>3, <3>1
    <3> QED
      BY <2>1, <3>1, <3>2
  <2>6. ASSUME NEW p \in ReferencePairs(in), NEW key \in {Key(p[1]), Key(p[2])}
        PROVE  key \in found
    <3>1. PICK q : q = PairWritten(in, p, FALSE)
      OBVIOUS
    <3>2. q \in NewRun'.pairs /\ ~q.manual /\ key \in {q.left, q.right}
      BY <2>1, <2>3, <3>1
    <3> QED
      BY <2>4, <3>2
  <2> QED
    BY <2>5, <2>6
<1> HIDE DEF found
<1>8. i \in RevokedRows(MatchResult(in)) <=>
         /\ resolution[i].stamp = "live" /\ resolution[i].kind = "accept_unmatched"
         /\ resolution[i].left \in found
  BY <1>1, <1>3, <1>7, RevokedAre
<1>9. (resolution'[i] # resolution[i]) <=> i \in RevokedRows(MatchResult(in))
  <2>1. CASE i \in RevokedRows(MatchResult(in))
    <3>1. resolution[i] \in Rows!Resolution
      BY DEF DecisionsInv, Rows!TypeOK
    <3>2. resolution'[i].stamp = "withdrawn"
      BY <1>2, <2>1, <3>1 DEF Rows!Resolution
    <3> QED
      BY <1>8, <2>1, <3>2
  <2>2. CASE i \notin RevokedRows(MatchResult(in))
    BY <1>2, <2>2
  <2> QED
    BY <2>1, <2>2
<1> QED
  BY <1>8, <1>9 DEF Live, found

\* A run reverses exactly the acceptances whose record it paired by
\* reference, and no other decision (R7.7, R7.8): the row each revoked key
\* leads it to is the row of that acceptance.
THEOREM OnlyMistakesReversed == Spec => OnlyMistakenAcceptancesReversed
<1>1. ASSUME ServiceInv, [Next]_vars
      PROVE  Len(run') > Len(run) =>
               LET found == UNION {{p.left, p.right} : p \in {q \in NewRun'.pairs : ~q.manual}}
               IN  \A i \in DOMAIN resolution :
                      (resolution'[i] # resolution[i]) <=>
                          /\ Live(resolution[i])
                          /\ resolution[i].kind = "accept_unmatched"
                          /\ resolution[i].left \in found
  <2>1. PICK S : run \in Seq(S)
    BY <1>1 DEF ServiceInv, RunsInv
  <2>2. CASE UNCHANGED run
    <3>1. Len(run) \in Nat /\ Len(run') = Len(run)
      BY <2>1, <2>2
    <3> QED
      BY <3>1
  <2>3. CASE \E pair \in SourcePairs, period \in Periods : StartRun(pair[1], pair[2], period)
    BY <1>1, <2>1, <2>3, Reversed DEF ServiceInv
  <2> QED
    BY <1>1, <2>2, <2>3, StepGrows DEF ServiceInv
<1>2. ServiceInv /\ [Next]_vars =>
        [Len(run') > Len(run) =>
               LET found == UNION {{p.left, p.right} : p \in {q \in NewRun'.pairs : ~q.manual}}
               IN  \A i \in DOMAIN resolution :
                      (resolution'[i] # resolution[i]) <=>
                          /\ Live(resolution[i])
                          /\ resolution[i].kind = "accept_unmatched"
                          /\ resolution[i].left \in found]_vars
  BY <1>1
<1> QED
  BY <1>2, ServiceInductive, PTL DEF OnlyMistakenAcceptancesReversed, Spec

----------------------------------------------------------------------------
(* Running again.                                                          *)

\* What a run reads of the deliveries, and writes of those withdrawn,
\* depends on the deliveries only.
LEMMA SameFiles ==
    ASSUME file_batch' = file_batch, NEW source, NEW period
    PROVE  /\ Side(source, period)' = Side(source, period)
           /\ CurrentFile(source, period)' = CurrentFile(source, period)
           /\ WithdrawnItems(source, period)' = WithdrawnItems(source, period)
           /\ RejectedCount(source, period)' = RejectedCount(source, period)
           /\ Unambiguous(source, period)' <=> Unambiguous(source, period)
<1>1. Current(source, period)' = Current(source, period)
  BY DEF Current, Files!CurrentBatch, Files!SamePeriod
<1>2. CurrentRecords(source, period)' = CurrentRecords(source, period)
  BY <1>1 DEF CurrentRecords
<1>3. Side(source, period)' = Side(source, period)
  BY <1>2 DEF Side, RowAt, Normalized
<1>4. CurrentFile(source, period)' = CurrentFile(source, period)
  BY <1>1 DEF CurrentFile
<1>5. Files!WithdrawnReferences(source, period)' = Files!WithdrawnReferences(source, period)
  BY DEF Files!WithdrawnReferences, Files!SupersededBatches, Files!CurrentBatch, Files!SamePeriod, Files!ReferencesIn
<1>6. \A reference : LatestSuperseded(source, period, reference)' = LatestSuperseded(source, period, reference)
  BY DEF LatestSuperseded, Files!SupersededBatches, Files!SamePeriod, Files!ReferencesIn
<1>7. WithdrawnItems(source, period)' = WithdrawnItems(source, period)
  BY <1>5, <1>6 DEF WithdrawnItems, Item
<1>8. RejectedCount(source, period)' = RejectedCount(source, period)
  BY <1>1, <1>4 DEF RejectedCount
<1>9. Unambiguous(source, period)' <=> Unambiguous(source, period)
  BY <1>2 DEF Unambiguous, RowAt
<1> QED
  BY <1>3, <1>4, <1>7, <1>8, <1>9

\* What the next run is given, when nothing is loaded and nothing decided in
\* between, is what this run leaves.
LEMMA NextInput ==
    ASSUME FilesInv, DecisionsInv, NEW L, NEW R, NEW period, StartRun(L, R, period),
           NEW in, in = RunInput(L, R, period)
    PROVE  RunInput(L, R, period)' = AfterRun(in)
<1>0. Rows!TypeOK
  BY DEF DecisionsInv
<1>1. /\ <<L, R>> \in SourcePairs /\ Unambiguous(L, period) /\ Unambiguous(R, period)
      /\ file_batch' = file_batch
      /\ resolution' = [i \in DOMAIN resolution |->
                          IF i \in RevokedRows(MatchResult(in))
                          THEN [resolution[i] EXCEPT !.stamp = "withdrawn"]
                          ELSE resolution[i]]
  BY RunWrites
<1>2. IsInput(in) /\ Coherent(in)
  BY <1>1, RunReads
<1>3. PICK prior : prior = in.prior /\ prior = LoadPriorResolutions(L, R, period)
  BY DEF RunInput
<1>4. PICK gone : gone = UNION {GoverningRow(in, key) : key \in Revoked(in)}
  OBVIOUS
<1>5. ASSUME NEW i \in DOMAIN prior
      PROVE  i \in gone <=> i \in RevokedRows(MatchResult(in))
  <2>1. i \in gone <=> prior[i].kind = "accept_unmatched" /\ prior[i].left \in Revoked(in)
    BY <1>2, <1>3, <1>4, WithdrawnRows
  <2>2. /\ i \in DOMAIN resolution /\ resolution[i].stamp = "live"
        /\ prior[i].kind = resolution[i].kind
        /\ resolution[i].kind = "accept_unmatched" => prior[i].left = resolution[i].left
    BY <1>3, ReadDecisionStands
  <2>3. prior[i].kind = "accept_unmatched" => prior[i].left \in Accepted(in)
    BY <1>3 DEF Accepted, DecisionsOf
  <2>4. prior[i].kind = "accept_unmatched" =>
           (prior[i].left \in Revoked(in) <=>
               \E p \in ReferencePairs(in) : prior[i].left \in {Key(p[1]), Key(p[2])})
    BY <2>3 DEF Revoked
  <2>5. i \in RevokedRows(MatchResult(in)) <=>
           /\ resolution[i].stamp = "live" /\ resolution[i].kind = "accept_unmatched"
           /\ \E p \in ReferencePairs(in) : resolution[i].left \in {Key(p[1]), Key(p[2])}
    BY <1>2, <2>2, RevokedAre
  <2> QED
    BY <2>1, <2>2, <2>4, <2>5
<1>6. ASSUME NEW i \in DOMAIN resolution
      PROVE  /\ Decisions!Oriented(resolution'[i], R) = Decisions!Oriented(resolution[i], R)
             /\ Decisions!AboutSources(resolution'[i], L, R) <=>
                   /\ Decisions!AboutSources(resolution[i], L, R)
                   /\ i \notin RevokedRows(MatchResult(in))
  <2>1. resolution[i] \in Rows!Resolution
    BY <1>0 DEF Rows!TypeOK
  <2>2. /\ resolution'[i].kind = resolution[i].kind
        /\ resolution'[i].left = resolution[i].left
        /\ resolution'[i].right = resolution[i].right
        /\ resolution'[i].stamp = IF i \in RevokedRows(MatchResult(in)) THEN "withdrawn"
                                  ELSE resolution[i].stamp
    BY <1>1, <2>1 DEF Rows!Resolution
  <2> QED
    BY <2>2 DEF Decisions!Oriented, Decisions!AboutSources, Decisions!Live
<1>7. DOMAIN resolution' = DOMAIN resolution
  BY <1>1
<1>8. \A i : i \in DOMAIN prior <=> i \in DOMAIN resolution /\ Decisions!AboutSources(resolution[i], L, R)
  BY <1>0, <1>3, DecisionsRead
<1>9. \A i \in DOMAIN prior : prior[i] = Decisions!Oriented(resolution[i], R)
  BY <1>0, <1>3, DecisionsRead
<1>10. LoadPriorResolutions(L, R, period)' = [i \in DOMAIN prior \ gone |-> prior[i]]
  <2> DEFINE about == {i \in DOMAIN resolution' : Decisions!AboutSources(resolution'[i], L, R)}
  <2>1. LoadPriorResolutions(L, R, period)' = [i \in about |-> Decisions!Oriented(resolution'[i], R)]
    BY DEF LoadPriorResolutions, Decisions!PriorResolutions, Decisions!AboutSources,
           Decisions!Live, Decisions!Oriented
  <2>2. \A i : i \in about <=> i \in DOMAIN prior \ gone
    BY <1>5, <1>6, <1>7, <1>8
  <2>3. about = DOMAIN prior \ gone
    BY <2>2
  <2>4. \A i \in DOMAIN prior \ gone : Decisions!Oriented(resolution'[i], R) = prior[i]
    BY <1>6, <1>8, <1>9
  <2> HIDE DEF about
  <2> QED
    BY <2>1, <2>3, <2>4
<1>11. LoadPriorResolutions(L, R, period)' = PriorAfterRun(in)
  BY <1>3, <1>4, <1>10 DEF PriorAfterRun
<1>12. Side(L, period)' = Side(L, period) /\ Side(R, period)' = Side(R, period)
  BY <1>1, SameFiles
<1> QED
  BY <1>11, <1>12 DEF RunInput, AfterRun

\* The pairs it would write, and the lines, are those this run wrote.
LEMMA SameAnswer ==
    ASSUME NEW in, IsInput(in), Coherent(in), NEW period
    PROVE  /\ PairsOf(AfterRun(in)) = PairsOf(in)
           /\ RecordItems(MatchResult(AfterRun(in)), period) = RecordItems(MatchResult(in), period)
<1> DEFINE after == AfterRun(in)
<1>1. /\ ManualPairs(after) = ManualPairs(in) /\ ReferencePairs(after) = ReferencePairs(in)
      /\ Suggestions(after) = Suggestions(in)
      /\ AcceptedUnmatched(after) = AcceptedUnmatched(in) /\ Unmatched(after) = Unmatched(in)
      /\ StatusDisagreements(after) = StatusDisagreements(in)
  BY NextRunAgrees
<1>2. after.left = in.left /\ after.right = in.right
  BY DEF AfterRun
<1>3. /\ \A i : i \in DOMAIN after.prior <=>
              i \in DOMAIN in.prior /\ ~(in.prior[i].kind = "accept_unmatched" /\ in.prior[i].left \in Revoked(in))
      /\ \A i \in DOMAIN after.prior : after.prior[i] = in.prior[i]
  BY WithdrawnRows DEF AfterRun, PriorAfterRun
<1> HIDE DEF after
<1>4. DecisionsOf(after, "manual_match") = DecisionsOf(in, "manual_match")
  BY <1>3 DEF DecisionsOf
<1>5. \A i \in DecisionsOf(in, "manual_match") : after.prior[i] = in.prior[i]
  BY <1>3 DEF DecisionsOf
<1>6. \A p, manual : PairWritten(after, p, manual) = PairWritten(in, p, manual)
  BY <1>4, <1>5 DEF PairWritten
<1>7. PairsOf(after) = PairsOf(in)
  <2>1. {PairWritten(after, p, TRUE) : p \in ManualPairs(after)} = {PairWritten(in, p, TRUE) : p \in ManualPairs(in)}
    BY <1>1, <1>6
  <2>2. {PairWritten(after, p, FALSE) : p \in ReferencePairs(after)} =
           {PairWritten(in, p, FALSE) : p \in ReferencePairs(in)}
    BY <1>1, <1>6
  <2> QED
    BY <2>1, <2>2 DEF PairsOf
<1>8. Suggested(after) = Suggested(in)
  BY <1>1 DEF Suggested
<1>9. RecordItems(MatchResult(after), period) = RecordItems(MatchResult(in), period)
  <2>1. PICK one, other : one = MatchResult(after) /\ other = MatchResult(in)
    OBVIOUS
  <2>2. /\ one.manual = other.manual /\ one.reference = other.reference
        /\ one.suggested = other.suggested /\ one.unmatched = other.unmatched
        /\ one.accepted_unmatched = other.accepted_unmatched
        /\ one.status_disagreements = other.status_disagreements /\ one.excluded = other.excluded
    BY <1>1, <1>2, <1>8, <2>1 DEF MatchResult
  <2>3. RecordItems(one, period) = RecordItems(other, period)
    BY <2>2 DEF RecordItems
  <2> QED
    BY <2>1, <2>3
<1> QED
  BY <1>7, <1>9 DEF after

\* A run over the tables as they are would write this again.
Repeats(row) ==
    LET in == RunInput(row.left, row.right, row.period) IN
    /\ Unambiguous(row.left, row.period) /\ Unambiguous(row.right, row.period)
    /\ row.pairs = PairsOf(in)
    /\ row.items = RecordItems(MatchResult(in), row.period) \cup
                      WithdrawnItems(row.left, row.period) \cup WithdrawnItems(row.right, row.period)
    /\ row.counts = Counts(row.items, RejectedCount(row.left, row.period)
                                         + RejectedCount(row.right, row.period))

\* The last run can be repeated as long as nothing was loaded or decided.
LastRunStands ==
    \A k \in DOMAIN run :
        (k = Len(run) /\ run[k].files = Len(file_batch) /\ run[k].decisions = Len(resolution))
            => Repeats(run[k])

LEMMA RunRepeats ==
    ASSUME FilesInv, DecisionsInv, NEW L, NEW R, NEW period, <<L, R>> \in SourcePairs,
           Unambiguous(L, period), Unambiguous(R, period),
           NEW new, new = RunRow(L, R, period),
           NEW old, old.left = L, old.right = R, old.period = period
    PROVE  Repeats(old) <=>
              <<old.items, old.pairs, old.counts>> = <<new.items, new.pairs, new.counts>>
<1>1. PICK in : in = RunInput(L, R, period)
  OBVIOUS
<1>2. IsInput(in) /\ Coherent(in)
  BY <1>1, RunReads
<1>3. PairRows(MatchResult(in)) = PairsOf(in)
  BY <1>1, <1>2, PairsWritten
<1>4. /\ new.pairs = PairRows(MatchResult(in))
      /\ new.items = RecordItems(MatchResult(in), period) \cup
                        WithdrawnItems(L, period) \cup WithdrawnItems(R, period)
      /\ new.counts = Counts(new.items, RejectedCount(L, period) + RejectedCount(R, period))
  BY <1>1 DEF RunRow
<1> QED
  BY <1>1, <1>3, <1>4 DEF Repeats

LEMMA StillRepeats ==
    ASSUME FilesInv, DecisionsInv, NEW L, NEW R, NEW period, StartRun(L, R, period),
           NEW new, new = RunRow(L, R, period)
    PROVE  Repeats(new)'
<1>1. PICK in : in = RunInput(L, R, period)
  OBVIOUS
<1>2. /\ <<L, R>> \in SourcePairs /\ Unambiguous(L, period) /\ Unambiguous(R, period)
      /\ file_batch' = file_batch
  BY RunWrites
<1>3. IsInput(in) /\ Coherent(in)
  BY <1>1, <1>2, RunReads
<1>4. RunInput(L, R, period)' = AfterRun(in)
  BY <1>1, NextInput
<1>5. new.left = L /\ new.right = R /\ new.period = period
  BY DEF RunRow
<1>6. Repeats(new)
  BY <1>2, <1>5, RunRepeats
<1>7. /\ new.pairs = PairsOf(in)
      /\ new.items = RecordItems(MatchResult(in), period) \cup
                        WithdrawnItems(L, period) \cup WithdrawnItems(R, period)
      /\ new.counts = Counts(new.items, RejectedCount(L, period) + RejectedCount(R, period))
  BY <1>1, <1>5, <1>6 DEF Repeats
<1>8. /\ WithdrawnItems(L, period)' = WithdrawnItems(L, period)
      /\ WithdrawnItems(R, period)' = WithdrawnItems(R, period)
      /\ RejectedCount(L, period)' = RejectedCount(L, period)
      /\ RejectedCount(R, period)' = RejectedCount(R, period)
      /\ Unambiguous(L, period)' /\ Unambiguous(R, period)'
  BY <1>2, SameFiles
<1>9. \A result : RecordItems(result, period)' = RecordItems(result, period)
  <2>1. \A source : CurrentFile(source, period)' = CurrentFile(source, period)
    BY <1>2, SameFiles
  <2> QED
    BY <2>1 DEF RecordItems, Item
<1>10. /\ PairsOf(AfterRun(in)) = PairsOf(in)
       /\ RecordItems(MatchResult(AfterRun(in)), period) = RecordItems(MatchResult(in), period)
  BY <1>3, SameAnswer
<1> QED
  BY <1>4, <1>5, <1>7, <1>8, <1>9, <1>10 DEF Repeats

\* Where the two halves of the argument meet: a run that follows the last
\* with nothing in between writes what that one would write again.
RepeatInv == RerunIsTheSame /\ LastRunStands

LEMMA RepeatStartRun ==
    ASSUME ServiceInv, RepeatInv, NEW L, NEW R, NEW period, StartRun(L, R, period)
    PROVE  RepeatInv'
<1>1. PICK new : new = RunRow(L, R, period)
  OBVIOUS
<1>2. /\ <<L, R>> \in SourcePairs /\ Unambiguous(L, period) /\ Unambiguous(R, period)
      /\ run' = Append(run, new) /\ file_batch' = file_batch
  BY <1>1, RunWrites
<1>3. /\ new.left = L /\ new.right = R /\ new.period = period
      /\ new.files = Len(file_batch) /\ new.decisions = Len(resolution)
  BY <1>1 DEF RunRow
<1>4. FilesInv /\ DecisionsInv
  BY DEF ServiceInv
<1>5. PICK S : run \in Seq(S)
  BY DEF ServiceInv, RunsInv
<1>6. run \in Seq(S \cup {new})
  BY <1>5
<1>7. /\ Len(run) \in Nat /\ DOMAIN run = 1..Len(run) /\ Len(run') = Len(run) + 1
      /\ DOMAIN run' = 1..Len(run) + 1
      /\ run'[Len(run) + 1] = new
      /\ \A k \in DOMAIN run : run'[k] = run[k]
  BY <1>2, <1>6
<1>8. ASSUME NEW k \in 1..Len(run') - 1, SameInputs(run'[k], run'[k + 1])
      PROVE  <<run'[k + 1].items, run'[k + 1].pairs, run'[k + 1].counts>> =
                <<run'[k].items, run'[k].pairs, run'[k].counts>>
  <2>1. CASE k + 1 \in DOMAIN run
    <3>1. k \in 1..Len(run) - 1 /\ k \in DOMAIN run
      BY <1>7, <2>1
    <3>2. run'[k] = run[k] /\ run'[k + 1] = run[k + 1]
      BY <1>7, <2>1, <3>1
    <3> QED
      BY <1>8, <3>1, <3>2 DEF RepeatInv, RerunIsTheSame
  <2>2. CASE k = Len(run)
    <3>1. k \in DOMAIN run /\ run'[k] = run[k] /\ run'[k + 1] = new
      BY <1>7, <2>2
    <3>2. PICK old : old = run[k]
      OBVIOUS
    <3>3. /\ old.left = L /\ old.right = R /\ old.period = period
          /\ old.files = Len(file_batch) /\ old.decisions = Len(resolution)
      BY <1>3, <1>8, <3>1, <3>2 DEF SameInputs
    <3>4. Repeats(old)
      BY <2>2, <3>1, <3>2, <3>3 DEF RepeatInv, LastRunStands
    <3>5. <<old.items, old.pairs, old.counts>> = <<new.items, new.pairs, new.counts>>
      BY <1>1, <1>2, <1>4, <3>3, <3>4, RunRepeats
    <3> QED
      BY <3>1, <3>2, <3>5
  <2> QED
    BY <1>7, <2>1, <2>2
<1>9. ASSUME NEW k \in DOMAIN run', k = Len(run')
      PROVE  Repeats(run[k])'
  <2>1. run'[k] = new
    BY <1>7, <1>9
  <2>2. Repeats(new)'
    BY <1>1, <1>4, StillRepeats
  <2> QED
    BY <2>1, <2>2 DEF Repeats
<1> QED
  BY <1>8, <1>9 DEF RepeatInv, RerunIsTheSame, LastRunStands, SameInputs

\* Anything else that happens makes the inputs of the next run differ.
LEMMA RepeatElse ==
    ASSUME ServiceInv, RepeatInv, UNCHANGED run,
           \/ Len(file_batch') = Len(file_batch) + 1
           \/ Len(resolution') = Len(resolution) + 1
           \/ UNCHANGED <<file_batch, resolution>>
    PROVE  RepeatInv'
<1>1. RerunIsTheSame'
  BY DEF RepeatInv, RerunIsTheSame, SameInputs
<1>2. ASSUME NEW k \in DOMAIN run, k = Len(run),
             run[k].files = Len(file_batch'), run[k].decisions = Len(resolution')
      PROVE  UNCHANGED <<file_batch, resolution>>
  <2>1. PICK in : FilesSay(run[k], in) /\ DecisionsSay(run[k], in)
    BY DEF ServiceInv, RunsInv
  <2>2. run[k].files <= Len(file_batch) /\ run[k].decisions <= Len(resolution)
    BY <2>1 DEF FilesSay, DecisionsSay
  <2>3. Len(file_batch) \in Nat /\ Len(resolution) \in Nat
    BY FileRows, DecisionsStored DEF ServiceInv, DecisionsInv
  <2> QED
    BY <1>2, <2>2, <2>3
<1>3. ASSUME NEW k \in DOMAIN run, k = Len(run), UNCHANGED <<file_batch, resolution>>
      PROVE  Repeats(run[k])' <=> Repeats(run[k])
  <2>1. UNCHANGED <<file_batch, resolution, run>>
    BY <1>3
  <2>2. \A source, period : /\ Side(source, period)' = Side(source, period)
                            /\ CurrentFile(source, period)' = CurrentFile(source, period)
                            /\ WithdrawnItems(source, period)' = WithdrawnItems(source, period)
                            /\ RejectedCount(source, period)' = RejectedCount(source, period)
                            /\ Unambiguous(source, period)' <=> Unambiguous(source, period)
    BY <2>1, SameFiles
  <2>3. \A L, R, period : RunInput(L, R, period)' = RunInput(L, R, period)
    BY <2>1, <2>2 DEF RunInput, LoadPriorResolutions, Decisions!PriorResolutions, Decisions!AboutSources,
                      Decisions!Live, Decisions!Oriented
  <2>4. \A result, period : RecordItems(result, period)' = RecordItems(result, period)
    BY <2>2 DEF RecordItems, Item
  <2> QED
    BY <2>1, <2>2, <2>3, <2>4 DEF Repeats
<1>4. LastRunStands'
  BY <1>2, <1>3 DEF RepeatInv, LastRunStands
<1> QED
  BY <1>1, <1>4 DEF RepeatInv

LEMMA RepeatStep == ServiceInv /\ RepeatInv /\ [Next]_vars => RepeatInv'
<1> SUFFICES ASSUME ServiceInv, RepeatInv, [Next]_vars PROVE RepeatInv'
  OBVIOUS
<1>1. ASSUME NEW source \in Sources, NEW period \in Periods, NEW content \in Contents,
             Upload(source, period, content)
      PROVE  RepeatInv'
  <2>1. Len(file_batch') = Len(file_batch) + 1
    BY <1>1, UploadRows DEF ServiceInv, Batches!Accepted
  <2> QED
    BY <1>1, <2>1, RepeatElse DEF Upload
<1>2. ASSUME NEW left \in Identity, NEW right \in Identity \cup {NoRecord},
             CreateResolution(left, right)
      PROVE  RepeatInv'
  <2>1. Len(resolution') = Len(resolution) + 1
    BY <1>2, CreateGrows DEF ServiceInv, DecisionsInv
  <2> QED
    BY <1>2, <2>1, RepeatElse DEF CreateResolution
<1>3. CASE UNCHANGED vars
  BY <1>3, RepeatElse DEF vars
<1> QED
  BY <1>1, <1>2, <1>3, RepeatStartRun DEF Next

\* Running again with nothing loaded and nothing decided in between gives
\* the same lines, pairs and counts, although the first run may have
\* withdrawn acceptances and the second is given fewer (TR-702).
THEOREM RunningAgainIsTheSame == Spec => []RerunIsTheSame
<1>1. Init => RepeatInv
  BY DEF Init, RepeatInv, RerunIsTheSame, LastRunStands
<1>2. RepeatInv => RerunIsTheSame
  BY DEF RepeatInv
<1> QED
  BY <1>1, <1>2, RepeatStep, ServiceInductive, PTL DEF Spec

----------------------------------------------------------------------------
(* The sums.                                                               *)

InStates(items, states) == {item \in items : item.state \in states}

StateCount(items, state) == Cardinality({item \in items : item.state = state})

\* Counting the items of one more state.
LEMMA OneMoreState ==
    ASSUME NEW items, IsFiniteSet(items), NEW states, NEW state, state \notin states
    PROVE  /\ StateCount(items, state) \in Nat
           /\ Cardinality(InStates(items, states)) \in Nat
           /\ Cardinality(InStates(items, states \cup {state})) =
                 Cardinality(InStates(items, states)) + StateCount(items, state)
<1> DEFINE those == InStates(items, states)
           these == {item \in items : item.state = state}
<1>1. those \in SUBSET items /\ these \in SUBSET items
  BY DEF InStates
<1>2. IsFiniteSet(those) /\ IsFiniteSet(these)
  BY <1>1, FS_Subset
<1>3. those \cup these = InStates(items, states \cup {state}) /\ those \cap these = {}
  BY DEF InStates
<1> HIDE DEF those, these
<1>4. Cardinality(those) \in Nat /\ Cardinality(these) \in Nat
  BY <1>2, FS_CardinalityType
<1>5. Cardinality(those \cup these) = Cardinality(those) + Cardinality(these) - Cardinality(those \cap these)
  BY <1>2, FS_Union
<1>6. Cardinality(those \cap these) = 0
  BY <1>3, FS_EmptySet
<1>7. Cardinality(those \cup these) = Cardinality(those) + Cardinality(these)
  BY <1>4, <1>5, <1>6
<1> QED
  BY <1>3, <1>4, <1>7 DEF those, these, StateCount

\* Six counts of items add up to the items of the worklist.
LEMMA WorklistCounts ==
    ASSUME NEW items, IsFiniteSet(items)
    PROVE  /\ \A state : StateCount(items, state) \in Nat
           /\ Cardinality(InStates(items, Worklist)) =
                 StateCount(items, "break") + StateCount(items, "suggested")
                     + StateCount(items, "unmatched") + StateCount(items, "status_disagreement")
                     + StateCount(items, "withdrawn") + StateCount(items, "rejected_row")
<1> DEFINE in(states) == Cardinality(InStates(items, states))
           of(state) == StateCount(items, state)
           a == {} \cup {"break"}
           b == a \cup {"suggested"}
           c == b \cup {"unmatched"}
           d == c \cup {"status_disagreement"}
           e == d \cup {"withdrawn"}
           f == e \cup {"rejected_row"}
<1>1. in({}) = 0
  BY FS_EmptySet DEF InStates
<1>2. f = Worklist
  BY DEF Worklist
<1>3. \A states, state : state \notin states =>
         of(state) \in Nat /\ in(states) \in Nat /\ in(states \cup {state}) = in(states) + of(state)
  BY OneMoreState
<1> HIDE DEF in, of
<1>4. ASSUME NEW state PROVE of(state) \in Nat
  <2>1. state \notin {}
    OBVIOUS
  <2> QED
    BY <1>3, <2>1
<1>5. in(a) = in({}) + of("break")
  BY <1>3
<1>6. in(b) = in(a) + of("suggested")
  BY <1>3
<1>7. in(c) = in(b) + of("unmatched")
  BY <1>3
<1>8. in(d) = in(c) + of("status_disagreement")
  BY <1>3
<1>9. in(e) = in(d) + of("withdrawn")
  BY <1>3
<1>10. in(f) = in(e) + of("rejected_row")
  BY <1>3
<1> HIDE DEF a, b, c, d, e, f
<1>11. /\ of("break") \in Nat /\ of("suggested") \in Nat /\ of("unmatched") \in Nat
       /\ of("status_disagreement") \in Nat /\ of("withdrawn") \in Nat /\ of("rejected_row") \in Nat
  BY <1>4
<1>12. in(f) = of("break") + of("suggested") + of("unmatched")
                  + of("status_disagreement") + of("withdrawn") + of("rejected_row")
  BY <1>1, <1>5, <1>6, <1>7, <1>8, <1>9, <1>10, <1>11
<1> QED
  BY <1>2, <1>4, <1>12 DEF in, of

\* The counts of a run add up to its items and the rows that failed to load.
LEMMA CountsAddUp ==
    ASSUME NEW items, IsFiniteSet(items), \A item \in items : item.state \in RecordState,
           NEW rejected \in Nat
    PROVE  Total(Counts(items, rejected)) = Cardinality(items) + rejected
<1> DEFINE in(states) == Cardinality(InStates(items, states))
           of(state) == StateCount(items, state)
           a == {"excluded"}
           b == a \cup {"status_disagreement"}
           c == b \cup {"accepted_unmatched"}
           d == c \cup {"unmatched"}
           e == d \cup {"suggested"}
           f == e \cup {"break"}
           g == f \cup {"agreed_with_drift"}
           h == g \cup {"agreed"}
           i == h \cup {"withdrawn"}
           j == i \cup {"rejected_row"}
<1>1. in({}) = 0
  BY FS_EmptySet DEF InStates
<1>2. in(j) = Cardinality(items)
  <2>1. InStates(items, j) = items
    BY DEF InStates, RecordState
  <2> QED
    BY <2>1
<1>3. \A states, state : state \notin states =>
         of(state) \in Nat /\ in(states) \in Nat /\ in(states \cup {state}) = in(states) + of(state)
  BY OneMoreState
<1> HIDE DEF in, of
<1>0. ASSUME NEW state PROVE of(state) \in Nat
  <2>1. state \notin {} => of(state) \in Nat /\ in({} \cup {state}) = in({}) + of(state)
    BY <1>3
  <2> QED
    BY <2>1
<1>4. in(a) = of("excluded") /\ of("excluded") \in Nat
  <2>1. in({} \cup {"excluded"}) = in({}) + of("excluded")
    BY <1>3
  <2>2. {} \cup {"excluded"} = a
    OBVIOUS
  <2> QED
    BY <1>0, <1>1, <2>1, <2>2
<1>5. in(b) = in(a) + of("status_disagreement") /\ of("status_disagreement") \in Nat
  BY <1>3
<1>6. in(c) = in(b) + of("accepted_unmatched") /\ of("accepted_unmatched") \in Nat
  BY <1>3
<1>7. in(d) = in(c) + of("unmatched") /\ of("unmatched") \in Nat
  BY <1>3
<1>8. in(e) = in(d) + of("suggested") /\ of("suggested") \in Nat
  BY <1>3
<1>9. in(f) = in(e) + of("break") /\ of("break") \in Nat
  BY <1>3
<1>10. in(g) = in(f) + of("agreed_with_drift") /\ of("agreed_with_drift") \in Nat
  BY <1>3
<1>11. in(h) = in(g) + of("agreed") /\ of("agreed") \in Nat
  BY <1>3
<1>12. in(i) = in(h) + of("withdrawn") /\ of("withdrawn") \in Nat
  BY <1>3
<1>13. in(j) = in(i) + of("rejected_row") /\ of("rejected_row") \in Nat
  BY <1>3
<1>14. \A state \in RecordState :
          Counts(items, rejected)[state] = of(state) + IF state = "rejected_row" THEN rejected ELSE 0
  BY DEF Counts, of, StateCount
<1>15. Total(Counts(items, rejected)) =
          of("excluded") + of("status_disagreement") + of("accepted_unmatched") + of("unmatched")
              + of("suggested") + of("break") + of("agreed_with_drift") + of("agreed")
              + of("withdrawn") + (of("rejected_row") + rejected)
  <2>1. PICK counts : counts = Counts(items, rejected)
    OBVIOUS
  <2>2. \A state \in RecordState : state # "rejected_row" => counts[state] = of(state)
    BY <1>0, <1>14, <2>1
  <2>3. counts["rejected_row"] = of("rejected_row") + rejected
    BY <1>14, <2>1 DEF RecordState
  <2> QED
    BY <2>1, <2>2, <2>3 DEF Total, RecordState
<1> HIDE DEF a, b, c, d, e, f, g, h, i, j
<1>16. in(j) = of("excluded") + of("status_disagreement") + of("accepted_unmatched") + of("unmatched")
                   + of("suggested") + of("break") + of("agreed_with_drift") + of("agreed")
                   + of("withdrawn") + of("rejected_row")
  BY <1>4, <1>5, <1>6, <1>7, <1>8, <1>9, <1>10, <1>11, <1>12, <1>13
<1> QED
  BY <1>0, <1>2, <1>15, <1>16

\* The references a current delivery has.
CurrentReferences(source, period) == {RowAt(p).reference : p \in CurrentRecords(source, period)}

\* There is one for every row, when none is repeated.
LEMMA RowsCounted ==
    ASSUME FilesStored, NEW source, NEW period, Unambiguous(source, period)
    PROVE  /\ IsFiniteSet(CurrentReferences(source, period))
           /\ RowsDelivered(source, period) =
                 Cardinality(CurrentReferences(source, period)) + RejectedCount(source, period)
<1>1. CASE Current(source, period) = {}
  <2>1. CurrentReferences(source, period) = {}
    BY <1>1 DEF CurrentReferences, CurrentRecords
  <2> QED
    BY <1>1, <2>1, FS_EmptySet DEF RowsDelivered, RejectedCount
<1>2. CASE Current(source, period) # {}
  <2>1. PICK b : b = CurrentFile(source, period)
    OBVIOUS
  <2>2. b \in Current(source, period) /\ b \in DOMAIN file_batch
    BY <1>2, <2>1, CurrentIsOne
  <2> DEFINE rows == file_batch[b].records
             refs == CurrentReferences(source, period)
             of == [n \in DOMAIN rows |-> rows[n].reference]
  <2>3. /\ DOMAIN rows = 1..Len(rows) /\ Len(rows) \in Nat /\ file_batch[b].errors \in Nat
    BY <2>2, RowsStored
  <2>4. \A p : p \in CurrentRecords(source, period) <=> \E n \in DOMAIN rows : p = <<b, n>>
    <3>1. \A c \in Current(source, period) : c = b
      BY <2>1, CurrentIsOne
    <3> QED
      BY <2>2, <3>1 DEF CurrentRecords
  <2>5. \A n \in DOMAIN rows : RowAt(<<b, n>>).reference = rows[n].reference
    BY DEF RowAt
  <2>6. \A ref : ref \in refs <=> \E n \in DOMAIN rows : rows[n].reference = ref
    <3>1. \A ref : ref \in refs <=> \E p \in CurrentRecords(source, period) : RowAt(p).reference = ref
      BY DEF CurrentReferences
    <3> HIDE DEF refs
    <3>2. ASSUME NEW ref \in refs PROVE \E n \in DOMAIN rows : rows[n].reference = ref
      <4>1. PICK p \in CurrentRecords(source, period) : RowAt(p).reference = ref
        BY <3>1
      <4>2. PICK n \in DOMAIN rows : p = <<b, n>>
        BY <2>4
      <4> QED
        BY <2>5, <4>1, <4>2
    <3>3. ASSUME NEW n \in DOMAIN rows PROVE rows[n].reference \in refs
      <4>1. <<b, n>> \in CurrentRecords(source, period)
        BY <2>4
      <4> QED
        BY <2>5, <3>1, <4>1
    <3> QED
      BY <3>2, <3>3
  <2>7. ASSUME NEW n \in DOMAIN rows, NEW m \in DOMAIN rows, rows[n].reference = rows[m].reference
        PROVE  n = m
    <3>1. <<b, n>> = <<b, m>>
      BY <2>4, <2>5, <2>7 DEF Unambiguous
    <3> QED
      BY <3>1
  <2>8. of \in Bijection(DOMAIN rows, refs)
    <3> HIDE DEF refs
    <3> QED
      BY <2>6, <2>7 DEF Bijection, Injection, Surjection, IsInjective
  <2>9. IsFiniteSet(DOMAIN rows) /\ Cardinality(DOMAIN rows) = Len(rows)
    BY <2>3, FS_Interval
  <2> HIDE DEF of, refs
  <2>10. IsFiniteSet(refs) /\ Cardinality(refs) = Len(rows)
    BY <2>8, <2>9, FS_Bijection DEF ExistsBijection
  <2> QED
    BY <1>2, <2>1, <2>10 DEF RowsDelivered, RejectedCount, refs
<1> QED
  BY <1>1, <1>2

\* A set of ids has a last one.
LEMMA LastOne ==
    ASSUME NEW N \in Nat, NEW S \in SUBSET (0..N), S # {}
    PROVE  \E last \in S : \A i \in S : i <= last
<1> DEFINE T == {n \in Nat : \E i \in S : n = N - i}
<1>1. IsWellFoundedOn(OpToRel(<, Nat), Nat)
  BY NatLessThanWellFounded
<1>2. \A i \in S : i \in Nat /\ N - i \in T
  OBVIOUS
<1>3. T \subseteq Nat /\ T # {}
  BY <1>2
<1>4. PICK x \in T : \A y \in T : ~(<<y, x>> \in OpToRel(<, Nat))
  <2> HIDE DEF T
  <2> QED
    BY <1>1, <1>3, WFMin
<1>5. PICK last \in S : x = N - last
  BY <1>4
<1>6. ASSUME NEW i \in S, last < i PROVE FALSE
  <2>1. N - i \in T /\ N - i \in Nat /\ x \in Nat
    BY <1>2, <1>3
  <2>2. N - i < x
    BY <1>2, <1>5, <1>6
  <2>3. <<N - i, x>> \in OpToRel(<, Nat)
    BY <2>1, <2>2 DEF OpToRel
  <2> QED
    BY <1>4, <2>1, <2>3
<1> QED
  BY <1>2, <1>6

\* A withdrawn reference was in some delivery last.
LEMMA LatestExists ==
    ASSUME FilesStored, NEW source, NEW period, NEW reference \in Files!WithdrawnReferences(source, period)
    PROVE  \E batch : batch \in LatestSuperseded(source, period, reference)
<1> DEFINE had == {b \in Files!SupersededBatches(source, period) :
                      reference \in Files!ReferencesIn(file_batch[b].records)}
<1>1. had # {}
  BY DEF Files!WithdrawnReferences
<1>2. \A b \in had : b \in DOMAIN file_batch /\ Files!SamePeriod(file_batch[b], source, period)
  BY DEF Files!SupersededBatches
<1>3. PICK N \in Nat : had \in SUBSET (0..N)
  BY <1>2 DEF FilesStored
<1>4. PICK last \in had : \A b \in had : b <= last
  <2> HIDE DEF had
  <2> QED
    BY <1>1, <1>3, LastOne
<1>5. ASSUME NEW b \in had PROVE file_batch[b].version <= file_batch[last].version
  <2>1. CASE b = last
    BY <1>2, <2>1, StoredRows
  <2>2. CASE b # last
    <3>1. b < last
      BY <1>3, <1>4, <2>2
    <3>2. file_batch[b].version < file_batch[last].version
      BY <1>2, <3>1 DEF FilesStored, Rising, Files!SamePeriod
    <3> QED
      BY <1>2, <3>2, StoredRows
  <2> QED
    BY <2>1, <2>2
<1> QED
  BY <1>4, <1>5 DEF LatestSuperseded

ItemsOf(row, source) == {item \in row.items : item.source = source}

\* A run has a line for each reference of a side: the current ones and the
\* withdrawn ones.
LEMMA SideCovered ==
    ASSUME FilesStored, NEW in, NEW new, Written(new, in), NEW source \in {new.left, new.right}
    PROVE  {item.reference : item \in ItemsOf(new, source)} =
              Files!WithdrawnReferences(source, new.period) \cup CurrentReferences(source, new.period)
<1>2. IsInput(in) /\ in.left = Side(new.left, new.period) /\ in.right = Side(new.right, new.period)
  BY DEF Written
<1>3. \A reference : reference \in CurrentReferences(source, new.period) <=>
                        \E r \in Side(source, new.period) : r.reference = reference
  <2>1. \A p : Normalized(source, RowAt(p)).reference = RowAt(p).reference
    BY DEF Normalized
  <2>2. \A r \in Side(source, new.period) : \E p \in CurrentRecords(source, new.period) : r = Normalized(source, RowAt(p))
    BY DEF Side
  <2>3. \A p \in CurrentRecords(source, new.period) : Normalized(source, RowAt(p)) \in Side(source, new.period)
    BY DEF Side
  <2> QED
    BY <2>1, <2>2, <2>3 DEF CurrentReferences
<1>4. ASSUME NEW item \in ItemsOf(new, source)
      PROVE  item.reference \in Files!WithdrawnReferences(source, new.period) \cup CurrentReferences(source, new.period)
  <2>1. item \in new.items /\ item.source = source
    BY DEF ItemsOf
  <2>2. CASE \E r \in in.left \cup in.right : item.source = r.source /\ item.reference = r.reference
    <3>1. PICK r \in in.left \cup in.right : item.source = r.source /\ item.reference = r.reference
      BY <2>2
    <3>2. r \in Side(source, new.period)
      BY <1>2, <2>1, <3>1, SideRows
    <3> QED
      BY <1>3, <3>1, <3>2
  <2>3. CASE \E its \in {new.left, new.right} : item \in WithdrawnItems(its, new.period) /\ item.source = its
    <3>1. item \in WithdrawnItems(source, new.period)
      BY <2>1, <2>3
    <3> QED
      BY <3>1, WithdrawnLines
  <2> QED
    BY <2>1, <2>2, <2>3, RunItemIs
<1>5. ASSUME NEW reference \in CurrentReferences(source, new.period)
      PROVE  \E item \in ItemsOf(new, source) : item.reference = reference
  <2>1. PICK r \in Side(source, new.period) : r.reference = reference
    BY <1>3
  <2>2. r \in in.left \cup in.right /\ r.source = source
    BY <1>2, <2>1, SideRows
  <2>3. PICK item \in new.items : KeyOf(item) = Key(r)
    <3>1. PICK state : Ends(in, r, state)
      BY <1>2, <2>2, EndsOnce
    <3>2. PICK item : item = Item(r.source, CurrentFile(r.source, new.period), r.reference, state)
      OBVIOUS
    <3>3. item \in new.items
      BY <2>2, <3>1, <3>2, RunItems
    <3> QED
      BY <3>2, <3>3 DEF KeyOf, Key, Item
  <2> QED
    BY <2>1, <2>2, <2>3 DEF ItemsOf, KeyOf, Key
<1>6. ASSUME NEW reference \in Files!WithdrawnReferences(source, new.period)
      PROVE  \E item \in ItemsOf(new, source) : item.reference = reference
  <2>1. PICK batch : batch \in LatestSuperseded(source, new.period, reference)
    BY <1>6, LatestExists
  <2>2. PICK item : item = Item(source, batch, reference, "withdrawn")
    OBVIOUS
  <2>3. item \in WithdrawnItems(source, new.period)
    BY <2>1, <2>2 DEF WithdrawnItems
  <2>4. item \in new.items
    BY <2>3, RunItems
  <2> QED
    BY <2>2, <2>4 DEF ItemsOf, Item
<1> QED
  BY <1>4, <1>5, <1>6

\* What is withdrawn was delivered.
LEMMA GoneFinite ==
    ASSUME FilesStored, NEW source, NEW period
    PROVE  IsFiniteSet(Files!WithdrawnReferences(source, period))
<1> DEFINE ever == {RowAt(p).reference : p \in Places}
           of == [p \in Places |-> RowAt(p).reference]
<1>1. of \in Surjection(Places, ever)
  BY DEF Surjection
<1>2. IsFiniteSet(ever)
  <2> HIDE DEF of, ever
  <2> QED
    BY <1>1, PlacesFinite, FS_Surjection
<1>3. ASSUME NEW reference \in Files!WithdrawnReferences(source, period)
      PROVE  reference \in ever
  <2>1. PICK b \in DOMAIN file_batch : reference \in Files!ReferencesIn(file_batch[b].records)
    BY DEF Files!WithdrawnReferences, Files!SupersededBatches
  <2>2. PICK n \in DOMAIN file_batch[b].records : file_batch[b].records[n].reference = reference
    BY <2>1 DEF Files!ReferencesIn
  <2>3. <<b, n>> \in LinesOf(b)
    BY DEF LinesOf
  <2>4. <<b, n>> \in Places
    BY <2>3 DEF Places
  <2>5. RowAt(<<b, n>>).reference = reference
    BY <2>2 DEF RowAt
  <2> QED
    BY <2>4, <2>5
<1>4. Files!WithdrawnReferences(source, period) \in SUBSET ever
  BY <1>3
<1> HIDE DEF ever
<1> QED
  BY <1>2, <1>4, FS_Subset

\* Its lines are as many as the rows and the withdrawals.
LEMMA SideCounted ==
    ASSUME FilesStored, NEW in, NEW new, Written(new, in), NEW source \in {new.left, new.right}
    PROVE  LET gone == Files!WithdrawnReferences(source, new.period) IN
           /\ IsFiniteSet(ItemsOf(new, source))
           /\ Cardinality(gone) \in Nat /\ RejectedCount(source, new.period) \in Nat
           /\ RowsDelivered(source, new.period) \in Nat
           /\ Cardinality(ItemsOf(new, source)) + RejectedCount(source, new.period) =
                 Cardinality(gone) + RowsDelivered(source, new.period)
<1> DEFINE gone == Files!WithdrawnReferences(source, new.period)
           current == CurrentReferences(source, new.period)
           mine == ItemsOf(new, source)
           of == [item \in mine |-> item.reference]
<1>2. Unambiguous(source, new.period)
  BY DEF Written
<1>3. IsFiniteSet(gone) /\ IsFiniteSet(current)
  BY <1>2, RowsCounted, GoneFinite
<1>4. {item.reference : item \in mine} = gone \cup current
  BY SideCovered
<1>5. ASSUME NEW one \in mine, NEW other \in mine, one.reference = other.reference
      PROVE  one = other
  <2>1. one \in new.items /\ other \in new.items /\ one.source = other.source
    BY DEF ItemsOf
  <2> QED
    BY <1>5, <2>1, RunItemsOnce DEF KeyOf
<1> HIDE DEF mine, gone, current
<1>6. of \in Bijection(mine, gone \cup current)
  BY <1>4, <1>5 DEF Bijection, Injection, Surjection, IsInjective
<1>7. IsFiniteSet(mine) /\ Cardinality(gone \cup current) = Cardinality(mine)
  <2> HIDE DEF of
  <2>1. IsFiniteSet(gone \cup current)
    BY <1>3, FS_Union
  <2>2. of \in Injection(mine, gone \cup current) /\ of \in Surjection(mine, gone \cup current)
    BY <1>6 DEF Bijection
  <2> QED
    BY <2>1, <2>2, FS_Injection
<1>10. gone \cap current = {}
  <2> SUFFICES ASSUME NEW reference \in gone, reference \in current PROVE FALSE
    OBVIOUS
  <2>1. PICK b \in Files!CurrentBatch(source, new.period) :
           reference \notin Files!ReferencesIn(file_batch[b].records)
    BY DEF gone, Files!WithdrawnReferences
  <2>2. PICK p \in CurrentRecords(source, new.period) : RowAt(p).reference = reference
    BY DEF current, CurrentReferences
  <2>3. /\ p[1] \in Current(source, new.period) /\ p[2] \in DOMAIN file_batch[p[1]].records
        /\ RowAt(p) = file_batch[p[1]].records[p[2]]
    BY RecordsRead
  <2>4. p[1] = b
    BY <2>1, <2>3, CurrentIsOne DEF Current
  <2> QED
    BY <2>1, <2>2, <2>3, <2>4 DEF Files!ReferencesIn
<1>11. Cardinality(gone \cup current) = Cardinality(gone) + Cardinality(current)
  <2>1. Cardinality(gone \cup current) = Cardinality(gone) + Cardinality(current) - Cardinality(gone \cap current)
    BY <1>3, FS_Union
  <2>2. Cardinality(gone \cap current) = 0
    BY <1>10, FS_EmptySet
  <2>3. Cardinality(gone) \in Nat /\ Cardinality(current) \in Nat
    BY <1>3, FS_CardinalityType
  <2> QED
    BY <2>1, <2>2, <2>3
<1>12. RowsDelivered(source, new.period) = Cardinality(current) + RejectedCount(source, new.period)
  BY <1>2, RowsCounted DEF current
<1>13. /\ Cardinality(gone) \in Nat /\ Cardinality(current) \in Nat
       /\ RejectedCount(source, new.period) \in Nat
  BY <1>3, FS_CardinalityType, RejectedIsNat
<1> QED
  BY <1>7, <1>11, <1>12, <1>13 DEF mine, gone

LEMMA RunAddsUp ==
    ASSUME FilesStored, NEW in, NEW new, Written(new, in)
    PROVE  AddsUp(new)
<1> DEFINE L == new.left
           R == new.right
           period == new.period
           gone(source) == Files!WithdrawnReferences(source, period)
           rejected == RejectedCount(L, period) + RejectedCount(R, period)
<1>3. new.counts = Counts(new.items, rejected)
  BY DEF Written
<1>4. \A source \in {L, R} :
         {item.reference : item \in {i \in new.items : i.source = source}} =
            gone(source) \cup CurrentReferences(source, period)
  BY SideCovered DEF ItemsOf
<1>5. \A i, j \in new.items : (i.source = j.source /\ i.reference = j.reference) => i = j
  BY RunItemsOnce DEF KeyOf
<1>6. Total(new.counts) = RowsDelivered(L, period) + Cardinality(gone(L))
                             + RowsDelivered(R, period) + Cardinality(gone(R))
  <2> DEFINE left == ItemsOf(new, L)
             right == ItemsOf(new, R)
  <2>1. /\ IsFiniteSet(left) /\ IsFiniteSet(right)
        /\ Cardinality(gone(L)) \in Nat /\ Cardinality(gone(R)) \in Nat
        /\ RejectedCount(L, period) \in Nat /\ RejectedCount(R, period) \in Nat
        /\ RowsDelivered(L, period) \in Nat /\ RowsDelivered(R, period) \in Nat
        /\ Cardinality(left) + RejectedCount(L, period) = Cardinality(gone(L)) + RowsDelivered(L, period)
        /\ Cardinality(right) + RejectedCount(R, period) = Cardinality(gone(R)) + RowsDelivered(R, period)
    BY SideCounted
  <2>2. L # R
    BY DEF Written, IsInput
  <2>6. ASSUME NEW item \in new.items PROVE item.state \in RecordState /\ item.source \in {L, R}
    <3>1. in.left = Side(L, period) /\ in.right = Side(R, period)
      BY DEF Written
    <3>2. \A r \in in.left \cup in.right : r.source \in {L, R}
      BY <3>1, SideRows
    <3> QED
      BY <3>2, RunItemIs DEF RecordState
  <2>3. new.items = left \cup right /\ left \cap right = {}
    <3>1. \A item \in new.items : item.source \in {L, R}
      BY <2>6
    <3> QED
      BY <2>2, <3>1 DEF ItemsOf
  <2> HIDE DEF left, right
  <2>4. Cardinality(left \cup right) = Cardinality(left) + Cardinality(right)
    <3>1. Cardinality(left \cup right) = Cardinality(left) + Cardinality(right) - Cardinality(left \cap right)
      BY <2>1, FS_Union
    <3>2. Cardinality(left \cap right) = 0
      BY <2>3, FS_EmptySet
    <3>3. Cardinality(left) \in Nat /\ Cardinality(right) \in Nat
      BY <2>1, FS_CardinalityType
    <3> QED
      BY <3>1, <3>2, <3>3
  <2>5. IsFiniteSet(new.items)
    BY <2>1, <2>3, FS_Union
  <2>7. rejected \in Nat
    BY <2>1
  <2>8. Total(Counts(new.items, rejected)) = Cardinality(new.items) + rejected
    <3> HIDE DEF rejected
    <3> QED
      BY <2>5, <2>6, <2>7, CountsAddUp
  <2>9. Total(new.counts) = Cardinality(left) + Cardinality(right) + rejected
    BY <1>3, <2>3, <2>4, <2>8
  <2>10. Cardinality(left) \in Nat /\ Cardinality(right) \in Nat
    BY <2>1, FS_CardinalityType
  <2> HIDE DEF L, R, period, gone
  <2> QED
    BY <2>1, <2>9, <2>10 DEF rejected
<1> QED
  BY <1>3, <1>4, <1>5, <1>6 DEF AddsUp, CurrentReferences

\* The summary of a run adds up (AC2, TR-509): every record of the two
\* current files and every withdrawn reference is counted once, and every row
\* that failed to load.
THEOREM SummariesAddUp == Spec => SummaryAddsUp
<1>1. ASSUME ServiceInv, [Next]_vars
      PROVE  Len(run') > Len(run) => AddsUp(NewRun')
  <2>1. PICK S : run \in Seq(S)
    BY <1>1 DEF ServiceInv, RunsInv
  <2>2. CASE UNCHANGED run
    <3>1. Len(run) \in Nat /\ Len(run') = Len(run)
      BY <2>1, <2>2
    <3> QED
      BY <3>1
  <2>3. CASE \E pair \in SourcePairs, period \in Periods : StartRun(pair[1], pair[2], period)
    <3>1. PICK pair \in SourcePairs, period \in Periods : StartRun(pair[1], pair[2], period)
      BY <2>3
    <3>2. NewRun' = RunRow(pair[1], pair[2], period)
      BY <2>1, <3>1, RunAdded
    <3>3. PICK new : new = RunRow(pair[1], pair[2], period)
      OBVIOUS
    <3>4. PICK in : in = RunInput(pair[1], pair[2], period)
      OBVIOUS
    <3>5. Written(new, in)
      <4>1. /\ <<pair[1], pair[2]>> \in SourcePairs
            /\ Unambiguous(pair[1], period) /\ Unambiguous(pair[2], period)
        BY <3>1, RunWrites
      <4> QED
        BY <1>1, <3>3, <3>4, <4>1, RunWritten DEF ServiceInv
    <3>6. AddsUp(new)
      BY <1>1, <3>5, FilesKept, RunAddsUp DEF ServiceInv
    <3> QED
      BY <3>2, <3>3, <3>6
  <2> QED
    BY <1>1, <2>2, <2>3, StepGrows DEF ServiceInv
<1>2. ServiceInv /\ [Next]_vars => [Len(run') > Len(run) => AddsUp(NewRun')]_vars
  BY <1>1
<1> QED
  BY <1>2, ServiceInductive, PTL DEF SummaryAddsUp, Spec

=============================================================================
