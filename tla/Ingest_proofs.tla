--------------------------- MODULE Ingest_proofs ---------------------------
(***************************************************************************)
(* Theorems about ingestion, for any sources, periods, contents and bound. *)
(***************************************************************************)
EXTENDS IngestLog, SequenceTheorems, TLAPS

\* The effect of accepting a delivery: the new batch is appended, and the
\* batch it replaces, if any, gets its mark.
Accepted(source, period, content, previous) ==
    LET last == Len(file_batch) + 1 IN
    /\ previous = None => CurrentBatch(source, period) = {}
    /\ previous # None => previous \in CurrentBatch(source, period)
    /\ file_batch' \in Seq(FileBatch)
    /\ Len(file_batch') = last
    /\ last <= MaxBatches
    /\ DOMAIN file_batch' = DOMAIN file_batch \cup {last}
    /\ last \notin DOMAIN file_batch
    /\ file_batch'[last] = NewBatch(source, period, content, previous)
    /\ \A i \in DOMAIN file_batch :
          file_batch'[i] = IF i = previous
                           THEN [file_batch[i] EXCEPT !.superseded_by = last]
                           ELSE file_batch[i]

LEMMA UploadBatches ==
    ASSUME TypeOK, NEW source \in Sources, NEW period \in Periods, NEW content \in Contents,
           UploadFile(source, period, content)
    PROVE  \E previous \in Nat : Accepted(source, period, content, previous)
<1> DEFINE last == Len(file_batch) + 1
<1>1. file_batch \in Seq(FileBatch) /\ Len(file_batch) \in Nat
  BY DEF TypeOK
<1>2. PICK previous \in IF CurrentBatch(source, period) = {} THEN {None}
                        ELSE CurrentBatch(source, period) :
         file_batch' = Append(MarkSuperseded(previous, last),
                              NewBatch(source, period, content, previous))
  BY DEF UploadFile
<1>3. /\ previous \in Nat
      /\ previous = None => CurrentBatch(source, period) = {}
      /\ previous # None => previous \in CurrentBatch(source, period)
  BY <1>1, <1>2 DEF CurrentBatch, None
<1>4. NewBatch(source, period, content, previous) \in FileBatch
  <2>1. Parsed[source][content] \in ParsedFile
    BY ParsedAssumption
  <2>2. (IF previous = None THEN 1 ELSE file_batch[previous].version + 1) \in Nat \ {0}
    <3>1. CASE previous = None
      BY <3>1
    <3>2. CASE previous # None
      <4>1. previous \in DOMAIN file_batch
        BY <1>3, <3>2 DEF CurrentBatch
      <4>2. file_batch[previous] \in FileBatch
        BY <1>1, <4>1
      <4>3. file_batch[previous].version \in Nat
        BY <4>2 DEF FileBatch
      <4> QED
        BY <3>2, <4>3
    <3> QED
      BY <3>1, <3>2
  <2> QED
    BY <2>1, <2>2 DEF NewBatch, FileBatch, ParsedFile, None
<1>5. /\ MarkSuperseded(previous, last) \in Seq(FileBatch)
      /\ Len(MarkSuperseded(previous, last)) = Len(file_batch)
      /\ \A i \in DOMAIN file_batch :
            MarkSuperseded(previous, last)[i] =
               IF i = previous THEN [file_batch[i] EXCEPT !.superseded_by = last]
               ELSE file_batch[i]
  <2> DEFINE marked(i) == IF i = previous
                          THEN [file_batch[i] EXCEPT !.superseded_by = last]
                          ELSE file_batch[i]
  <2>1. ASSUME NEW i \in 1..Len(file_batch) PROVE marked(i) \in FileBatch
    <3>1. file_batch[i] \in FileBatch /\ last \in Nat
      BY <1>1
    <3>2. [file_batch[i] EXCEPT !.superseded_by = last] \in FileBatch
      BY <3>1 DEF FileBatch
    <3> QED
      BY <3>1, <3>2
  <2>2. MarkSuperseded(previous, last) = [i \in 1..Len(file_batch) |-> marked(i)]
    BY <1>1 DEF MarkSuperseded
  <2> HIDE DEF marked
  <2>3. /\ MarkSuperseded(previous, last) \in Seq(FileBatch)
        /\ Len(MarkSuperseded(previous, last)) = Len(file_batch)
        /\ \A i \in 1..Len(file_batch) : MarkSuperseded(previous, last)[i] = marked(i)
    BY <1>1, <2>1, <2>2
  <2> QED
    BY <1>1, <2>3 DEF marked
<1>6. last <= MaxBatches
  BY <1>1, MaxBatchesAssumption DEF UploadFile
<1> DEFINE old == MarkSuperseded(previous, last)
           new == NewBatch(source, period, content, previous)
<1> HIDE DEF old, new
<1>7. /\ file_batch' \in Seq(FileBatch)
      /\ Len(file_batch') = last
      /\ DOMAIN file_batch' = DOMAIN file_batch \cup {last}
      /\ last \notin DOMAIN file_batch
      /\ file_batch'[last] = new
      /\ \A i \in DOMAIN file_batch : file_batch'[i] = old[i]
  <2>1. file_batch' = Append(old, new) /\ old \in Seq(FileBatch) /\ new \in FileBatch
        /\ Len(old) = Len(file_batch)
    BY <1>2, <1>4, <1>5 DEF old, new
  <2> QED
    BY <1>1, <2>1
<1> QED
  BY <1>3, <1>5, <1>6, <1>7 DEF old, new, Accepted

----------------------------------------------------------------------------

LEMMA TypeNext == TypeOK /\ [Next]_vars => TypeOK'
<1> SUFFICES ASSUME TypeOK, [Next]_vars PROVE TypeOK'
  OBVIOUS
<1>1. ASSUME NEW source \in Sources, NEW period \in Periods, NEW content \in Contents,
             UploadFile(source, period, content)
      PROVE  TypeOK'
  <2> DEFINE last == Len(file_batch) + 1
             good(batch) == /\ batch.period[1] <= batch.period[2]
                            /\ batch.records = Parsed[batch.source][batch.content].records
                            /\ batch.errors = Parsed[batch.source][batch.content].errors
  <2>0. PICK previous \in Nat : Accepted(source, period, content, previous)
    BY <1>1, UploadBatches
  <2>1. /\ file_batch' \in Seq(FileBatch)
        /\ Len(file_batch') = last
        /\ last <= MaxBatches
        /\ DOMAIN file_batch' = DOMAIN file_batch \cup {last}
        /\ file_batch'[last] = NewBatch(source, period, content, previous)
        /\ \A i \in DOMAIN file_batch :
              file_batch'[i] = IF i = previous
                               THEN [file_batch[i] EXCEPT !.superseded_by = last]
                               ELSE file_batch[i]
    BY <2>0 DEF Accepted
  <2>2. good(file_batch'[last])
    BY <1>1, <2>1 DEF NewBatch, UploadFile, ValidPeriod
  <2>3. ASSUME NEW i \in DOMAIN file_batch PROVE good(file_batch'[i])
    <3>1. file_batch[i] \in FileBatch /\ good(file_batch[i])
      BY DEF TypeOK
    <3>2. /\ file_batch'[i].source = file_batch[i].source
          /\ file_batch'[i].period = file_batch[i].period
          /\ file_batch'[i].content = file_batch[i].content
          /\ file_batch'[i].records = file_batch[i].records
          /\ file_batch'[i].errors = file_batch[i].errors
      BY <2>1, <3>1 DEF FileBatch
    <3> QED
      BY <3>1, <3>2
  <2> HIDE DEF good
  <2>4. \A i \in DOMAIN file_batch' : good(file_batch'[i])
    BY <2>1, <2>2, <2>3
  <2> QED
    BY <2>1, <2>4 DEF TypeOK, good
<1>2. CASE UNCHANGED vars
  BY <1>2 DEF vars, TypeOK
<1> QED
  BY <1>1, <1>2 DEF Next

\* Every accepted batch is of the right shape, for a period that does not end
\* before it starts, and holds the rows its bytes parse to in that source's
\* format, however often it was corrected since.
THEOREM TypeCorrect == Spec => []TypeOK
<1>1. Init => TypeOK
  BY MaxBatchesAssumption DEF Init, TypeOK
<1> QED
  BY <1>1, TypeNext, PTL DEF Spec

----------------------------------------------------------------------------

LEMMA PeriodsNext ==
    TypeOK /\ PeriodsNeverClash /\ [Next]_vars => PeriodsNeverClash'
<1> SUFFICES ASSUME TypeOK, PeriodsNeverClash, [Next]_vars PROVE PeriodsNeverClash'
  OBVIOUS
<1> DEFINE clear(one, other) == one.source = other.source =>
                                   \/ one.period = other.period
                                   \/ one.period[2] < other.period[1]
                                   \/ other.period[2] < one.period[1]
<1>1. ASSUME NEW source \in Sources, NEW period \in Periods, NEW content \in Contents,
             UploadFile(source, period, content)
      PROVE  PeriodsNeverClash'
  <2> DEFINE last == Len(file_batch) + 1
  <2>0. PICK previous \in Nat : Accepted(source, period, content, previous)
    BY <1>1, UploadBatches
  <2>1. /\ DOMAIN file_batch' = DOMAIN file_batch \cup {last}
        /\ file_batch'[last] = NewBatch(source, period, content, previous)
        /\ \A i \in DOMAIN file_batch :
              file_batch'[i] = IF i = previous
                               THEN [file_batch[i] EXCEPT !.superseded_by = last]
                               ELSE file_batch[i]
    BY <2>0 DEF Accepted
  <2>2. file_batch'[last].source = source /\ file_batch'[last].period = period
    BY <2>1 DEF NewBatch
  <2>3. \A i \in DOMAIN file_batch : file_batch[i] \in FileBatch
    BY DEF TypeOK
  <2>4. \A i \in DOMAIN file_batch :
           /\ file_batch'[i].source = file_batch[i].source
           /\ file_batch'[i].period = file_batch[i].period
    BY <2>1, <2>3 DEF FileBatch
  <2>5. ASSUME NEW i \in DOMAIN file_batch PROVE clear(file_batch'[i], file_batch'[last])
    <3>1. file_batch[i].period \in Nat \X Nat /\ period \in Nat \X Nat
      BY <2>3, PeriodsAssumption DEF FileBatch
    <3>2. file_batch[i].source = source /\ Overlaps(file_batch[i].period, period)
             => file_batch[i].period = period
      BY <1>1 DEF UploadFile, PartlyOverlaps
    <3> QED
      BY <2>2, <2>4, <3>1, <3>2 DEF Overlaps
  <2>6. \A i, j \in DOMAIN file_batch : clear(file_batch'[i], file_batch'[j])
    BY <2>4 DEF PeriodsNeverClash, Apart
  <2>7. clear(file_batch'[last], file_batch'[last])
    OBVIOUS
  <2> QED
    BY <2>1, <2>5, <2>6, <2>7 DEF PeriodsNeverClash, Apart
<1>2. CASE UNCHANGED vars
  BY <1>2 DEF vars, PeriodsNeverClash, Apart
<1> QED
  BY <1>1, <1>2 DEF Next

\* A source's periods are equal or have no day in common, because
\* _refuse_partial_overlap looks at every batch, the superseded ones too.
THEOREM PeriodsStayApart == Spec => []PeriodsNeverClash
<1>1. Init => PeriodsNeverClash
  BY DEF Init, PeriodsNeverClash, Apart
<1> QED
  BY <1>1, PeriodsNext, TypeCorrect, PTL DEF Spec

----------------------------------------------------------------------------

LEMMA ChainNext == TypeOK /\ VersionChain /\ [Next]_vars => VersionChain'
<1> SUFFICES ASSUME TypeOK, VersionChain, [Next]_vars PROVE VersionChain'
  OBVIOUS
<1> DEFINE same(i, j) == SamePeriod(file_batch[j], file_batch[i].source, file_batch[i].period)
<1>1. \A i \in DOMAIN file_batch : file_batch[i] \in FileBatch /\ i \in Nat \ {0}
  BY DEF TypeOK
<1>2. ASSUME NEW source \in Sources, NEW period \in Periods, NEW content \in Contents,
             UploadFile(source, period, content)
      PROVE  VersionChain'
  <2> DEFINE last == Len(file_batch) + 1
             mine(i) == SamePeriod(file_batch[i], source, period)
  <2>0. PICK previous \in Nat : Accepted(source, period, content, previous)
    BY <1>2, UploadBatches
  <2>1. /\ previous = None => CurrentBatch(source, period) = {}
        /\ previous # None => previous \in CurrentBatch(source, period)
        /\ DOMAIN file_batch' = DOMAIN file_batch \cup {last}
        /\ last \notin DOMAIN file_batch
        /\ file_batch'[last] = NewBatch(source, period, content, previous)
        /\ \A i \in DOMAIN file_batch :
              file_batch'[i] = IF i = previous
                               THEN [file_batch[i] EXCEPT !.superseded_by = last]
                               ELSE file_batch[i]
    BY <2>0 DEF Accepted
  <2>2. last \in Nat \ {0} /\ \A i \in DOMAIN file_batch : i < last
    BY DEF TypeOK
  <2>3. /\ file_batch'[last].source = source
        /\ file_batch'[last].period = period
        /\ file_batch'[last].superseded_by = None
        /\ previous = None => file_batch'[last].version = 1
        /\ previous # None => file_batch'[last].version = file_batch[previous].version + 1
    BY <2>1 DEF NewBatch
  <2>4. \A i \in DOMAIN file_batch :
           /\ file_batch'[i].source = file_batch[i].source
           /\ file_batch'[i].period = file_batch[i].period
           /\ file_batch'[i].version = file_batch[i].version
           /\ i # previous => file_batch'[i].superseded_by = file_batch[i].superseded_by
           /\ i = previous => file_batch'[i].superseded_by = last
    BY <1>1, <2>1 DEF FileBatch
  <2>5. previous # None =>
           /\ previous \in DOMAIN file_batch
           /\ mine(previous)
           /\ file_batch[previous].superseded_by = None
           /\ \A j \in DOMAIN file_batch : mine(j) => j <= previous
    BY <2>1 DEF CurrentBatch, VersionChain, Chained, SamePeriod
  <2>6. previous = None => \A j \in DOMAIN file_batch : ~mine(j)
    BY <2>1 DEF CurrentBatch, VersionChain, Chained, SamePeriod
  <2>7. previous # None => \A j \in DOMAIN file_batch :
           (mine(j) /\ file_batch[j].superseded_by = None) => j = previous
    BY <1>1, <2>5 DEF VersionChain, Chained, SamePeriod
  <2> DEFINE sameNew(i, j) ==
          SamePeriod(file_batch'[j], file_batch'[i].source, file_batch'[i].period)
  <2>8. /\ \A i, j \in DOMAIN file_batch : sameNew(i, j) <=> same(i, j)
        /\ \A i \in DOMAIN file_batch : sameNew(i, last) <=> mine(i)
        /\ \A i \in DOMAIN file_batch : sameNew(last, i) <=> mine(i)
        /\ sameNew(last, last)
        /\ \A i, j \in DOMAIN file_batch : mine(i) => (mine(j) <=> same(i, j))
        /\ \A i, j \in DOMAIN file_batch : same(i, j) <=> same(j, i)
    BY <2>3, <2>4 DEF SamePeriod
  <2>9. ASSUME NEW i \in DOMAIN file_batch
        PROVE  /\ file_batch[i].superseded_by = None =>
                     \A j \in DOMAIN file_batch : same(i, j) => j <= i
               /\ file_batch[i].superseded_by # None =>
                     /\ file_batch[i].superseded_by \in DOMAIN file_batch
                     /\ file_batch[i].superseded_by > i
                     /\ same(i, file_batch[i].superseded_by)
                     /\ file_batch[file_batch[i].superseded_by].version
                           = file_batch[i].version + 1
                     /\ \A j \in DOMAIN file_batch :
                           same(i, j) => (j <= i \/ j >= file_batch[i].superseded_by)
               /\ file_batch[i].version = 1
                     <=> \A j \in DOMAIN file_batch : same(i, j) => j >= i
               /\ \E head \in DOMAIN file_batch :
                     head >= i /\ same(i, head) /\ file_batch[head].superseded_by = None
    BY DEF VersionChain, Chained
  <2> DEFINE chained(i) ==
        LET next == file_batch'[i].superseded_by IN
        /\ next = None => \A j \in DOMAIN file_batch' : sameNew(i, j) => j <= i
        /\ next # None =>
              /\ next \in DOMAIN file_batch' /\ next > i /\ sameNew(i, next)
              /\ file_batch'[next].version = file_batch'[i].version + 1
              /\ \A j \in DOMAIN file_batch' : sameNew(i, j) => (j <= i \/ j >= next)
        /\ file_batch'[i].version = 1 <=> \A j \in DOMAIN file_batch' : sameNew(i, j) => j >= i
        /\ \E head \in DOMAIN file_batch' :
              head >= i /\ sameNew(i, head) /\ file_batch'[head].superseded_by = None
  <2> HIDE DEF same, sameNew, mine, last
  <2>10. ASSUME NEW i \in DOMAIN file_batch, i = previous PROVE chained(i)
    BY <1>1, <2>1, <2>2, <2>3, <2>4, <2>5, <2>8, <2>9, <2>10 DEF None
  <2>11. ASSUME NEW i \in DOMAIN file_batch, i # previous, mine(i) PROVE chained(i)
    BY <1>1, <2>1, <2>2, <2>3, <2>4, <2>5, <2>6, <2>7, <2>8, <2>9, <2>11 DEF None
  <2>12. ASSUME NEW i \in DOMAIN file_batch, i # previous, ~mine(i) PROVE chained(i)
    <3>1. /\ ~sameNew(i, last)
          /\ \A j \in DOMAIN file_batch : sameNew(i, j) => j # previous
      BY <1>1, <2>1, <2>5, <2>8, <2>12 DEF None
    <3>2. \A j \in DOMAIN file_batch' : sameNew(i, j) => j \in DOMAIN file_batch /\ same(i, j)
      BY <2>1, <2>8, <3>1
    <3>3. /\ file_batch'[i].superseded_by = file_batch[i].superseded_by
          /\ file_batch'[i].version = file_batch[i].version
      BY <2>4, <2>12
    <3>4. \E head \in DOMAIN file_batch' :
              head >= i /\ sameNew(i, head) /\ file_batch'[head].superseded_by = None
      <4>1. PICK head \in DOMAIN file_batch :
               head >= i /\ same(i, head) /\ file_batch[head].superseded_by = None
        BY <2>9
      <4>2. sameNew(i, head) /\ head # previous
        BY <2>8, <3>1, <4>1
      <4> QED
        BY <2>1, <2>4, <4>1, <4>2
    <3>5. file_batch'[i].superseded_by # None =>
             LET next == file_batch'[i].superseded_by IN
              /\ next \in DOMAIN file_batch' /\ next > i /\ sameNew(i, next)
              /\ file_batch'[next].version = file_batch'[i].version + 1
              /\ \A j \in DOMAIN file_batch' : sameNew(i, j) => (j <= i \/ j >= next)
      BY <2>1, <2>4, <2>8, <2>9, <3>2, <3>3
    <3>6. file_batch'[i].superseded_by = None =>
             \A j \in DOMAIN file_batch' : sameNew(i, j) => j <= i
      BY <2>9, <3>2, <3>3
    <3>7. file_batch'[i].version = 1 <=> \A j \in DOMAIN file_batch' : sameNew(i, j) => j >= i
      BY <2>1, <2>8, <2>9, <3>2, <3>3
    <3> QED
      BY <3>4, <3>5, <3>6, <3>7
  <2>13. chained(last)
    BY <1>1, <2>1, <2>2, <2>3, <2>5, <2>6, <2>8 DEF None, FileBatch
  <2>14. \A i \in DOMAIN file_batch' : chained(i)
    BY <2>1, <2>10, <2>11, <2>12, <2>13
  <2> QED
    BY <2>14 DEF VersionChain, Chained, sameNew
<1>3. CASE UNCHANGED vars
  BY <1>3 DEF vars, VersionChain, Chained
<1> QED
  BY <1>2, <1>3 DEF Next

\* The versions of a period form one chain, numbered from 1, each superseded
\* by the next, and exactly its last batch is current.
THEOREM VersionsFormAChain == Spec => []VersionChain
<1>1. Init => VersionChain
  BY DEF Init, VersionChain, Chained
<1> QED
  BY <1>1, ChainNext, TypeCorrect, PTL DEF Spec

\* Batches are appended and keep everything but the mark that supersedes
\* them, which is set once, when the next version is accepted (TR-501).
THEOREM BatchesNeverChange == Spec => BatchesImmutable
<1> DEFINE kept == /\ Len(file_batch') >= Len(file_batch)
                   /\ \A i \in DOMAIN file_batch :
                        \/ file_batch'[i] = file_batch[i]
                        \/ /\ file_batch[i].superseded_by = None
                           /\ file_batch'[i] =
                                 [file_batch[i] EXCEPT !.superseded_by = Len(file_batch')]
<1>1. ASSUME TypeOK, NEW source \in Sources, NEW period \in Periods, NEW content \in Contents,
             UploadFile(source, period, content)
      PROVE  kept
  <2>0. PICK previous \in Nat : Accepted(source, period, content, previous)
    BY <1>1, UploadBatches
  <2>1. /\ previous # None => previous \in CurrentBatch(source, period)
        /\ Len(file_batch') = Len(file_batch) + 1
        /\ \A i \in DOMAIN file_batch :
              file_batch'[i] = IF i = previous
                               THEN [file_batch[i] EXCEPT !.superseded_by = Len(file_batch')]
                               ELSE file_batch[i]
    BY <2>0 DEF Accepted
  <2>2. Len(file_batch) \in Nat /\ \A i \in DOMAIN file_batch : i # 0
    BY <1>1 DEF TypeOK
  <2> QED
    BY <2>1, <2>2 DEF CurrentBatch, None
<1>2. TypeOK /\ [Next]_vars => [kept]_vars
  BY <1>1 DEF Next
<1> QED
  BY <1>2, TypeCorrect, PTL DEF Spec, BatchesImmutable

----------------------------------------------------------------------------

\* The withdrawals after a delivery are those before it and the ones it
\* reports, without what it brings back.
LEMMA UploadWithdraws ==
    ASSUME TypeOK, VersionChain, NEW source \in Sources, NEW period \in Periods,
           NEW content \in Contents, UploadFile(source, period, content),
           NEW s \in Sources, NEW p \in Periods
    PROVE  WithdrawnReferences(s, p)' =
              IF SamePeriod(Latest', s, p)
              THEN (WithdrawnReferences(s, p) \cup ReportedWithdrawn') \ ReferencesIn(Latest'.records)
              ELSE WithdrawnReferences(s, p)
<1> DEFINE refs(i) == ReferencesIn(file_batch[i].records)
           mine(i) == i \in DOMAIN file_batch /\ SamePeriod(file_batch[i], s, p)
           current(i) == mine(i) /\ file_batch[i].superseded_by = None
           ever(r) == \E i : mine(i) /\ ~current(i) /\ r \in refs(i)
<1>1. PICK previous \in Nat : Accepted(source, period, content, previous)
  BY UploadBatches
<1>2. PICK last : last = Len(file_batch) + 1
  OBVIOUS
<1>3. /\ previous = None => CurrentBatch(source, period) = {}
      /\ previous # None => previous \in CurrentBatch(source, period)
      /\ Len(file_batch') = last /\ DOMAIN file_batch' = DOMAIN file_batch \cup {last}
      /\ last \notin DOMAIN file_batch
      /\ file_batch'[last] = NewBatch(source, period, content, previous)
      /\ \A i \in DOMAIN file_batch :
            file_batch'[i] = IF i = previous
                             THEN [file_batch[i] EXCEPT !.superseded_by = last]
                             ELSE file_batch[i]
  BY <1>1, <1>2 DEF Accepted
<1>4. /\ file_batch'[last].source = source /\ file_batch'[last].period = period
      /\ file_batch'[last].superseded_by = None
      /\ SamePeriod(file_batch'[last], s, p) <=> s = source /\ p = period
  BY <1>3 DEF NewBatch, SamePeriod
<1>5. \A i \in DOMAIN file_batch : file_batch[i] \in FileBatch /\ i \in Nat /\ i # None /\ i # last
  BY <1>2 DEF TypeOK, None
<1>6. \A i \in DOMAIN file_batch :
         /\ file_batch'[i].source = file_batch[i].source
         /\ file_batch'[i].period = file_batch[i].period
         /\ file_batch'[i].records = file_batch[i].records
         /\ file_batch'[i].superseded_by = IF i = previous THEN last ELSE file_batch[i].superseded_by
  BY <1>3, <1>5 DEF FileBatch
<1>7. last # None
  BY <1>2 DEF TypeOK, None
<1>8. \A i : mine(i)' <=> mine(i) \/ (i = last /\ s = source /\ p = period)
  BY <1>3, <1>4, <1>6 DEF SamePeriod
<1>9. \A i : mine(i) => ReferencesIn(file_batch'[i].records) = refs(i)
  BY <1>6
<1>10. \A r : r \in WithdrawnReferences(s, p) <=> ever(r) /\ \E c : current(c) /\ r \notin refs(c)
  BY DEF WithdrawnReferences, SupersededBatches, CurrentBatch
<1>11. \A r : r \in WithdrawnReferences(s, p)' <=>
          /\ \E i : /\ mine(i)' /\ file_batch'[i].superseded_by # None
                    /\ r \in ReferencesIn(file_batch'[i].records)
          /\ \E c : /\ mine(c)' /\ file_batch'[c].superseded_by = None
                    /\ r \notin ReferencesIn(file_batch'[c].records)
  BY DEF WithdrawnReferences, SupersededBatches, CurrentBatch
<1>12. \A r : r \in ReportedWithdrawn' <=>
          /\ r \notin ReferencesIn(file_batch'[last].records)
          /\ previous # None /\ r \in refs(previous)
  <2>1. \A i \in DOMAIN file_batch : file_batch[i].superseded_by # last
    BY <1>3, <1>7 DEF VersionChain, Chained
  <2>2. previous # None => previous \in DOMAIN file_batch
    BY <1>3 DEF CurrentBatch
  <2>3. previous = None => previous \notin DOMAIN file_batch
    BY <1>5
  <2>4. \A i : i \in DOMAIN file_batch' /\ file_batch'[i].superseded_by = last
              <=> previous # None /\ i = previous
    BY <1>3, <1>4, <1>6, <1>7, <2>1, <2>2, <2>3
  <2>5. Latest' = file_batch'[last]
    BY <1>3 DEF Latest
  <2>6. \A r : r \in ReportedWithdrawn' <=>
           \E i : /\ i \in DOMAIN file_batch' /\ file_batch'[i].superseded_by = last
                 /\ r \in ReferencesIn(file_batch'[i].records)
                 /\ r \notin ReferencesIn(file_batch'[last].records)
    BY <1>3, <2>5 DEF ReportedWithdrawn
  <2>7. previous # None => ReferencesIn(file_batch'[previous].records) = refs(previous)
    BY <1>6, <2>2
  <2> QED
    BY <2>4, <2>6, <2>7
<1>13. Latest' = file_batch'[last]
  BY <1>3 DEF Latest
<1>14. CASE s = source /\ p = period
  <2>1. previous # None => current(previous)
    BY <1>3, <1>14 DEF CurrentBatch
  <2>2. \A i : current(i) => previous # None /\ i = previous
    <3> SUFFICES ASSUME NEW i, current(i) PROVE previous # None /\ i = previous
      OBVIOUS
    <3>1. previous # None
      BY <1>3, <1>14 DEF CurrentBatch
    <3>2. i <= previous /\ previous <= i
      BY <2>1, <3>1 DEF VersionChain, Chained, SamePeriod
    <3> QED
      BY <1>5, <2>1, <3>1, <3>2
  <2>3. previous = None => \A i : ~mine(i)
    BY <2>2 DEF VersionChain, Chained, SamePeriod
  <2>4. \A r : r \in WithdrawnReferences(s, p)' <=>
           (\E i : mine(i) /\ r \in refs(i)) /\ r \notin ReferencesIn(file_batch'[last].records)
    <3>1. \A i : mine(i)' /\ file_batch'[i].superseded_by # None <=> mine(i)
      BY <1>4, <1>6, <1>7, <1>8, <2>2
    <3>2. \A i : mine(i)' /\ file_batch'[i].superseded_by = None <=> i = last
      BY <1>4, <1>5, <1>8, <1>14, <3>1
    <3> QED
      BY <1>9, <1>11, <3>1, <3>2
  <2>5. \A r : r \in WithdrawnReferences(s, p) <=>
           ever(r) /\ previous # None /\ r \notin refs(previous)
    BY <1>10, <2>1, <2>2
  <2>6. \A r : (\E i : mine(i) /\ r \in refs(i)) <=> ever(r) \/ (previous # None /\ r \in refs(previous))
    BY <2>1, <2>2
  <2>7. \A r : ever(r) => previous # None
    BY <2>3
  <2> HIDE DEF refs, mine, current, ever
  <2>8. \A r : r \in WithdrawnReferences(s, p)' <=>
           /\ r \in WithdrawnReferences(s, p) \cup ReportedWithdrawn'
           /\ r \notin ReferencesIn(file_batch'[last].records)
    BY <1>12, <2>4, <2>5, <2>6, <2>7
  <2>9. WithdrawnReferences(s, p)' =
           (WithdrawnReferences(s, p) \cup ReportedWithdrawn') \ ReferencesIn(file_batch'[last].records)
    BY <2>8
  <2> QED
    BY <1>4, <1>13, <1>14, <2>9
<1>15. CASE ~(s = source /\ p = period)
  <2>1. \A i : mine(i)' <=> mine(i)
    BY <1>8, <1>15
  <2>2. \A i : mine(i) => i # previous
    BY <1>3, <1>5, <1>15 DEF CurrentBatch, SamePeriod
  <2>3. \A i : mine(i) => file_batch'[i].superseded_by = file_batch[i].superseded_by
    BY <1>6, <2>2
  <2>4. \A r : r \in WithdrawnReferences(s, p)' <=> r \in WithdrawnReferences(s, p)
    BY <1>9, <1>10, <1>11, <2>1, <2>3
  <2>5. WithdrawnReferences(s, p)' = WithdrawnReferences(s, p)
    BY <2>4
  <2> QED
    BY <1>4, <1>13, <1>15, <2>5
<1> QED
  BY <1>14, <1>15

\* What each upload reports as withdrawn and brought back adds up to what is
\* derived from the whole history (withdrawn_references), however often a
\* period is corrected.
THEOREM WithdrawalsAccountedFor == Spec => WithdrawalsAddUp
<1>1. TypeOK /\ VersionChain /\ [Next]_vars =>
         [\A source \in Sources, period \in Periods :
             WithdrawnReferences(source, period)' =
                IF SamePeriod(Latest', source, period)
                THEN (WithdrawnReferences(source, period) \cup ReportedWithdrawn')
                        \ ReferencesIn(Latest'.records)
                ELSE WithdrawnReferences(source, period)]_vars
  BY UploadWithdraws DEF Next
<1> QED
  BY <1>1, TypeCorrect, VersionsFormAChain, PTL DEF Spec, WithdrawalsAddUp

----------------------------------------------------------------------------
(* The table implements the log.  The version numbers of a period are the  *)
(* positions of its log: none is missing and none is used twice.           *)

VersionsCount ==
    \A i \in DOMAIN file_batch :
        LET mine == VersionsOf(file_batch[i].source, file_batch[i].period) IN
        /\ \A n \in 1..file_batch[i].version : \E j \in mine : file_batch[j].version = n
        /\ \A j \in mine : j > i => file_batch[j].version > file_batch[i].version

LEMMA BatchTyped ==
    ASSUME TypeOK, NEW i \in DOMAIN file_batch
    PROVE  /\ i \in Nat /\ i < Len(file_batch) + 1
           /\ file_batch[i] \in FileBatch
           /\ file_batch[i].version \in Nat /\ file_batch[i].content \in Contents
<1>1. i \in Nat /\ i < Len(file_batch) + 1 /\ file_batch[i] \in FileBatch
  BY DEF TypeOK
<1> QED
  BY <1>1 DEF FileBatch

LEMMA VersionsCountNext ==
    TypeOK /\ VersionChain /\ VersionsCount /\ [Next]_vars => VersionsCount'
<1> SUFFICES ASSUME TypeOK, VersionChain, VersionsCount, [Next]_vars PROVE VersionsCount'
  OBVIOUS
<1>1. ASSUME NEW source \in Sources, NEW period \in Periods, NEW content \in Contents,
             UploadFile(source, period, content)
      PROVE  VersionsCount'
  <2>0. PICK previous \in Nat : Accepted(source, period, content, previous)
    BY <1>1, UploadBatches
  <2>1. PICK last : last = Len(file_batch) + 1
    OBVIOUS
  <2>2. /\ previous = None => CurrentBatch(source, period) = {}
        /\ previous # None => previous \in CurrentBatch(source, period)
        /\ DOMAIN file_batch' = DOMAIN file_batch \cup {last}
        /\ last \notin DOMAIN file_batch
        /\ file_batch'[last] = NewBatch(source, period, content, previous)
        /\ \A i \in DOMAIN file_batch :
              file_batch'[i] = IF i = previous
                               THEN [file_batch[i] EXCEPT !.superseded_by = last]
                               ELSE file_batch[i]
    BY <2>0, <2>1 DEF Accepted
  <2>3. /\ file_batch'[last].source = source /\ file_batch'[last].period = period
        /\ previous = None => file_batch'[last].version = 1
        /\ previous # None => file_batch'[last].version = file_batch[previous].version + 1
    BY <2>2 DEF NewBatch
  <2>4. \A i \in DOMAIN file_batch : /\ file_batch[i] \in FileBatch
                                     /\ file_batch[i].version \in Nat
                                     /\ i \in Nat /\ i < last
    BY <2>1, BatchTyped
  <2>5. \A i \in DOMAIN file_batch : /\ file_batch'[i].source = file_batch[i].source
                                     /\ file_batch'[i].period = file_batch[i].period
                                     /\ file_batch'[i].version = file_batch[i].version
    BY <2>2, <2>4 DEF FileBatch
  <2> DEFINE same(i, j) == SamePeriod(file_batch[j], file_batch[i].source, file_batch[i].period)
             mine(i) == SamePeriod(file_batch[i], source, period)
  <2>6. \A i \in DOMAIN file_batch' : \A j :
           j \in VersionsOf(file_batch[i].source, file_batch[i].period)' <=>
              \/ i # last /\ j # last /\ j \in DOMAIN file_batch /\ same(i, j)
              \/ i # last /\ j = last /\ mine(i)
              \/ i = last /\ j # last /\ j \in DOMAIN file_batch /\ mine(j)
              \/ i = last /\ j = last
    BY <2>2, <2>3, <2>5 DEF VersionsOf, SamePeriod
  <2>7. \A i \in DOMAIN file_batch : mine(i) =>
           /\ previous # None /\ previous \in DOMAIN file_batch /\ mine(previous)
           /\ i <= previous /\ file_batch[i].version <= file_batch[previous].version
    <3> SUFFICES ASSUME NEW i \in DOMAIN file_batch, mine(i)
                 PROVE  /\ previous # None /\ previous \in DOMAIN file_batch /\ mine(previous)
                        /\ i <= previous /\ file_batch[i].version <= file_batch[previous].version
      OBVIOUS
    <3>1. PICK head \in DOMAIN file_batch : same(i, head) /\ file_batch[head].superseded_by = None
      BY DEF VersionChain, Chained
    <3>2. head \in CurrentBatch(source, period)
      BY <3>1 DEF CurrentBatch, SamePeriod
    <3>3. /\ previous # None /\ previous \in DOMAIN file_batch /\ mine(previous)
          /\ file_batch[previous].superseded_by = None
      BY <2>2, <3>2 DEF CurrentBatch
    <3>4. i <= previous
      BY <3>3 DEF VersionChain, Chained, SamePeriod
    <3>5. previous \in VersionsOf(file_batch[i].source, file_batch[i].period)
      BY <3>3 DEF VersionsOf, SamePeriod
    <3>6. i < previous => file_batch[previous].version > file_batch[i].version
      BY <3>5 DEF VersionsCount
    <3>7. i \in Nat /\ file_batch[i].version \in Nat /\ file_batch[previous].version \in Nat
      BY <2>4, <3>3
    <3> QED
      BY <2>4, <3>3, <3>4, <3>6, <3>7
  <2>8. ASSUME NEW i \in DOMAIN file_batch', NEW n \in 1..file_batch'[i].version
        PROVE  \E j \in VersionsOf(file_batch[i].source, file_batch[i].period)' :
                  file_batch'[j].version = n
    <3>1. CASE i # last
      <4>1. i \in DOMAIN file_batch /\ n \in 1..file_batch[i].version
        BY <2>2, <2>5, <3>1
      <4>2. PICK j \in VersionsOf(file_batch[i].source, file_batch[i].period) :
               file_batch[j].version = n
        BY <4>1 DEF VersionsCount
      <4>3. j \in DOMAIN file_batch /\ same(i, j) /\ j # last
        BY <2>2, <4>2 DEF VersionsOf
      <4> QED
        BY <2>5, <2>6, <3>1, <4>2, <4>3
    <3>2. CASE i = last /\ n = file_batch'[last].version
      BY <2>6, <3>2
    <3>3. CASE i = last /\ n # file_batch'[last].version
      <4>1. /\ previous # None /\ previous \in DOMAIN file_batch /\ mine(previous)
            /\ n \in 1..file_batch[previous].version
        BY <2>2, <2>3, <2>4, <3>3 DEF CurrentBatch
      <4>2. PICK j \in VersionsOf(file_batch[previous].source, file_batch[previous].period) :
               file_batch[j].version = n
        BY <4>1 DEF VersionsCount
      <4>3. j \in DOMAIN file_batch /\ mine(j) /\ j # last
        BY <2>2, <4>1, <4>2 DEF VersionsOf, SamePeriod
      <4> QED
        BY <2>5, <2>6, <3>3, <4>2, <4>3
    <3> QED
      BY <3>1, <3>2, <3>3
  <2>9. ASSUME NEW i \in DOMAIN file_batch',
               NEW j \in VersionsOf(file_batch[i].source, file_batch[i].period)', j > i
        PROVE  file_batch'[j].version > file_batch'[i].version
    <3>1. CASE i = last
      <4>1. last \in Nat
        BY <2>1 DEF TypeOK
      <4>2. j = last \/ (j \in Nat /\ j < last)
        <5>1. j = last \/ j \in DOMAIN file_batch
          BY <2>6, <3>1
        <5> QED
          BY <2>4, <5>1
      <4> QED
        BY <2>4, <2>9, <3>1, <4>1, <4>2
    <3>2. CASE i # last /\ j # last
      <4>1. i \in DOMAIN file_batch /\ j \in DOMAIN file_batch /\ same(i, j)
        BY <2>2, <2>6, <3>2
      <4>2. j \in VersionsOf(file_batch[i].source, file_batch[i].period)
        BY <4>1 DEF VersionsOf
      <4>3. file_batch[j].version > file_batch[i].version
        BY <2>9, <4>1, <4>2 DEF VersionsCount
      <4> QED
        BY <2>5, <4>1, <4>3
    <3>3. CASE i # last /\ j = last
      <4>1. i \in DOMAIN file_batch /\ mine(i)
        BY <2>2, <2>6, <3>3
      <4>2. previous # None /\ previous \in DOMAIN file_batch
            /\ file_batch[i].version <= file_batch[previous].version
        BY <2>7, <4>1
      <4> QED
        BY <2>3, <2>4, <2>5, <3>3, <4>1, <4>2
    <3> QED
      BY <3>1, <3>2, <3>3
  <2> QED
    BY <2>8, <2>9 DEF VersionsCount
<1>2. CASE UNCHANGED vars
  BY <1>2 DEF vars, VersionsCount, VersionsOf
<1> QED
  BY <1>1, <1>2 DEF Next

\* Two batches of one period never have the same version number.
LEMMA VersionNamesABatch ==
    ASSUME TypeOK, VersionsCount, NEW source \in Sources, NEW period \in Periods,
           NEW i \in VersionsOf(source, period), NEW j \in VersionsOf(source, period),
           file_batch[i].version = file_batch[j].version
    PROVE  i = j
<1>1. /\ i \in DOMAIN file_batch /\ j \in DOMAIN file_batch /\ i \in Nat /\ j \in Nat
      /\ file_batch[i].version \in Nat /\ file_batch[j].version \in Nat
  BY BatchTyped DEF VersionsOf
<1>2. /\ i \in VersionsOf(file_batch[j].source, file_batch[j].period)
      /\ j \in VersionsOf(file_batch[i].source, file_batch[i].period)
  BY DEF VersionsOf, SamePeriod
<1>3. ~(i < j) /\ ~(j < i)
  BY <1>1, <1>2 DEF VersionsCount
<1> QED
  BY <1>1, <1>3

\* What the log says of a version is what its batch holds.
LogReadsTable ==
    \A source \in Sources, period \in Periods : \A i \in VersionsOf(source, period) :
        /\ file_batch[i].version \in DOMAIN ContentsOf(source, period)
        /\ ContentsOf(source, period)[file_batch[i].version] = file_batch[i].content

LEMMA ContentOfVersion == TypeOK /\ VersionsCount => LogReadsTable
<1> SUFFICES ASSUME TypeOK, VersionsCount, NEW source \in Sources, NEW period \in Periods,
                    NEW i \in VersionsOf(source, period)
             PROVE  /\ file_batch[i].version \in DOMAIN ContentsOf(source, period)
                    /\ ContentsOf(source, period)[file_batch[i].version] = file_batch[i].content
  BY DEF LogReadsTable
<1> DEFINE j == CHOOSE j \in VersionsOf(source, period) : file_batch[j].version = file_batch[i].version
<1>1. j \in VersionsOf(source, period) /\ file_batch[j].version = file_batch[i].version
  OBVIOUS
<1>2. j = i
  BY <1>1, VersionNamesABatch
<1> HIDE DEF j
<1>3. ContentsOf(source, period)[file_batch[i].version] = file_batch[j].content
  BY DEF ContentsOf, j
<1> QED
  BY <1>2, <1>3 DEF ContentsOf

LEMMA LenOfFunction ==
    ASSUME NEW S, NEW k \in Nat, NEW q \in [1..k -> S]
    PROVE  q \in Seq(S) /\ Len(q) = k
OBVIOUS

LEMMA AppendAsFunction ==
    ASSUME NEW S, NEW k \in Nat, NEW q \in Seq(S), Len(q) = k, NEW e \in S
    PROVE  Append(q, e) = [n \in 1..(k + 1) |-> IF n = k + 1 THEN e ELSE q[n]]
<1> DEFINE grown == Append(q, e)
<1>1. grown \in Seq(S) /\ Len(grown) = k + 1
  OBVIOUS
<1>2. \A n \in 1..(k + 1) : grown[n] = IF n = k + 1 THEN e ELSE q[n]
  OBVIOUS
<1>3. grown \in [1..(k + 1) -> S]
  BY <1>1, LenProperties
<1> HIDE DEF grown
<1>4. grown = [n \in 1..(k + 1) |-> IF n = k + 1 THEN e ELSE q[n]]
  BY <1>2, <1>3
<1> QED
  BY <1>4 DEF grown

\* An accepted delivery is a delivery of the log.
LEMMA UploadDelivers ==
    ASSUME TypeOK, VersionChain, VersionsCount, TypeOK', VersionsCount',
           NEW source \in Sources, NEW period \in Periods, NEW content \in Contents,
           UploadFile(source, period, content)
    PROVE  Log!Deliver(source, period, content)
<1>0. LogReadsTable /\ LogReadsTable'
  BY ContentOfVersion, PTL
<1>1. PICK previous \in Nat : Accepted(source, period, content, previous)
  BY UploadBatches
<1>2. PICK last : last = Len(file_batch) + 1
  OBVIOUS
<1>3. /\ previous = None => CurrentBatch(source, period) = {}
      /\ previous # None => previous \in CurrentBatch(source, period)
      /\ DOMAIN file_batch' = DOMAIN file_batch \cup {last}
      /\ last \notin DOMAIN file_batch
      /\ file_batch'[last] = NewBatch(source, period, content, previous)
      /\ \A i \in DOMAIN file_batch :
            file_batch'[i] = IF i = previous
                             THEN [file_batch[i] EXCEPT !.superseded_by = last]
                             ELSE file_batch[i]
  BY <1>1, <1>2 DEF Accepted
<1>4. /\ file_batch'[last].source = source /\ file_batch'[last].period = period
      /\ file_batch'[last].content = content
      /\ file_batch'[last].superseded_by = None
      /\ previous = None => file_batch'[last].version = 1
      /\ previous # None => file_batch'[last].version = file_batch[previous].version + 1
  BY <1>3 DEF NewBatch
<1>5. \A i \in DOMAIN file_batch :
         /\ i # None /\ i # last
         /\ file_batch'[i].source = file_batch[i].source
         /\ file_batch'[i].period = file_batch[i].period
         /\ file_batch'[i].version = file_batch[i].version
         /\ file_batch'[i].content = file_batch[i].content
         /\ file_batch'[i].superseded_by = IF i = previous THEN last ELSE file_batch[i].superseded_by
  <2>1. \A i \in DOMAIN file_batch : i # None /\ i # last /\ file_batch[i] \in FileBatch
    BY <1>2, BatchTyped DEF None, TypeOK
  <2> QED
    BY <1>3, <2>1 DEF FileBatch
<1> DEFINE here(s, p) == s = source /\ p = period
<1>6. \A s, p : VersionsOf(s, p)' = VersionsOf(s, p) \cup (IF here(s, p) THEN {last} ELSE {})
  BY <1>3, <1>4, <1>5 DEF VersionsOf, SamePeriod
<1>7. \A s, p : \A i \in VersionsOf(s, p) : i \in DOMAIN file_batch /\ i # last
  BY <1>3 DEF VersionsOf
<1>8. ASSUME NEW s \in Sources, NEW p \in Periods, ~here(s, p)
      PROVE  /\ ContentsOf(s, p)' = ContentsOf(s, p)
             /\ ContentThatCounts(s, p)' = ContentThatCounts(s, p)
  <2>1. VersionsOf(s, p)' = VersionsOf(s, p)
    BY <1>6, <1>8
  <2>2. DOMAIN ContentsOf(s, p)' = DOMAIN ContentsOf(s, p)
    BY <1>5, <1>7, <2>1 DEF ContentsOf
  <2>3. ASSUME NEW n \in DOMAIN ContentsOf(s, p)
        PROVE  ContentsOf(s, p)'[n] = ContentsOf(s, p)[n]
    <3>1. PICK i \in VersionsOf(s, p) : file_batch[i].version = n
      BY DEF ContentsOf
    <3>2. ContentsOf(s, p)[n] = file_batch[i].content
      BY <1>0, <3>1 DEF LogReadsTable
    <3>3. ContentsOf(s, p)'[n] = file_batch'[i].content
      BY <1>0, <1>5, <1>7, <2>1, <3>1 DEF LogReadsTable
    <3> QED
      BY <1>5, <1>7, <3>1, <3>2, <3>3
  <2>4. ContentsOf(s, p)' = [n \in DOMAIN ContentsOf(s, p)' |-> ContentsOf(s, p)'[n]]
        /\ ContentsOf(s, p) = [n \in DOMAIN ContentsOf(s, p) |-> ContentsOf(s, p)[n]]
    BY DEF ContentsOf
  <2>5. CurrentBatch(s, p)' = CurrentBatch(s, p)
    BY <1>3, <1>4, <1>5, <1>8 DEF CurrentBatch, SamePeriod
  <2>6. \A i \in CurrentBatch(s, p) : i \in DOMAIN file_batch
    BY DEF CurrentBatch
  <2>7. ContentThatCounts(s, p)' = ContentThatCounts(s, p)
    BY <1>5, <2>5, <2>6 DEF ContentThatCounts
  <2> QED
    BY <2>2, <2>3, <2>4, <2>7
<1>9. ContentThatCounts(source, period)' = {content}
  <2>1. last # None
    BY <1>2 DEF None, TypeOK
  <2>2. ASSUME NEW i \in CurrentBatch(source, period) PROVE i = previous
    <3>1. previous # None /\ previous \in CurrentBatch(source, period)
      BY <1>3
    <3>2. i \in Nat /\ i <= previous /\ previous <= i
      BY <3>1, BatchTyped DEF CurrentBatch, VersionChain, Chained, SamePeriod
    <3> QED
      BY <3>2
  <2>3. \A i : i \in CurrentBatch(source, period)' <=> i = last
    BY <1>3, <1>4, <1>5, <2>1, <2>2 DEF CurrentBatch, SamePeriod
  <2> QED
    BY <1>4, <2>3 DEF ContentThatCounts
<1> DEFINE k == IF previous = None THEN 0 ELSE file_batch[previous].version
           log == ContentsOf(source, period)
<1>10. k \in Nat /\ DOMAIN log = 1..k /\ file_batch'[last].version = k + 1
  <2>1. previous # None =>
           previous \in VersionsOf(source, period) /\ previous \in DOMAIN file_batch
    BY <1>3 DEF CurrentBatch, VersionsOf
  <2>2. k \in Nat /\ file_batch'[last].version = k + 1
    BY <1>4, <2>1, BatchTyped
  <2>3. ASSUME NEW n \in 1..k PROVE n \in DOMAIN log
    <3>1. previous # None
      BY <2>3
    <3>2. \E j \in VersionsOf(source, period) : file_batch[j].version = n
      BY <2>1, <3>1 DEF VersionsCount, VersionsOf, SamePeriod
    <3> QED
      BY <3>2 DEF ContentsOf
  <2>4. ASSUME NEW n \in DOMAIN log PROVE n \in 1..k
    <3>1. PICK i \in VersionsOf(source, period) : file_batch[i].version = n
      BY DEF ContentsOf
    <3>2. last \in VersionsOf(source, period)' /\ i < last /\ i \in DOMAIN file_batch
      BY <1>2, <1>6, <1>7, <3>1, BatchTyped
    <3>3. file_batch'[last].version > file_batch'[i].version
      BY <1>3, <1>5, <3>1, <3>2 DEF VersionsCount, VersionsOf, SamePeriod
    <3>4. n \in Nat \ {0}
      BY <3>1, <3>2, BatchTyped DEF FileBatch
    <3> QED
      BY <1>5, <2>2, <3>1, <3>2, <3>3, <3>4
  <2> QED
    BY <2>2, <2>3, <2>4
<1>11. log \in Seq(Contents) /\ Len(log) = k
  <2>1. ASSUME NEW n \in DOMAIN log PROVE log[n] \in Contents
    <3>1. PICK i \in VersionsOf(source, period) : file_batch[i].version = n
      BY DEF ContentsOf
    <3> QED
      BY <1>0, <1>7, <3>1, BatchTyped DEF LogReadsTable
  <2>2. log = [n \in 1..k |-> log[n]]
    BY <1>10 DEF ContentsOf
  <2> HIDE DEF log, k
  <2>3. log \in [1..k -> Contents]
    BY <1>10, <2>1, <2>2
  <2> QED
    BY <1>10, <2>3, LenOfFunction
<1>12. ContentsOf(source, period)' = Append(log, content)
  <2>1. DOMAIN ContentsOf(source, period)' = 1..(k + 1)
    <3>1. DOMAIN ContentsOf(source, period)' = DOMAIN log \cup {k + 1}
      BY <1>5, <1>6, <1>7, <1>10 DEF ContentsOf
    <3> QED
      BY <1>10, <3>1
  <2>2. ASSUME NEW n \in 1..k PROVE ContentsOf(source, period)'[n] = log[n]
    <3>1. PICK i \in VersionsOf(source, period) : file_batch[i].version = n
      BY <1>10 DEF ContentsOf
    <3>2. log[n] = file_batch[i].content
      BY <1>0, <3>1 DEF LogReadsTable
    <3>3. ContentsOf(source, period)'[n] = file_batch'[i].content
      BY <1>0, <1>5, <1>6, <1>7, <3>1 DEF LogReadsTable
    <3> QED
      BY <1>5, <1>7, <3>1, <3>2, <3>3
  <2>3. ContentsOf(source, period)'[k + 1] = content
    BY <1>0, <1>4, <1>6, <1>10 DEF LogReadsTable
  <2>4. ContentsOf(source, period)'
           = [n \in 1..(k + 1) |-> ContentsOf(source, period)'[n]]
    BY <2>1 DEF ContentsOf
  <2> DEFINE grown == ContentsOf(source, period)'
  <2> HIDE DEF log, k, grown
  <2>5. grown = [n \in 1..(k + 1) |-> IF n = k + 1 THEN content ELSE log[n]]
    <3>1. \A n \in 1..(k + 1) : grown[n] = IF n = k + 1 THEN content ELSE log[n]
      BY <1>10, <2>2, <2>3 DEF grown
    <3> QED
      BY <2>4, <3>1 DEF grown
  <2>6. Append(log, content) = [n \in 1..(k + 1) |-> IF n = k + 1 THEN content ELSE log[n]]
    BY <1>10, <1>11, AppendAsFunction
  <2> QED
    BY <2>5, <2>6 DEF grown
<1>13. ASSUME NEW p \in Periods, NEW n \in DOMAIN ContentsOf(source, p)
       PROVE  /\ ContentsOf(source, p)[n] # content
              /\ p = period \/ Log!Apart(p, period)
  <2>1. PICK i \in VersionsOf(source, p) : file_batch[i].version = n
    BY DEF ContentsOf
  <2>2. ContentsOf(source, p)[n] = file_batch[i].content
    BY <1>0, <2>1 DEF LogReadsTable
  <2>3. i \in DOMAIN file_batch /\ file_batch[i].source = source /\ file_batch[i].period = p
    BY <2>1 DEF VersionsOf, SamePeriod
  <2>4. file_batch[i].content # content
    BY <2>3 DEF UploadFile, Duplicate
  <2>5. p = period \/ ~Overlaps(p, period)
    BY <2>3 DEF UploadFile, PartlyOverlaps
  <2>6. p \in Nat \X Nat /\ period \in Nat \X Nat
    BY PeriodsAssumption
  <2> QED
    BY <2>2, <2>4, <2>5, <2>6 DEF Overlaps, Log!Apart
<1> DEFINE all == Sources \X Periods
           delivered == [key \in all |-> ContentsOf(key[1], key[2])]
           authoritative == [key \in all |-> ContentThatCounts(key[1], key[2])]
<1>14. delivered' = [delivered EXCEPT ![<<source, period>>] = Append(@, content)]
  <2>1. \A key \in all : ContentsOf(key[1], key[2])'
                            = IF key = <<source, period>> THEN Append(log, content)
                              ELSE ContentsOf(key[1], key[2])
    BY <1>8, <1>12
  <2> QED
    BY <2>1
<1>15. authoritative' = [authoritative EXCEPT ![<<source, period>>] = {content}]
  <2>1. \A key \in all : ContentThatCounts(key[1], key[2])'
                            = IF key = <<source, period>> THEN {content}
                              ELSE ContentThatCounts(key[1], key[2])
    BY <1>8, <1>9
  <2> QED
    BY <2>1
<1>16. \A p \in Periods : \A n \in DOMAIN delivered[<<source, p>>] :
          delivered[<<source, p>>][n] # content /\ (p = period \/ Log!Apart(p, period))
  BY <1>13
<1> QED
  BY <1>14, <1>15, <1>16 DEF Log!Deliver

\* The file_batch table implements the log of deliveries: each accepted upload
\* adds one content to the log of its period and makes it the one that counts,
\* it was never taken before, and its period cuts across no other (ingest_file).
THEOREM BatchesImplementLog == Spec => ImplementsLog
<1>1. Init => Log!LogInit
  <2> SUFFICES ASSUME Init PROVE Log!LogInit
    OBVIOUS
  <2>1. \A s, p : VersionsOf(s, p) = {} /\ CurrentBatch(s, p) = {}
    BY DEF Init, VersionsOf, CurrentBatch
  <2>2. \A s, p : ContentsOf(s, p) = <<>> /\ ContentThatCounts(s, p) = {}
    BY <2>1 DEF ContentsOf, ContentThatCounts
  <2> QED
    BY <2>2 DEF Log!LogInit
<1>2. Init => VersionsCount
  BY DEF Init, VersionsCount
<1>3. Spec => []VersionsCount
  BY <1>2, VersionsCountNext, TypeCorrect, VersionsFormAChain, PTL DEF Spec
<1>4. TypeOK /\ VersionChain /\ VersionsCount /\ TypeOK' /\ VersionsCount' /\ [Next]_vars
         => [Log!LogNext]_(Log!logVars)
  <2> SUFFICES ASSUME TypeOK, VersionChain, VersionsCount, TypeOK', VersionsCount', [Next]_vars
               PROVE  [Log!LogNext]_(Log!logVars)
    OBVIOUS
  <2>1. ASSUME NEW source \in Sources, NEW period \in Periods, NEW content \in Contents,
               UploadFile(source, period, content)
        PROVE  Log!LogNext
    BY <2>1, UploadDelivers DEF Log!LogNext
  <2>2. CASE UNCHANGED vars
    BY <2>2 DEF vars, Log!logVars, ContentsOf, ContentThatCounts, VersionsOf, CurrentBatch
  <2> QED
    BY <2>1, <2>2 DEF Next
<1> QED
  BY <1>1, <1>3, <1>4, TypeCorrect, VersionsFormAChain, PTL DEF Spec, ImplementsLog, Log!LogSpec

=============================================================================
