----------------------------- MODULE Reconcile -----------------------------
(***************************************************************************)
(* The whole service: files are loaded (Ingest), people decide             *)
(* (Resolutions) and runs reconcile what is loaded (Matching, Compare),    *)
(* in any order.  A run reads the current deliveries and the live          *)
(* decisions of its two sources, writes down what became of every record   *)
(* and withdraws the acceptances it found to be mistaken                   *)
(* (run_reconciliation in app/services/reconcile.py, POST /runs).          *)
(*                                                                         *)
(* One action is one request in one transaction.  A run that is refused    *)
(* (nothing loaded, an ambiguous file, no tolerance profile, one source    *)
(* against itself) rolls back: it is the stuttering step.  So would one    *)
(* whose records do not each get one state (claim, _guard_total), but      *)
(* Matching_proofs shows that there is none.  The pages only record        *)
(* decisions: no route reaches revoke.                                     *)
(***************************************************************************)
EXTENDS Integers, Sequences, FiniteSets, Functions, Matching, Compare

CONSTANTS Periods, Contents, RecordRow, Parsed, MaxBatches,  \* Ingest
          Identity, MaxResolutions,                          \* Resolutions
          SourcePairs,  \* <<left, right>>, the pairs with a tolerance profile
          MaxRuns       \* bound: runs made

ASSUME SourcePairsAssumption ==
    \A pair \in SourcePairs : pair \in Sources \X Sources /\ pair[1] # pair[2]

VARIABLES file_batch, resolution,
          run           \* the runs, oldest first; a run's id is its index

vars == <<file_batch, resolution, run>>

Files     == INSTANCE Ingest
Decisions == INSTANCE Resolutions

RecordStatus == {"settled", "pending", "cancelled"}

\* What Ingest and Resolutions assume of their constants, and what a
\* normalised row and a decision are to matching and to the comparison.
ASSUME TablesAssumption ==
    /\ Periods \subseteq Nat \X Nat
    /\ \A source \in Sources, content \in Contents :
          Parsed[source][content] \in Files!ParsedFile
    /\ RecordRow \subseteq [reference : References, status : RecordStatus, bucket : Buckets,
                            time : Times, quantity : Quantities, price : Int, amount : Int]
    /\ Identity \subseteq RecordKey
    /\ MaxBatches \in Nat /\ MaxResolutions \in Nat

----------------------------------------------------------------------------
(* What a run reads.                                                       *)

\* The current delivery of a source, as a set of at most one batch id.
Current(source, period) == Files!CurrentBatch(source, period)

\* The one the code works with, where there is one.
CurrentFile(source, period) == CHOOSE batch \in Current(source, period) : TRUE

CurrentRecords(source, period) ==
    UNION {{<<batch, n>> : n \in DOMAIN file_batch[batch].records} :
              batch \in Current(source, period)}

RowAt(position) == file_batch[position[1]].records[position[2]]

\* A reference identifies one transaction; a file that repeats one is refused.
Unambiguous(source, period) ==
    \A p, q \in CurrentRecords(source, period) :
        RowAt(p).reference = RowAt(q).reference => p = q

\* A stored row in matching's vocabulary.
Normalized(source, row) ==
    [source |-> source, reference |-> row.reference, cancelled |-> row.status = "cancelled",
     bucket |-> row.bucket, time |-> row.time, quantity |-> row.quantity,
     price |-> row.price, amount |-> row.amount, status |-> row.status]

Side(source, period) == {Normalized(source, RowAt(p)) : p \in CurrentRecords(source, period)}

\* A bug the checks must catch: a correction orphans the decisions made
\* about the rows it replaces.
UntilCorrected(L, R, period) ==
    IF Files!SupersededBatches(L, period) \cup Files!SupersededBatches(R, period) # {}
    THEN [i \in {} |-> NoRecord]
    ELSE Decisions!PriorResolutions(L, R)

\* Read on every run: a decision is about identity, not about a run.
LoadPriorResolutions(L, R, period) == Decisions!PriorResolutions(L, R)

\* What matching is given.
RunInput(L, R, period) ==
    [leftSource  |-> L,
     rightSource |-> R,
     left        |-> Side(L, period),
     right       |-> Side(R, period),
     prior       |-> LoadPriorResolutions(L, R, period)]

\* What matching makes of the two sides.
MatchResult(in) ==
    [manual               |-> ManualPairs(in),
     reference            |-> ReferencePairs(in),
     suggested            |-> Suggested(in),
     unmatched            |-> Unmatched(in),
     accepted_unmatched   |-> AcceptedUnmatched(in),
     status_disagreements |-> StatusDisagreements(in),
     excluded             |-> Cancelled(in.left) \cup Cancelled(in.right),
     revocations          |-> Revoked(in)]

----------------------------------------------------------------------------
(* What a run writes.                                                      *)

Item(source, batch, reference, state) ==
    [source |-> source, batch |-> batch, reference |-> reference, state |-> state]

\* The decision behind a pair, found by its left-hand identity (none for an
\* automatic pair), as a set of at most one id.
ResolutionBehind(p, manual) ==
    IF manual THEN Decisions!ResolutionFor(<<p[1].source, p[1].reference>>) ELSE {}

PairRow(p, manual) ==
    [left       |-> <<p[1].source, p[1].reference>>,
     right      |-> <<p[2].source, p[2].reference>>,
     manual     |-> manual,
     verdict    |-> Verdict(FieldDiffs(p[1], p[2])),
     resolution |-> ResolutionBehind(p, manual)]

PairRows(result) ==
    {PairRow(p, TRUE) : p \in result.manual} \cup {PairRow(p, FALSE) : p \in result.reference}

\* One state for every record of the two current files (_assign_states).
RecordItems(result, period) ==
    LET items(records, state) ==
            {Item(r.source, CurrentFile(r.source, period), r.reference, state) : r \in records}
    IN  items(result.excluded, "excluded") \cup
        items(result.status_disagreements, "status_disagreement") \cup
        items(result.accepted_unmatched, "accepted_unmatched") \cup
        items(result.unmatched, "unmatched") \cup
        items(result.suggested, "suggested") \cup
        UNION {items({p[1], p[2]}, Verdict(FieldDiffs(p[1], p[2]))) :
                  p \in result.manual \cup result.reference}

\* A bug the checks must catch: the row is looked for in the current version.
CurrentVersion(source, period, reference) == Current(source, period)

\* A bug the checks must catch: the first version that had the reference.
FirstSuperseded(source, period, reference) ==
    {b \in Files!SupersededBatches(source, period) :
        /\ reference \in Files!ReferencesIn(file_batch[b].records)
        /\ \A c \in Files!SupersededBatches(source, period) :
              reference \in Files!ReferencesIn(file_batch[c].records) =>
                  file_batch[c].version >= file_batch[b].version}

\* The newest superseded version that still had the reference.
LatestSuperseded(source, period, reference) ==
    {b \in Files!SupersededBatches(source, period) :
        /\ reference \in Files!ReferencesIn(file_batch[b].records)
        /\ \A c \in Files!SupersededBatches(source, period) :
              reference \in Files!ReferencesIn(file_batch[c].records) =>
                  file_batch[c].version <= file_batch[b].version}

WithdrawnItems(source, period) ==
    UNION {{Item(source, batch, reference, "withdrawn") :
               batch \in LatestSuperseded(source, period, reference)} :
              reference \in Files!WithdrawnReferences(source, period)}

RejectedCount(source, period) ==
    IF Current(source, period) = {} THEN 0
    ELSE file_batch[CurrentFile(source, period)].errors

RecordState == {"excluded", "status_disagreement", "accepted_unmatched", "unmatched", "suggested",
                "break", "agreed_with_drift", "agreed", "withdrawn", "rejected_row"}

Worklist == {"break", "suggested", "unmatched", "status_disagreement", "withdrawn", "rejected_row"}

\* A bug the checks must catch: the rows that failed to load are not counted.
CountItems(items, rejected) ==
    [state \in RecordState |-> Cardinality({item \in items : item.state = state})]

Counts(items, rejected) ==
    [state \in RecordState |->
        Cardinality({item \in items : item.state = state})
            + IF state = "rejected_row" THEN rejected ELSE 0]

\* A bug the checks must catch: whatever governs a paired record is undone.
RevokedWithPairs(result) ==
    UNION {Decisions!ResolutionFor(<<p[1].source, p[1].reference>>) :
              p \in result.manual \cup result.reference}

\* The rows behind the acceptances this run revokes, found by identity.
RevokedRows(result) == UNION {Decisions!ResolutionFor(key) : key \in result.revocations}

\* The row of a run also says how many files and decisions preceded it: what
\* started_at tells against accepted_at and created_at.
StartRun(L, R, period) ==
    /\ Len(run) < MaxRuns
    /\ <<L, R>> \in SourcePairs
    /\ CurrentRecords(L, period) \cup CurrentRecords(R, period) # {}
    /\ Unambiguous(L, period) /\ Unambiguous(R, period)
    /\ \E in \in {RunInput(L, R, period)} : \E result \in {MatchResult(in)} :
       \E items \in {RecordItems(result, period) \cup
                        WithdrawnItems(L, period) \cup WithdrawnItems(R, period)},
          revoked \in {RevokedRows(result)} :
          /\ run' = Append(run, [left      |-> L,
                                 right     |-> R,
                                 period    |-> period,
                                 files     |-> Len(file_batch),
                                 decisions |-> Len(resolution),
                                 pairs     |-> PairRows(result),
                                 items     |-> items,
                                 counts    |-> Counts(items, RejectedCount(L, period)
                                                                + RejectedCount(R, period))])
          /\ resolution' = [i \in DOMAIN resolution |->
                               IF i \in revoked
                               THEN [resolution[i] EXCEPT !.stamp = "withdrawn"]
                               ELSE resolution[i]]
    /\ UNCHANGED file_batch

Upload(source, period, content) ==
    Files!UploadFile(source, period, content) /\ UNCHANGED <<resolution, run>>

\* POST /resolutions: one of the three decisions.
CreateResolution(left, right) ==
    /\ \/ right # NoRecord /\ Decisions!ManualMatch(left, right)
       \/ right # NoRecord /\ Decisions!RejectSuggestion(left, right)
       \/ right = NoRecord /\ Decisions!AcceptUnmatched(left)
    /\ UNCHANGED <<file_batch, run>>

Init == file_batch = <<>> /\ resolution = <<>> /\ run = <<>>

Next ==
    \/ \E source \in Sources, period \in Periods, content \in Contents :
          Upload(source, period, content)
    \/ \E left \in Identity, right \in Identity \cup {NoRecord} : CreateResolution(left, right)
    \/ \E pair \in SourcePairs, period \in Periods : StartRun(pair[1], pair[2], period)

Spec == Init /\ [][Next]_vars

----------------------------------------------------------------------------
(* Properties.                                                             *)

Live(row) == row.stamp = "live"

NewRun == run[Len(run)]

Total(counts) ==
    counts["excluded"] + counts["status_disagreement"] + counts["accepted_unmatched"]
        + counts["unmatched"] + counts["suggested"] + counts["break"]
        + counts["agreed_with_drift"] + counts["agreed"] + counts["withdrawn"]
        + counts["rejected_row"]

\* The rows of the current delivery of a source, loaded or rejected.
RowsDelivered(source, period) ==
    IF Current(source, period) = {} THEN 0
    ELSE Len(file_batch[CurrentFile(source, period)].records)
             + file_batch[CurrentFile(source, period)].errors

\* A run is about a configured pair; each of its items points at a stored row
\* of its source and period that was there when the run started, and has one
\* of the ten states.
TypeOK ==
    \A k \in DOMAIN run :
        /\ <<run[k].left, run[k].right>> \in SourcePairs
        /\ run[k].files <= Len(file_batch) /\ run[k].decisions <= Len(resolution)
        /\ run[k].counts \in [RecordState -> Nat]
        /\ \A item \in run[k].items :
              /\ item.state \in RecordState
              /\ item.batch \in 1..run[k].files
              /\ Files!SamePeriod(file_batch[item.batch], item.source, run[k].period)
              /\ item.reference \in Files!ReferencesIn(file_batch[item.batch].records)

\* Every record of the two current files and every reference withdrawn from
\* them has one state in the new run, and its counts cover every row of both
\* files, loaded or rejected, and every withdrawal.
AddsUp(new) ==
    LET gone(source) == Files!WithdrawnReferences(source, new.period)
    IN  /\ \A source \in {new.left, new.right} :
              {item.reference : item \in {i \in new.items : i.source = source}} =
                  gone(source) \cup {RowAt(p).reference : p \in CurrentRecords(source, new.period)}
        /\ \A i, j \in new.items :
              (i.source = j.source /\ i.reference = j.reference) => i = j
        /\ Total(new.counts) =
              RowsDelivered(new.left, new.period) + Cardinality(gone(new.left))
                  + RowsDelivered(new.right, new.period) + Cardinality(gone(new.right))

\* The summary of a run adds up (AC2, TR-509).
SummaryAddsUp == [][Len(run') > Len(run) => AddsUp(NewRun')]_vars

\* A withdrawn reference is shown as its last delivery had it: no later
\* version of the period, and not the current one, contains it (TR-107).
WithdrawnShowsLastValue ==
    \A k \in DOMAIN run : \A item \in run[k].items :
        item.state = "withdrawn" =>
            /\ item.reference \in Files!ReferencesIn(file_batch[item.batch].records)
            /\ \A b \in item.batch + 1..run[k].files :
                  (file_batch[b].source = item.source /\ file_batch[b].period = run[k].period) =>
                      item.reference \notin Files!ReferencesIn(file_batch[b].records)

\* A run reverses exactly the decisions it should: it stamps an acceptance
\* when its record found a counterpart by reference, both or neither side's,
\* and leaves every pairing and rejection alone (R7.7, R7.8).
OnlyMistakenAcceptancesReversed ==
    [][Len(run') > Len(run) =>
          LET found == UNION {{p.left, p.right} : p \in {q \in NewRun'.pairs : ~q.manual}}
          IN  \A i \in DOMAIN resolution :
                 (resolution'[i] # resolution[i]) <=>
                     /\ Live(resolution[i])
                     /\ resolution[i].kind = "accept_unmatched"
                     /\ resolution[i].left \in found]_vars

\* A manual pair names the decision that made it, in every run, however
\* the files and the decisions changed since (TR-508); an automatic pair
\* names none.
ProvenanceIsTheDecision ==
    \A k \in DOMAIN run : \A p \in run[k].pairs :
        IF ~p.manual THEN p.resolution = {}
        ELSE \E i \in 1..run[k].decisions :
                /\ p.resolution = {i}
                /\ resolution[i].kind = "manual_match"
                /\ {resolution[i].left, resolution[i].right} = {p.left, p.right}

\* A pairing survives corrections (R7.6, TR-317): while its decision stands,
\* a later run over the same period pairs the two records again, unless one
\* of them is gone, cancelled or in a status disagreement.
PairSurvivesCorrection ==
    \A k, j \in DOMAIN run : \A p \in run[k].pairs :
        (/\ k < j /\ p.manual
         /\ <<run[j].left, run[j].right, run[j].period>> = <<run[k].left, run[k].right, run[k].period>>
         /\ \A i \in p.resolution : Live(resolution[i])
         /\ \A key \in {p.left, p.right} : \E item \in run[j].items :
               /\ <<item.source, item.reference>> = key
               /\ item.state \notin {"excluded", "status_disagreement", "withdrawn"})
        => \E q \in run[j].pairs :
              <<q.left, q.right, q.resolution>> = <<p.left, p.right, p.resolution>>

SameInputs(one, other) ==
    /\ <<one.left, one.right, one.period>> = <<other.left, other.right, other.period>>
    /\ one.files = other.files /\ one.decisions = other.decisions

\* Running again with nothing loaded and nothing decided in between gives
\* the same answer, although the first run may have withdrawn acceptances
\* (TR-702).
RerunIsTheSame ==
    \A k \in 1..Len(run) - 1 :
        SameInputs(run[k], run[k + 1]) =>
            <<run[k + 1].items, run[k + 1].pairs, run[k + 1].counts>> =
                <<run[k].items, run[k].pairs, run[k].counts>>

\* SPEC Flow 8: records accepted as unmatched yesterday do not reappear, as
\* long as no file arrived and nothing was decided in between.
AcceptedDoesNotReappear ==
    \A k, j \in DOMAIN run : (k < j /\ SameInputs(run[k], run[j])) =>
        \A one \in run[k].items, other \in run[j].items :
            (<<one.source, one.reference>> = <<other.source, other.reference>>
                /\ one.state = "accepted_unmatched") => other.state \notin Worklist

\* accept_unmatched's docstring: an accepted record leaves the worklist and
\* stays out of it on every later run, unless the acceptance is revoked.
AcceptedLeavesTheWorklist ==
    \A k \in DOMAIN run : \A i \in 1..run[k].decisions :
        (Live(resolution[i]) /\ resolution[i].kind = "accept_unmatched") =>
            \A item \in run[k].items :
                <<item.source, item.reference>> = resolution[i].left => item.state \notin Worklist

=============================================================================
