# import-reconcile in TLA+

import-reconcile compares what two systems say about the same trades. A ledger
and its counterparties deliver files; the service normalises their rows, pairs
them, compares each pair within tolerances, and gives an analyst a short
worklist. What the analyst decides is kept and applied to every later run.

This directory models the parts of the service that decide something, checks
them with TLC on small instances and proves the central safety properties with
TLAPS. Paths below are relative to `src/`.

## The system

| Component | State it keeps | Operations | Where it is hard |
|---|---|---|---|
| Ingestion, `app/services/ingest.py`, `POST /files` | `file_batch`, `record`, `rejected_row` | accept a delivery, refuse a resend or a partly overlapping period, supersede the previous version, derive withdrawals | corrections of corrections, resends of old versions, boundary days, two uploads at once |
| Resolutions, `app/services/resolve.py`, `POST /resolutions` | `resolution` | pair, accept as unmatched, reject a suggestion, revoke; look up by identity | decisions that collide on either side, lookups by one identity, orientation, history |
| Matching, `core/match.py` | none: a pure function | five tiers, revocations, ranking | tiers that take records from each other, decisions that contend, boundaries of the window |
| Comparison and tolerances, `core/compare.py`, `core/tolerance.py` | none | differences per field, verdict | symmetry of the allowances, boundaries, zero |
| Runs, `app/services/reconcile.py`, `POST /runs` | `run`, `pair`, `field_diff`, `run_item` | run a reconciliation, revoke acceptances, list a worklist and candidates | what a run reads against what it writes; corrections between runs; provenance |
| Normalisation, `core/normalize.py`, `core/format.py`, `app/db/types.py` | none | rows of a source in the common vocabulary, or an error per row | timestamps and zones, number scale, headers |
| Pages, `app/web/routes.py` | none | forms and views | a page that shows an old run recomputes from today's data; two records on one line |
| Schema and session, `app/db/` | the database | one request is one transaction, committed after its answer | isolation, locks, unique constraints, a commit that fails, a restart |
| The server around them (FastAPI, a thread pool, SQLite or PostgreSQL) | one event loop, open transactions, locks | begins and answers requests, starts their commits | one handler is a coroutine that blocks the loop |
| Start-up, configuration, logging, migrations, scripts | configured sources and tolerance profiles | seeding, log lines | little: left out |

The components interact by calls inside one transaction and through the tables.
A run calls `current_records`, `prior_resolutions` and `match`, writes its pairs
(looking the decision behind each up with `resolution_for`), and revokes through
`resolve.revoke` the acceptances that matching found mistaken. So a run both
reads and writes the decisions. A decision and a run never call each other:
they meet in the `resolution` table, by the business identity
`<<source, reference>>` and never by a row id. Corrections and runs meet in
`file_batch`, through the mark that says which version is current. Requests
overlap: the handlers of decisions and runs are threads, an upload is a
coroutine, and nothing but the database's locks and unique constraints stands
between them.

What makes each of them correct:

- ingestion: one current version per period, at the end of a gapless chain; the
  periods of a source equal or disjoint; nothing stored is rewritten;
  withdrawals derived from the whole history;
- resolutions: no two live decisions contradict; a record's decision is found
  from any identity it names; no row is deleted, rewritten or stamped twice;
- matching: a total, disjoint, one-to-one partition; decisions of people
  prevail; neither side is favoured; no plausible counterpart is overlooked;
- runs: the summary accounts for every row; pairings survive corrections;
  only mistaken acceptances are reversed, once; a rerun repeats its answer;
- pages: every record that needs a person is on one line, ordered by what the
  line says; a verdict follows from the two rows shown; a decision that was there
  when the run read the decisions was applied, and one not marked as newer than
  the run was too, unless it overlapped the run;
- loading: a file in any notation holds the trades its lines state, and a line
  that cannot be loaded costs that line only (it may cost the file, see below);
- requests that overlap: what an answered request wrote is never half there,
  the same bytes are stored once, contradictions and split versions need a race,
  and every request ends.

## Modules

| Module | Models | State and actions against the code |
|---|---|---|
| `Resolutions` | `resolve.py` | `resolution` is the table, a row's id its index; `stamp` is `revoked_at` and the way it was set. `ManualMatch`, `AcceptUnmatched`, `RejectSuggestion`, `Revoke` are the four functions of those names, each with the supersession it performs. `PriorResolutions`, `ResolutionFor` are the reads. |
| `DecisionBoard` | what the table promises | abstract: the fate of each record and the blocked pairs |
| `Ingest` | `ingest.py`, `upload_file` | `file_batch` holds batches with their rows. `UploadFile` is the whole request: guards, version, rows, supersession. `WithdrawnReferences` is the derived read. |
| `DeliveryLog` | what ingestion promises | abstract: the log of contents per source and period, and the one that counts |
| `Tolerance`, `Compare` | `tolerance.py`, `compare.py` | predicates on integers in the smallest unit, exact as the code's decimals are; `FieldDiffs`, `Verdict` |
| `IngestLog` | what readers of the batches see | the mapping of `file_batch` to `DeliveryLog` |
| `Matching` | `match.py`, `candidates_for`'s order | no state: each tier is an operator over the input of a run, its two sides and the decisions before it; `AfterRun` is what the run leaves the next one |
| `MatchingRuns` | runs over the same files, one after the other | `input` is the input of the next run; `NextRun` is a run |
| `Loading` | `normalize.py`, `format.py`, `types.py`, `read_rows`, `_persist_records` | no state: `Load` is what becomes of one file in one source's format, from header to stored scale. It gives `Ingest` its constant `Parsed`. |
| `Reconcile` | `reconcile.py`, the three POST routes | instantiates the three above over shared tables and adds `run`; `Upload`, `CreateResolution`, `StartRun` are the requests |
| `RunPages` | `run_summary` to `candidates_for`, the summary, worklist, pair and record pages of `routes.py` | no state of its own: operators on `Reconcile`'s, so that an old run is read with the files and decisions of today |
| `RecordPage` | the record page while requests overlap: `record_detail` in `routes.py`, `created_at` in `resolve.py`, `finished_at` in `reconcile.py` | the steps of `Requests`, and which of the two times was read first: `created` are the decisions that have read theirs, `older` those that had when a run read its own, `maker` whose runs were committed. `DecisionIsNewer` compares the two times, as the page does; what it compares them for is read through `RunPages`. |
| `Requests` | the three POST handlers statement by statement, `session.py`, the event loop and the databases' locks | `request` says how far each request has come, what it has in hand and which locks it holds; `loop` who has the event loop; the tables hold what is committed. One action per statement or group of statements that reads or writes one thing. Instantiates `Reconcile` for what the statements compute. |
| `ResolutionsBoard` | what readers of the table see | the mapping of the table to `DecisionBoard`: `FateOf` reads it through `ResolutionFor`, `BlockedPairs` are the live rejections |
| `Resolutions_proofs`, `Ingest_proofs`, `Matching_proofs`, `MatchingRuns_proofs`, `Reconcile_proofs`, `RunPages_proofs`, `Requests_proofs`, `RequestRuns_proofs` | | the theorems, and the lemmas of `Matching` |
| `MCResolutions`, `MCIngest`, `MCMatching`, `MCReconcile`, `MCRequests` | | small instances; the second also holds the files in two notations |

Outside `Requests` one action is one request, which is one transaction that
commits or leaves nothing; a refused request is the stuttering step. `Requests`
says how far that is true: `SerialRequestsAreAtomic` checks, and a theorem proves,
that as long as no two requests have overlapped, every commit is one of the atomic
actions of `Reconcile`. Everywhere, data is kept only as far as a property can
tell it apart: a reference is a number in sorting order, instrument and side
are one `bucket`, a content is a digest and what it parses to is the constant
`Parsed` (the text of files is in `Loading` alone). Reasons and authors are left
out. Which of two clock times is the earlier is kept
where the code compares them, in `RecordPage`; elsewhere, that one row precedes
another is kept by their indices, and a run records how many files and
decisions preceded it.

A delivery may be refused with a message (a resend, a period that partly
overlaps another, not the CSV of its source) or be lost to a server error (a
row that normalises and cannot be stored). `Ingest` has no step for either;
`Parsed` tells them apart by `readable` and `storable`. In `Requests` the first
end at `Check`, with a message, and the second at `Insert`, whose flush fails
with the transaction.

In `Requests` a read sees what is committed at that moment (PostgreSQL's read
committed; an SQLite read is one statement as well), a write takes the locks its
statement needs (SQLite: the writer; PostgreSQL: the row, or the unique key) and
keeps them until the transaction ends. A request answers before it commits:
`Answer` sends the page, `Dispatch` is the loop handing the rest of
`session_dependency` to a thread, `Commit` makes the writes visible. Statements
may fail, SQLite gives up on a busy writer, PostgreSQL aborts one of a circle, a
commit may fail after the answer, and the process may be restarted at any time.
The guards of an upload are one action: a commit that falls between two of them
only makes a later one refuse what an earlier one would have, with a message
either way. A run writes its pairs in
one action although it looks up the decision behind each pair by a query of its
own. The insertion of an upload is one action for the two flushes, of the batch
and of its rows. `WriteItems` is one action for the several queries of a run's end
(`reconcile.py:387` to `:400`: withdrawn references and rejected rows of either
source, the insert of the items, the summary). Each of those queries looks for
the current version itself, so in the code a correction may also commit between
two of them, and one run may mix two versions in what is withdrawn and what is
rejected; in the model the queries of one source agree. No property
is about that mixture: `SummaryAddsUpUnlessRaced` claims nothing of a run that an
upload overlaps, and the items, all read before, are compared with what is
withdrawn alone.

In `RecordPage` no two times are equal. A decision reads its `created_at` in the step
that finds its collisions, since no statement lies between the two. The code's clock
has microseconds; a run that finishes in the very microsecond in which a decision
was created is not modelled. The handlers of one process share the clock, so its
readings are in order.

In `RunPages` a relative difference is a fraction, so ties are exact; the column
rounds to twelve decimals. Of the three sorts the default one is modelled.

In `Matching` the loops of `match.py` are set expressions. Tier 0 walks the
pairings by left reference and skips one whose record is taken: each left
record has at most one pairing (the last in the list), so what survives is, for
each right record, the pairing with the smallest left reference. References are
unique within a side (`_keyed` refuses the run otherwise), so tier 2 is a join.

Definitions commented "a bug the checks must catch" are not part of the
specifications: each is a plausible mistake in the operator below it, and some
run fails when that operator is replaced by it.

## Runs

| Run | Shows | Bounds |
|---|---|---|
| `MCResolutions` | no contradiction, one governing decision per record, history; implements `DecisionBoard` | 3 sources, 4 identities (two of one source, one of each other), 3 rows; the two sources with one record are interchangeable |
| `MCIngest` | version chain, periods apart, immutability, withdrawals add up, files loaded as meant; implements `DeliveryLog` | 2 sources with a notation each, 4 periods, 7 contents, 4 deliveries, 2 stored decimals, 6 digits |
| `MCMatching` | partition, people prevail, no missed counterpart, sides interchangeable, reruns settle | 2 references a side, one shared; each absent, cancelled or one of 2 or 3 trades; 0 to 2 different decisions of any kind |
| `MCReconcile` | summary, withdrawn values, provenance, pairs across corrections, reruns, revocations; of the pages, lines cover the worklist, largest first, candidates agree with the run, earlier decisions were applied, verdicts fair | 2 sources, 1 period, 4 deliveries of which 3 arrive, 2 decisions, 2 runs, every order; each run's pages read in every later state |
| `MCRequests` | locks and loop have one owner, digests unique, chain without races, contradictions need races, one state per row, summaries without races, nothing undone, serial requests atomic, every request ends; what the record page does not call newer than a run was applied by it, unless decisions raced | 12 requests (5 uploads, 4 decisions, 3 runs), any two of nine of them together, a file that cannot be stored with one of them, and five sets of three, on either database |
| `MCDecisionsFirst` | counterexample: a status disagreement overrides a person's pairing | as `MCMatching`, 1 decision |
| `MCRanking` | counterexample: a right-hand record's candidates out of order | as `MCMatching`, no shared reference, no decision |
| `MCAcceptedReappears` | counterexample: a run of another pair withdraws an acceptance | 3 sources, 1 delivery each, 1 decision, 3 runs |
| `MCAcceptedWithdrawn` | counterexample: an accepted record is back in the worklist | as `MCReconcile`, 1 decision |
| `MCHealthCheck` | counterexample: an upload waits for ever on the event loop | 2 corrections of one period, PostgreSQL |
| `MCBadRow` | counterexample: a number too long for its column costs the file | 3 contents, two of which end in such a line, 2 deliveries |
| `MCDecidedMeanwhile` | counterexample: a decision made during a run is neither applied nor called newer | 1 decision and 1 run, PostgreSQL |

Why the bounds are enough for what they are asked:

- Decisions contradict in pairs, and one new decision can contradict at most
  two live pairings or acceptances (one for each of its records), so three rows
  show every collision. Two identities of one source let a decision stay within
  a source; the third source gives decisions a run is not about.
- A chain of versions goes wrong at the third or fourth. Among the periods are
  disjoint ones, one that meets both on a boundary day, and a reversed one; the
  contents drop, restore and repeat references, hold only rejected rows, and
  one cannot be read.
- The trades lie inside and outside the window on both sides and on either side
  of the quantity allowance; the shared reference makes tier 2, status
  disagreements and revocations happen, and two decisions contend over a left
  record, a right record, or both. Decisions of different kinds come in one order
  only, since `_resolution_index` separates the kinds; two of one kind come in both. Sides with more records add nothing a tier
  looks at together: the partition is also proved for all sizes.
- In `MCReconcile` the ledger's three deliveries, in any order, and the
  statement's one make a record appear, vanish, return, change its verdict and be
  cancelled, with rejected rows in some; the statement is not corrected here, but is
  in `MCRequests`. All ten states occur (a rejected row has no item and only
  counts). The rows make two
  pairs at once that differ, one of them most in price and by less in money; a pair
  off by just what is tolerated of the larger side; and records with no
  counterpart. A decision names its records in either order. An ambiguous file (a
  reference repeated in one delivery) is refused by a guard of `StartRun`; no delivery of this instance
  is ambiguous, so the guard is stated but not exercised.

- In `MCIngest` one notation has a zone whose clock goes back within the times
  used, separators in its numbers, epoch seconds beside a pattern and one-letter
  tokens; lines are too short, hold an unknown token, a time without its zone, or
  nothing, and cost themselves only; two contents end in a line with a number one
  decimal too long, or with too many digits to be filled up to the decimals stored
  (6 stands for the 28 of Python's decimal context), and cost the file.
- `MCRequests` starts from two loaded deliveries and three decisions, so every
  request has something to collide with: two corrections, one of them sent for
  another period as well and one for a period that overlaps that; a pairing that
  replaces two acceptances a run revokes, one across and one within a source; an
  acceptance made again; two equal runs; and a file with a row that cannot be
  stored. Two
  requests show every race of two transactions; the sets of three add what needs
  a third: a run between two corrections, a decision between two runs, an upload
  that waits behind two, and a run that revokes what two decisions that raced
  left in contradiction. `Together` is the bound, and `MaxBatches`,
  `MaxResolutions` and `MaxRuns` are too large to matter.
  For the record page, a second decision replaces one the run read, or is made after
  it, and a second run withdraws what a decision replaces.

`MCResolutions` uses symmetry: the two sources with one record each are model
values that nothing tells apart, and it checks no liveness. Nowhere else is it
used: the elements of the other small sets play different parts.

Deadlock is not checked where the bounds may stop the system (all files
loaded, all rows used); `Matching` can always take another run.

Deadlock is off in `MCRequests` because every request may have been made.

Fairness: nobody has to make a request, so there is none on `Begin`, and none on
failures or restarts. In `Requests` each request that has begun is weakly fair in
`Progress`: a thread runs, the loop serves what is ready, a statement that need
not wait runs, and the database breaks a wait that has a limit (SQLite's busy
timeout) or goes round in a circle (PostgreSQL's deadlock detection). That is
what the thread pool, the loop and the databases do; PostgreSQL's wait for a lock
has no limit, and gets none. Under it `EveryRequestEnds` holds with one
exception, `LoopIsStuck`, which is the finding of `MCHealthCheck`. The other
modules state safety only: their steps are whole requests, and nothing says that
one is ever made again.

### What races leave behind

The properties of `MCRequests` say what survives; where they are conditional, the
condition is needed (without it the model checker shows each of these):

- Two uploads can leave two current versions of a period, when the second reads
  the previous version between the first one's answer and its commit.
- Two contradicting decisions recorded at once both stay live. `README.md`
  names the gap "last write wins"; no write wins, both stand.
- A run that revokes an acceptance looks it up by its record, one after the other
  in the order of sources and references: if a decision replaced it meanwhile, the
  run stamps the new decision, or an old rejection. Nothing need overlap the run
  itself: if two decisions raced before it and both stand, the look-up may find the
  pairing and not the acceptance. That is why `UnracedRunReversesAcceptances` is
  about decisions that took turns as well.
- A run that reads one version while two corrections commit may list a reference
  twice, through two stored rows; with one correction the unique constraint on
  run and record turns that into an error page.
- The times on the record page do not tell what a run read when a decision was
  recorded during it: a decision created before the run finishes and committed
  after the run read the decisions is shown as if the run had applied it
  (`MCDecidedMeanwhile`). That no decision overlaps the run is not enough: if two
  decisions raced before it, the page finds one of them and the run may have followed
  the other. That is why `OlderDecisionWasAppliedUnlessRaced` is about decisions that
  took turns as well. Corrections and other runs may overlap it.
- The second of two equal uploads that race is refused by the unique index: the
  bytes are stored once, as `docs/DESIGN.md:118` says, but the analyst is shown
  a server error and not a message (TR-605).

### Where code and documents disagree

Four counterexample runs are about statements of `docs/SPEC.md`,
`docs/REQUIREMENTS.md` or a docstring: manual pairings come "before anything
else" (they come after status disagreements); candidates are "ranked by
closeness" (not on the page of a right-hand record); accepted records "do not
reappear" (a run of the other configured pair withdraws the acceptance); an
accepted record "stays out of" the worklist (not when it is withdrawn or
cancelled on the other side). `MCHealthCheck` is about the docstring of `healthz`,
which "does not touch the database": on PostgreSQL it waits for one when an
upload waits on the event loop. `MCDecidedMeanwhile` is about the comment that
explains the record page's banner for decisions newer than the run: one made while
the run was under way may get none. `MCBadRow` is about TR-106 as `ingest.py` and
`normalize.py` state it, "a bad row never costs the rest of the file": a number
that passes normalisation and not the column's type costs all of it.
Sentences and lines are quoted in `PROJECT.json`.

One more was read and is not run: to the header check a byte-order mark is no part
of the first column's name (`normalize.py:34`), but the rows are keyed by the cells
as they were sent, so a file saved with a mark is accepted and all its rows are
rejected. `Loading` says so; no file of `MCIngest` has a mark.

## What is proved

All theorems hold for every value of the constants under the named assumptions
of each module. Every property of the passing runs is the statement of a
theorem, but for those named at the end.

- `Resolutions_proofs`: `TypeCorrect`, `DecisionsNeverContradict`,
  `GoverningDecisionIsUnique`, `HistoryKept`, `TheRunOrientsDecisions`,
  `TableImplementsBoard`.
  `NoContradiction` is inductive together with `TypeOK`: a new row retires what
  it contradicts, and `Contradicts` is symmetric between rows of the right shape.
  Uniqueness follows from it: two live rows, neither a rejection, that share an
  identity contradict. Orientation needs no invariant: what a run is given is a
  function of the table, whichever way round it asks.
  `TableImplementsBoard` is the refinement of `DecisionBoard`. `Shows` says what the table shows in terms of its rows: a
  record's fate is the one live pairing or acceptance that names it. It follows
  from the other theorems in every state, and each request then maps to one
  board action: a pairing or an acceptance to `Pair` or `Accept`, a rejection to
  `Reject`, a revocation to `Undo` or, of a rejection, to `Unblock`.
- `Ingest_proofs`: `TypeCorrect`, `PeriodsStayApart`, `VersionsFormAChain`,
  `BatchesNeverChange`, `WithdrawalsAccountedFor`, `BatchesImplementLog`. The
  chain is inductive with `TypeOK`. It implies that a period has at most one
  current batch, that this is its last, and that an unused period has none. The
  step needs exactly this to place the new batch. The withdrawal identity follows
  from it: only the previous version is current, only it gets the new mark, and so
  an upload changes what is withdrawn by exactly what it withdraws and brings
  back. So does the refinement of `DeliveryLog`: the versions of a period are
  counted by `VersionsCount`, each upload appends one content to one log or
  stutters, and the current batch is the last.
- `Matching_proofs`: lemmas about the operators of `Matching` for any well-formed
  input: sides are disjoint, keys identify records, a record has one last
  pairing, pairs are one-to-one, the partition is total (`PartitionHolds`),
  pairings and acceptances are applied, an allowance of either side is within that
  of the larger, and what a run leaves of the decisions is decisions again.
- `MatchingRuns_proofs`: `TypeCorrect`, `PartitionIsTotalAndDisjoint`,
  `PeopleDecide`, `NothingIsOverlooked`, `NeitherSideIsAuthoritative`,
  `RunningAgainSettles`. The only invariant needed is `TypeOK`, since the properties
  are facts about the operators for any input (`DecisionsHold`,
  `NoCounterpartLeft`, `SidesExchanged`). The partition does not assume that decisions
  agree. So `_States.claim` and `_guard_total` can never refuse a run, even if
  racing requests left contradictory rows. The symmetry goes tier by tier:
  exchanging the sides and mirroring the decisions exchanges what each tier
  takes, provided the decisions do not contend, since the code walks contending
  pairings by left reference. A second run reads fewer decisions, and those
  missing accepted records that a reference pairs anyway.
- `Reconcile_proofs`: `RunsAreTyped`, `WithdrawalsShowTheLastDelivery`,
  `PairsNameTheirDecision`, `PairingsSurvive`, `OnlyMistakesReversed`,
  `RunningAgainIsTheSame`, `SummariesAddUp`, `DecisionsNeverContradict`. The
  theorems about the two tables are instantiated over the tables of the whole
  service, whose steps are theirs or a run's.
  - `FilesInv` adds to the chain that versions rise with the order of delivery
    (`Rising`); with it the newest superseded version that had a reference is the
    last delivery that had it.
  - `ServiceInv` is that, the decisions free of contradiction, and `RunsInv`: of
    every run ever written there is an input of matching that the run answers
    (`Answers`: its pairs are those of that input, its items one end for each
    record), and the tables, although they changed since, still say what that
    input was (`FilesSay`, `DecisionsSay`). The tables keep it because deliveries
    are only appended and marked, and decisions only appended and stamped. The
    properties of runs are read off it: the run need not be computed again.
  - `RepeatInv` is what makes a rerun the same. While nothing is loaded or
    decided, `LastRunStands`: matching the tables as they are now writes what the
    last run wrote, although it may have withdrawn acceptances that it read. The
    acceptances it withdrew are of records that reference pairs take, so
    withdrawing them moves no record.
  - The sums are over the ten states one by one (`OneMoreState`), which needs no
    induction over data.
- `RunPages_proofs`: `EarlierDecisionsWereApplied`, `CandidatesAgree`,
  `VerdictsAreFair`, `WorklistIsOrdered`, `PagesCoverTheWorklist`: the pages of
  every run, in every later state.
  - All but the candidates follow from `ServiceInv`. A pair of a run is one that
    matching made (`PairIs`), a record is in one pair (`PairsApart`), so a pair has
    two items in the state of its verdict (`PairItems`), and the rows behind them
    are still the rows that were matched (`VerdictShown`).
  - Relative differences are in a weak order (`FractionOrder`, by multiplying
    out), a break differs in some field, and so the fields that differ have a top
    (`TopOfFields`), which orders the line.
  - Candidates are matching done again, so they agree with the last run by
    `LastRunStands`. That proof found the property too strong as first stated,
    for every run: a later run of another period, or of the other configured
    pair, may withdraw an acceptance that an older run applied, without a file or
    a decision being added. The pages of the older run then offer candidates for a
    record it calls accepted. `CandidatesAgreeWithTheRun` is therefore about the
    last run.
- `Requests_proofs`: `TypeCorrect`, `DigestsStayUnique`, `NothingIsUndone`,
  `ContradictionsNeedRaces`, `TurnsKeepTheChain`, for any finite set of requests,
  on either database, with failing statements, failing commits and restarts. Each
  needs the invariant before it:
  - `IndInv` is `TypeOK` and what a request has in hand at each statement;
    exclusive locks and the owner of the event loop are part of it. `Steps` says
    of all handler steps at once what they can become (`Reads`, `Wrote`, `Stops`,
    `Passes`), so that an invariant is checked against those four and not
    against every statement.
  - `DigestInv`: an upload past its insertion owns the lock on its digest, and
    the digest is not stored. The index alone would not do: it is read at the
    insertion and the row appears at the commit.
  - `IdInv`: an id taken at a flush is in no table, belongs to no other open
    request of its kind, and stays so until the commit, although rollbacks leave
    gaps. It is why a commit adds a row and replaces none. That ids have a
    greatest one rests on the requests being finitely many, by well-founded
    induction.
  - `RaceInv`: once a decision has looked for what it contradicts, each live
    stored decision it contradicts is stamped by it, or to be, or was made by a
    request that had not ended when this one began, so that the two overlap.
    `after`, the requests that had ended when one began, holds ended requests only, so
    an overlap stays one.
  - `SerialInv` adds what an upload has seen and what must still be so when it
    commits, as long as uploads of its source take turns: no stored period
    overlaps its own in part, the version it is about to replace is the current
    one, and its id is greater than any of its source (`InPlace`). Uploads of other
    sources may commit in between with greater ids, so ids rise within a source
    only, which is all the chain needs. If another upload of the source commits
    meanwhile, the two overlap, and nothing is claimed.

- `RequestRuns_proofs`: `RunsSayOneThing`, `SummariesAddUpUnlessRaced`,
  `UnracedRunsReverseAcceptances`, about what a run has in hand while others commit,
  and `SerialRequestsRefineReconcile`, about what requests that take turns commit.
  `RunMoves` says of all statements of a run at once where they lead, and the
  lemmas of `Reconcile_proofs` are instantiated over the committed tables
  (`Runs`), so that what matching does is proved once.
  - `HandInv` adds to `IdInv` that the tables are typed and what each request holds:
    a run's deliveries are stored, keep their rows whatever commits (`ReadStays`),
    and pass the guards; its decisions are decisions; from `WritePairs` on its
    items say one thing of each row (`OneState`). They are the items of one
    partition of what was read (`ReadItemsOnce`, from `EndsOnce`), the withdrawn ones say
    one thing of each (`WithdrawnOneState`), and the unique constraint
    (`ListedTwice`) keeps the two apart. No reading order is assumed.
  - `SummaryInv` adds `SerialInv`, which makes the last version of a period the
    current one, and `Fresh`: as long as no upload has overlapped a run and uploads
    have taken turns, what the run has read is what is current now, its items are
    about the records of the current deliveries and, once `WriteItems` is through,
    its row is one that answers some input on these tables (`Written`). That is
    what the sums of `Reconcile_proofs` (`OneMoreState`) need. Decisions and
    other runs do not touch `file_batch`; an upload that commits either overlaps the
    run, or the run has not begun (`UploadFresh`).
  - `ReversalInv` adds `RaceInv` and `Reverses`: as long as no decision and no other
    run has overlapped a run and decisions have taken turns, the acceptances it
    knows stand, each it has yet to revoke is found by a standing acceptance not
    stamped yet, and all it has stamped are such. The look-up by record finds
    that acceptance and nothing else, because a live decision that names the same
    record would contradict it (`FindsAcceptance`, `SerialAgree`).
  - `TurnsInv` is `SummaryInv`, `ReversalInv` and, as long as nobody raced, `InTurns`:
    the tables are sequences to which ended requests have added (`InSequence`), and
    what each open request has in hand is what the atomic action computes from the
    tables as they are (`AsOne`). For an upload that is a readable file, a valid
    period and the next id; for a decision, that what it has stamped and has yet to
    stamp is exactly what collides with it; for a run, that what it read is
    `RunInput` of the tables, its result `MatchResult` of that, the rows it has
    stamped, is to stamp and finds behind what is left to revoke are together
    `RevokedRows`, and its row is `RowOf` (`Yields`). At most one request is open
    (`OneOpen`), so its tables do not change under it, and the next id is one more
    than the length of the table (`NextNumber`). A commit is then `Store!Upload`,
    `Store!CreateResolution` or `Store!StartRun` (`CommitIsUpload`,
    `CommitIsDecision`, `CommitIsRun`). The bounds leave room for every request, so
    no guard that only bounds the model is in the way.

The assumptions are that identities belong to configured sources, that the
missing right-hand side is not an identity and the missing decision is none, that
the two sources of a run differ, that measures, thresholds and bounds are
numbers, that periods are pairs of days, and for `Requests` that the requests are
finitely many, well formed, and start from tables without a digest stored twice,
with versions in a chain and periods apart, and without live contradictions, that
the codes of sources differ, and that the bounds leave room for every request. TLC
evaluates each of them on the runs.

Only model-checked: `OlderDecisionWasAppliedUnlessRaced` of `RecordPage`; of `MCIngest`, `LoadsWhatWasMeant`, which is about particular
files; and `EveryRequestEnds` of `Requests`: liveness and ENABLED are
out of the prover's reach. So are induction over data and RECURSIVE operators; no
module here declares one, and none is needed.

## Not modelled, and why

- The home page, the history page, the sorts by money and by reference, and the
  order of `worklist`'s own query, which the page's sort replaces: reads without
  a rule beyond the query itself.
- Text: how values, durations and messages are written, JSON types in a source's
  configuration, the sortable text of stored decimals, explicit offsets,
  infinities and fractions of a second. `Loading` keeps what decides whether a
  row loads and what it means.
- `tolerances_from_config`: it turns text into numbers or refuses; thresholds are
  numbers here.
- Seeding, settings, migrations, the smoke test, the sample generator and
  logging: they run before or beside the service, or nothing reads what they
  write. Log lines are written before a commit that may fail.
- Undoing a decision by hand: `revoke` is in `Resolutions` with its whole
  contract, but no route calls it, so `Reconcile` has no such action.
- A rejected row keeps no reference, in the code as in the model, so a row of a
  correction that fails to load is also reported as withdrawn.

## Plan

What is here is built and checked. What would come next:

1. The history page, and the home page's list of deliveries, in `RunPages`.
2. An ambiguous delivery and a second period in `MCReconcile`.
