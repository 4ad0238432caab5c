------------------------------- MODULE RunPages -------------------------------
(***************************************************************************)
(* The pages that read a run back (app/web/routes.py with the end of       *)
(* app/services/reconcile.py): its summary, its worklist, and the page of  *)
(* one record with the decision on it and its candidates.  They write      *)
(* nothing, so they are operators on the state of Reconcile, which is what *)
(* changes under them: an old run is read with the files and decisions of  *)
(* today.                                                                  *)
(*                                                                         *)
(* Fields are those of Compare, with instrument and side as one bucket;    *)
(* only numbers have a relative difference, a fraction as in Tolerance.    *)
(***************************************************************************)
EXTENDS Reconcile

----------------------------------------------------------------------------
(* The summary (run_detail, run_worklist, home).                           *)

\* "records_total": items needing a person, rejected rows included.
WorklistTotal(k) ==
    LET counts == run[k].counts
    IN  counts["break"] + counts["suggested"] + counts["unmatched"]
            + counts["status_disagreement"] + counts["withdrawn"] + counts["rejected_row"]

\* Items of the run by side and state, read from the items themselves.
SideTotal(k, source) == Cardinality({item \in run[k].items : item.source = source})

----------------------------------------------------------------------------
(* One line of the worklist (build_worklist).                              *)

\* The stored row an item points at, whatever replaced its delivery since.
StoredRow(item) ==
    LET records == file_batch[item.batch].records
    IN  records[CHOOSE n \in DOMAIN records : records[n].reference = item.reference]

\* The pair an item belongs to, as a set of at most one.
PairOf(k, item) ==
    {p \in run[k].pairs : item.state # "withdrawn" /\ <<item.source, item.reference>> \in {p.left, p.right}}

Siblings(k, pair) == {item \in run[k].items : pair \in PairOf(k, item)}

SideOf(k, pair, key) == CHOOSE item \in Siblings(k, pair) : <<item.source, item.reference>> = key

\* The two stored rows of a pair.
RowsOf(k, pair) ==
    <<StoredRow(SideOf(k, pair, pair.left)), StoredRow(SideOf(k, pair, pair.right))>>

NoDifference == <<0, 1>>

\* The stored relative differences; a field without one counts as none.
RelativeDiffs(l, r) ==
    [occurred_at  |-> NoDifference,
     bucket       |-> NoDifference,
     quantity     |-> Relative(l.quantity, r.quantity),
     unit_price   |-> Relative(l.price, r.price),
     gross_amount |-> Relative(l.amount, r.amount),
     status       |-> NoDifference]

\* Money first, among equal differences.
HeadlineOrder ==
    [gross_amount |-> 0, unit_price |-> 1, quantity |-> 2, occurred_at |-> 3,
     bucket |-> 4, status |-> 4]

Differing(l, r) == LET diffs == FieldDiffs(l, r) IN {f \in DOMAIN diffs : diffs[f].differs}

\* A bug the checks must catch: money is headlined whatever the others say.
MoneyFirst(l, r) ==
    LET differing == Differing(l, r)
    IN  {f \in differing : \A g \in differing : HeadlineOrder[f] <= HeadlineOrder[g]}

\* The difference worth putting on the line: the largest, ties towards money.
LeadingDiff(l, r) ==
    LET differing == Differing(l, r)
        relative  == RelativeDiffs(l, r)
        worse(f, g) == \/ FractionLess(relative[g], relative[f])
                       \/ /\ ~FractionLess(relative[f], relative[g])
                          /\ HeadlineOrder[f] <= HeadlineOrder[g]
    IN  {f \in differing : \A g \in differing : worse(f, g)}

Largest(fractions) ==
    CHOOSE a \in fractions : \A b \in fractions : ~FractionLess(a, b)

\* The larger of the headlined difference and the pair's own maximum.
RelativeSize(l, r) ==
    LET relative == RelativeDiffs(l, r)
    IN  Largest({relative[f] : f \in LeadingDiff(l, r)} \cup {relative[f] : f \in DOMAIN relative})

\* Money at stake: the gap between the amounts, or the whole trade.
AbsoluteSize(ours, l, r) ==
    IF l.amount # r.amount THEN Abs(r.amount - l.amount) ELSE Abs(ours.amount)

\* A bug the checks must catch: a line for each side of a pair.
OursToo(k, item) == TRUE

\* Both sides of a pair are one decision: the line is that of our side.
Ours(k, item) ==
    \A pair \in PairOf(k, item) : <<item.source, item.reference>> = pair.left

Line(k, item) ==
    IF PairOf(k, item) = {}
    THEN [item |-> item, headline |-> {item.state}, covers |-> {item},
          relative |-> NoDifference, absolute |-> Abs(StoredRow(item).amount)]
    ELSE LET pair == CHOOSE p \in PairOf(k, item) : TRUE
             rows == RowsOf(k, pair)
         IN  [item     |-> item,
              headline |-> LeadingDiff(rows[1], rows[2]),
              covers   |-> Siblings(k, pair),
              relative |-> RelativeSize(rows[1], rows[2]),
              absolute |-> AbsoluteSize(StoredRow(item), rows[1], rows[2])]

\* The lines of the page, all of them or those in one state.
Lines(k, wanted) ==
    {Line(k, item) : item \in {i \in run[k].items : i.state \in Worklist \cap wanted /\ Ours(k, i)}}

\* Largest difference first, then most money, then by reference; lines that
\* agree in all three keep the order the query gave them (sort_worklist).
SortedBefore(a, b) ==
    \/ FractionLess(b.relative, a.relative)
    \/ /\ ~FractionLess(a.relative, b.relative)
       /\ \/ a.absolute > b.absolute
          \/ a.absolute = b.absolute /\ a.item.reference < b.item.reference

----------------------------------------------------------------------------
(* The page of one record (record_detail).                                 *)

\* A bug the checks must catch: what people decided is not read.
ProposedUndecided(k) ==
    LET now == run[k]
    IN  Suggestions([RunInput(now.left, now.right, now.period) EXCEPT !.prior = <<>>])

\* Matching is done again on what is current today (candidates_for).
ProposedToday(k) ==
    LET now == run[k] IN Suggestions(RunInput(now.left, now.right, now.period))

\* The identities offered for a record, of either side.
CandidatesFor(proposed, key) ==
    LET of(r) == <<r.source, r.reference>>
    IN  {of(s[2]) : s \in {t \in proposed : of(t[1]) = key}} \cup
        {of(s[1]) : s \in {t \in proposed : of(t[2]) = key}}

\* The decision that stands on a record, as a set of at most one id.
DecisionShown(item) ==
    {i \in Decisions!ResolutionFor(<<item.source, item.reference>>) : Live(resolution[i])}

----------------------------------------------------------------------------
(* Properties.                                                             *)

SelectedStates == {Worklist} \cup {{state} : state \in RecordState}

\* However the page is filtered, each record that needs a person is on
\* exactly one line and no other record is; the number at the top of the
\* page is the records on its lines and the rejected rows, which have no
\* line; the sides and the rejected rows make up the whole summary (TR-606,
\* AC2).
PageCoversTheWorklist ==
    \A k \in DOMAIN run :
        LET all == Lines(k, Worklist) IN
        /\ \A wanted \in SelectedStates :
              LET lines == Lines(k, wanted) IN
              \A item \in run[k].items :
                 Cardinality({line \in lines : item \in line.covers}) =
                     IF item.state \in Worklist \cap wanted THEN 1 ELSE 0
        /\ WorklistTotal(k) = Cardinality(UNION {line.covers : line \in all})
                                 + run[k].counts["rejected_row"]
        /\ Total(run[k].counts) =
              SideTotal(k, run[k].left) + SideTotal(k, run[k].right) + run[k].counts["rejected_row"]
        /\ \A line \in all : line.covers # {line.item} =>
              line.item.source = run[k].left /\ Cardinality(line.covers) = 2

\* The relative difference of two numbers exceeds a fraction.
Exceeds(l, r, fraction) == Abs(r - l) * fraction[2] > fraction[1] * Larger(l, r)

\* The largest difference is first (TR-606): no pair further down the list
\* differs in any number by more, relatively, than the lines above it are
\* ordered by, and a pair whose numbers differ headlines a field that differs
\* by just what orders its line.
LargestFirst ==
    \A k \in DOMAIN run : \A a, b \in Lines(k, Worklist) :
        LET pairs == PairOf(k, b.item) IN
        \A p \in pairs :
            LET rows == RowsOf(k, p)
                relative == RelativeDiffs(rows[1], rows[2])
            IN  /\ SortedBefore(a, b) =>
                      /\ ~Exceeds(rows[1].quantity, rows[2].quantity, a.relative)
                      /\ ~Exceeds(rows[1].price, rows[2].price, a.relative)
                      /\ ~Exceeds(rows[1].amount, rows[2].amount, a.relative)
                /\ b.headline # {}
                /\ \A f \in b.headline :
                      ~FractionLess(relative[f], b.relative) /\ ~FractionLess(b.relative, relative[f])

\* As long as no file arrived and nothing was decided or run again since the
\* run, its pages offer candidates for exactly the records it calls
\* suggested, each one another suggested record of the other side, which
\* offers it in turn, even though they are computed anew and the run may have
\* withdrawn acceptances (TR-608).  A later run, of another period or another
\* pair, may withdraw acceptances that the older one applied.
CandidatesAgreeWithTheRun ==
    \A k \in DOMAIN run \cap {Len(run)} :
        (run[k].files = Len(file_batch) /\ run[k].decisions = Len(resolution)) =>
            \A proposed \in {ProposedToday(k)} : \A item \in run[k].items :
                LET key     == <<item.source, item.reference>>
                    offered == CandidatesFor(proposed, key)
                IN  /\ item.state = "suggested" <=> offered # {}
                    /\ \A other \in offered :
                          /\ \E i \in run[k].items : <<i.source, i.reference>> = other
                          /\ other[1] # key[1]
                          /\ key \in CandidatesFor(proposed, other)

\* Matching had this record to pair, to suggest or to leave over.
TookPart(k, key) ==
    \E item \in run[k].items :
        /\ <<item.source, item.reference>> = key
        /\ item.state \notin {"excluded", "status_disagreement", "withdrawn"}

\* The run applied a decision to the record of an item: an acceptance settled
\* it, and a pairing of the run's two sources paired it as decided, unless a
\* record the decision is about is excluded, in a status disagreement or gone
\* from the files of the run.
Applied(k, item, i) ==
    LET decision == resolution[i]
        settles  == item.state \notin {"excluded", "status_disagreement", "withdrawn"}
    IN  /\ (decision.kind = "accept_unmatched" /\ settles) => item.state = "accepted_unmatched"
        /\ (/\ decision.kind = "manual_match" /\ settles
            /\ {decision.left[1], decision.right[1]} = {run[k].left, run[k].right}
            /\ TookPart(k, decision.left) /\ TookPart(k, decision.right))
              => \E p \in PairOf(k, item) : p.resolution = {i}

\* The decision the page of a record shows was applied by every run that
\* read it, whatever was decided, revoked or corrected since (TR-317).
EarlierDecisionWasApplied ==
    \A k \in DOMAIN run : \A item \in run[k].items : \A i \in DecisionShown(item) :
        i <= run[k].decisions => Applied(k, item, i)

\* Two numbers differ by more than a share of either of them.
Apart(l, r, bps) ==
    \A side \in {l, r} : BpsUnit * (r - l) \notin -bps * Abs(side)..bps * Abs(side)

\* The verdict a pair page shows follows from the two rows it shows, and
\* favours neither side: a break has a field the two sides must agree on and
\* do not, or a number that is off by more than is tolerated of either side,
\* for the amount also by more than the floor; a difference of just what is
\* tolerated is none (TR-406, TR-407, TR-410).
VerdictIsFair ==
    \A k \in DOMAIN run : \A p \in run[k].pairs :
        LET rows == RowsOf(k, p)
            l == rows[1]
            r == rows[2]
        IN  /\ p.verdict = "break" <=>
                  \/ <<l.bucket, l.status>> # <<r.bucket, r.status>>
                  \/ r.time - l.time \notin -TimeTolerance..TimeTolerance
                  \/ Apart(l.quantity, r.quantity, QtyBps) \/ Apart(l.price, r.price, PriceBps)
                  \/ /\ Apart(l.amount, r.amount, AmountBps)
                     /\ r.amount - l.amount \notin -AmountFloor..AmountFloor
            /\ p.verdict = "agreed" <=> [l EXCEPT !.reference = r.reference] = r

=============================================================================
