------------------------------ MODULE Matching ------------------------------
(***************************************************************************)
(* Which record of one side describes the same transaction as which record *)
(* of the other (core/match.py): a pure function of the two sides and of   *)
(* the decisions people made, hence operators on the input of a run.       *)
(*                                                                         *)
(* The code empties two dictionaries tier by tier.  Each operator below is *)
(* what a tier takes or leaves, so the loops become set expressions: a     *)
(* loop over sorted keys whose iterations exclude one another keeps, of    *)
(* each group of rivals, the first.                                        *)
(***************************************************************************)
EXTENDS Integers, FiniteSets, Tolerance

CONSTANTS Sources,         \* source codes
          References,      \* references, in their sorted order: naturals
          Buckets,         \* (instrument, side) combinations
          Times,           \* booking times, in seconds
          Quantities,      \* quantities, in the smallest unit
          SuggestWindow,   \* the profile's suggestion window, in seconds
          NoRecord         \* the missing right-hand side of an acceptance

ASSUME ReferencesAssumption == References \subseteq Nat
ASSUME MeasuresAssumption == Times \subseteq Int /\ Quantities \subseteq Int
ASSUME WindowAssumption == SuggestWindow \in Nat

RecordKey == Sources \X References

ASSUME NoRecordAssumption == NoRecord \notin RecordKey

Key(record) == <<record.source, record.reference>>

----------------------------------------------------------------------------
(* The input of a run, a record: the sources it calls left and right, the  *)
(* sets of their normalised records, and the live decisions, a function of *)
(* their ids.                                                              *)

\* Each reference once a side (_keyed refuses the run otherwise).
IsSide(side, source) ==
    /\ \A r \in side :
          /\ r.source = source /\ r.reference \in References /\ r.cancelled \in BOOLEAN
          /\ r.bucket \in Buckets /\ r.time \in Times /\ r.quantity \in Quantities
    /\ \A r, s \in side : r.reference = s.reference => r = s

\* Decisions as prior_resolutions hands them over: those that name two
\* records may be across the two sources or within one of them.
AreDecisions(decisions) ==
    /\ DOMAIN decisions \subseteq Nat
    /\ \A i \in DOMAIN decisions :
          /\ decisions[i].kind \in {"manual_match", "accept_unmatched", "reject_suggestion"}
          /\ decisions[i].left \in RecordKey
          /\ IF decisions[i].kind = "accept_unmatched" THEN decisions[i].right = NoRecord
             ELSE decisions[i].right \in RecordKey

IsInput(in) ==
    /\ in.leftSource \in Sources /\ in.rightSource \in Sources
    /\ in.leftSource # in.rightSource
    /\ IsSide(in.left, in.leftSource) /\ IsSide(in.right, in.rightSource)
    /\ AreDecisions(in.prior)

----------------------------------------------------------------------------
(* The decisions, indexed (_resolution_index).                             *)

DecisionsOf(in, kind) == {i \in DOMAIN in.prior : in.prior[i].kind = kind}

\* A left-hand record is paired as its last pairing says.
ManuallyPaired(in, leftKey, rightKey) ==
    \E i \in DecisionsOf(in, "manual_match") :
        /\ in.prior[i].left = leftKey /\ in.prior[i].right = rightKey
        /\ \A j \in DecisionsOf(in, "manual_match") : in.prior[j].left = leftKey => j <= i

Accepted(in) == {in.prior[i].left : i \in DecisionsOf(in, "accept_unmatched")}

\* A bug the checks must catch: rejections are forgotten.
NothingBlocked(in, one, other) == FALSE

Blocked(in, one, other) ==
    \E i \in DecisionsOf(in, "reject_suggestion") :
        in.prior[i].left = Key(one) /\ in.prior[i].right = Key(other)

----------------------------------------------------------------------------
(* Tier 1: cancelled records are set aside; a reference cancelled on one   *)
(* side only is a disagreement about status.                               *)

Cancelled(side) == {r \in side : r.cancelled}
LiveIn(side)    == {r \in side : ~r.cancelled}

DisagreeingWith(side, other) ==
    {r \in LiveIn(side) : \E c \in Cancelled(other) : c.reference = r.reference}

StatusDisagreements(in) ==
    DisagreeingWith(in.left, in.right) \cup DisagreeingWith(in.right, in.left)

\* A bug the checks must catch: a status disagreement can still be paired.
AvailableAnyway(in, side) == LiveIn(side)

Available(in, side) == LiveIn(side) \ StatusDisagreements(in)

----------------------------------------------------------------------------
(* Tier 0: pairings a person made, among the records still available.      *)

\* Pairings are applied in order of their left reference, and one that names
\* a record already taken is inert.
ManualPairs(in) ==
    LET named == {p \in Available(in, in.left) \X Available(in, in.right) :
                     ManuallyPaired(in, Key(p[1]), Key(p[2]))}
    IN  {p \in named : \A q \in named : q[2] = p[2] => p[1].reference <= q[1].reference}

Lefts(pairs)  == {p[1] : p \in pairs}
Rights(pairs) == {p[2] : p \in pairs}

----------------------------------------------------------------------------
(* Tier 2: reference equality, which also revokes acceptances.             *)

ReferencePairs(in) ==
    LET manual == ManualPairs(in)
    IN  {p \in (Available(in, in.left) \ Lefts(manual)) \X
                  (Available(in, in.right) \ Rights(manual)) : p[1].reference = p[2].reference}

Pairs(in) == ManualPairs(in) \cup ReferencePairs(in)

\* A bug the checks must catch: only the left-hand acceptance is revoked.
RevokedOnLeft(in) == {k \in Accepted(in) : \E p \in ReferencePairs(in) : k = Key(p[1])}

\* Acceptances whose record turned out to have a counterpart.
Revoked(in) ==
    LET pairs == ReferencePairs(in)
    IN  {k \in Accepted(in) : \E p \in pairs : k \in {Key(p[1]), Key(p[2])}}

StillAccepted(in) == Accepted(in) \ Revoked(in)

OpenLeft(in)  == Available(in, in.left) \ Lefts(Pairs(in))
OpenRight(in) == Available(in, in.right) \ Rights(Pairs(in))

----------------------------------------------------------------------------
(* Tier 3: plausible counterparts, proposed and never applied.             *)

Gap(one, other) == Abs(other.time - one.time)

\* A bug the checks must catch: the window only looks forward.
PlausibleLater(one, other) ==
    /\ one.bucket = other.bucket
    /\ other.time - one.time \in 0..SuggestWindow
    /\ WithinBps(one.quantity, other.quantity, QtyBps)

Plausible(one, other) ==
    /\ one.bucket = other.bucket
    /\ Gap(one, other) <= SuggestWindow
    /\ WithinBps(one.quantity, other.quantity, QtyBps)

Candidate(in, one, other) == Plausible(one, other) /\ ~Blocked(in, one, other)

Suggestions(in) ==
    LET accepted == StillAccepted(in)
    IN  {s \in OpenLeft(in) \X OpenRight(in) :
            /\ Candidate(in, s[1], s[2])
            /\ Key(s[1]) \notin accepted /\ Key(s[2]) \notin accepted}

QuantityGap(one, other) == Relative(one.quantity, other.quantity)

\* Nearer in time, then in quantity.
Nearer(record, one, other) ==
    \/ Gap(record, one) < Gap(record, other)
    \/ /\ Gap(record, one) = Gap(record, other)
       /\ FractionLess(QuantityGap(record, one), QuantityGap(record, other))

\* The place of a suggestion among all the candidates of its left-hand
\* record, those accepted as unmatched included; ties go by reference.
Rank(in, s) ==
    1 + Cardinality({other \in OpenRight(in) :
                        /\ Candidate(in, s[1], other)
                        /\ \/ Nearer(s[1], other, s[2])
                           \/ /\ ~Nearer(s[1], s[2], other)
                              /\ other.reference < s[2].reference})

\* The page of a record, of either side, lists its suggestions by the rank
\* each was given and then by reference (candidates_for).
ListedBefore(in, s, t) ==
    \/ s[1] = t[1] /\ Rank(in, s) < Rank(in, t)
    \/ /\ s[2] = t[2]
       /\ \/ Rank(in, s) < Rank(in, t)
          \/ Rank(in, s) = Rank(in, t) /\ s[1].reference < t[1].reference

----------------------------------------------------------------------------
(* Tier 4: whatever is left, on both sides.                                *)

AcceptedUnmatched(in) ==
    LET accepted == StillAccepted(in)
    IN  {r \in OpenLeft(in) \cup OpenRight(in) : Key(r) \in accepted}

Suggested(in) == LET proposed == Suggestions(in) IN Lefts(proposed) \cup Rights(proposed)

Unmatched(in) ==
    LET settled   == StillAccepted(in)
        suggested == Suggested(in)
    IN  {r \in OpenLeft(in) \cup OpenRight(in) : Key(r) \notin settled /\ r \notin suggested}

\* Where a record is claimed: one tier each, if the run is to finish
\* (claim, _guard_total).
Outcomes(in, r) ==
    {<<"excluded", r>>            : c \in {r} \cap (Cancelled(in.left) \cup Cancelled(in.right))} \cup
    {<<"status_disagreement", r>> : d \in {r} \cap StatusDisagreements(in)} \cup
    {<<"accepted_unmatched", r>>  : a \in {r} \cap AcceptedUnmatched(in)} \cup
    {<<"unmatched", r>>           : u \in {r} \cap Unmatched(in)} \cup
    {<<"suggested", r>>           : s \in {r} \cap Suggested(in)} \cup
    {<<"paired", p>>              : p \in {q \in Pairs(in) : r \in {q[1], q[2]}}}

----------------------------------------------------------------------------
(* The next run over the same files.                                       *)

\* A bug the checks must catch: a revocation is decided but not recorded.
Unrecorded(in, key) == {}

\* The row resolution_for finds for a revoked key: its last pairing or
\* acceptance.
GoverningRow(in, key) ==
    LET rows == {i \in DOMAIN in.prior :
                    /\ in.prior[i].kind # "reject_suggestion"
                    /\ key \in {in.prior[i].left, in.prior[i].right}}
    IN  {i \in rows : \A j \in rows : j <= i}

\* _persist_revocations withdraws those rows, so the next run no longer
\* reads them.
PriorAfterRun(in) ==
    [i \in DOMAIN in.prior \ UNION {GoverningRow(in, key) : key \in Revoked(in)} |-> in.prior[i]]

AfterRun(in) ==
    [leftSource  |-> in.leftSource,
     rightSource |-> in.rightSource,
     left        |-> in.left,
     right       |-> in.right,
     prior       |-> PriorAfterRun(in)]

\* Decisions that do not contend for a record: what the resolution table
\* guarantees (Resolutions!NoContradiction) when requests do not race.
Coherent(in) ==
    \A i, j \in DOMAIN in.prior :
        (i # j /\ "reject_suggestion" \notin {in.prior[i].kind, in.prior[j].kind})
            => {in.prior[i].left, in.prior[i].right} \cap {in.prior[j].left, in.prior[j].right}
                  \subseteq {NoRecord}

=============================================================================
