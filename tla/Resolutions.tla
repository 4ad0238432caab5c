---------------------------- MODULE Resolutions ----------------------------
(***************************************************************************)
(* The table of durable decisions (app/services/resolve.py).               *)
(*                                                                         *)
(* A decision names business identities, <<source, reference>>, and never  *)
(* a stored row.  Rows are appended and at most stamped once: a decision   *)
(* that a later one contradicts is revoked in the same transaction, and    *)
(* the reconciler (or an analyst) may revoke one by its id.  One action is *)
(* one request, hence one transaction; requests that interleave are a      *)
(* module of their own.                                                    *)
(*                                                                         *)
(* A request refused for a blank reason or author, an unknown source or a  *)
(* blank reference rolls back and leaves the table as it was: it is the    *)
(* stuttering step.  The wording of reasons is left out; which of the two  *)
(* ways a row was revoked is kept.                                         *)
(***************************************************************************)
EXTENDS Naturals, Sequences, FiniteSets

CONSTANTS Sources,         \* configured sources (ledger, statement, ...)
          Identity,        \* the <<source, reference>> decisions may name
          NoRecord,        \* the NULL right-hand side of an acceptance
          MaxResolutions   \* bound: rows the table may hold

ASSUME IdentityAssumption == \A i \in Identity : i[1] \in Sources
ASSUME NoRecordAssumption == NoRecord \notin Identity
ASSUME MaxResolutionsAssumption == MaxResolutions \in Nat

VARIABLE resolution        \* the table; a row's id is its index

vars == <<resolution>>

Kind == {"manual_match", "accept_unmatched", "reject_suggestion"}

\* revoked_at is NULL ("live"), or stamped by a later decision
\* ("superseded") or by revoke ("withdrawn").
Stamp == {"live", "superseded", "withdrawn"}

Resolution == [kind    : Kind,
               left    : Identity,
               right   : Identity \cup {NoRecord},
               stamp   : Stamp]

Live(row) == row.stamp = "live"

\* Both identities a row names; an acceptance names one.
IdentitiesOf(row) ==
    {row.left} \cup (IF row.right = NoRecord THEN {} ELSE {row.right})

\* A bug the checks must catch: a rejection collides like any decision.
EagerContradicts(existing, new) == IdentitiesOf(existing) \cap IdentitiesOf(new) # {}

\* Can the two decisions not both stand?  A rejection is about one ordered
\* pair; a pairing or an acceptance is about the records themselves.
Contradicts(existing, new) ==
    IF "reject_suggestion" \in {existing.kind, new.kind}
    THEN /\ existing.right # NoRecord
         /\ new.right # NoRecord
         /\ <<existing.left, existing.right>> = <<new.left, new.right>>
    ELSE IdentitiesOf(existing) \cap IdentitiesOf(new) # {}

\* A bug the checks must catch: the replaced decision is overwritten, so
\* the table no longer says what was thought before.
OverwriteSuperseded(new) ==
    [i \in DOMAIN resolution |->
        IF Live(resolution[i]) /\ Contradicts(resolution[i], new)
        THEN [new EXCEPT !.stamp = "superseded"]
        ELSE resolution[i]]

\* A bug the checks must catch: only decisions about the left-hand record of
\* the new one are looked up.
SupersededOnLeft(new) ==
    [i \in DOMAIN resolution |->
        IF /\ Live(resolution[i])
           /\ new.left \in IdentitiesOf(resolution[i])
           /\ Contradicts(resolution[i], new)
        THEN [resolution[i] EXCEPT !.stamp = "superseded"]
        ELSE resolution[i]]

\* The table once the new decision has retired what it contradicts.
Superseded(new) ==
    [i \in DOMAIN resolution |->
        IF Live(resolution[i]) /\ Contradicts(resolution[i], new)
        THEN [resolution[i] EXCEPT !.stamp = "superseded"]
        ELSE resolution[i]]

Row(kind, left, right) ==
    [kind |-> kind, left |-> left, right |-> right, stamp |-> "live"]

Record(kind, left, right) ==
    /\ Len(resolution) < MaxResolutions
    /\ resolution' = Append(Superseded(Row(kind, left, right)), Row(kind, left, right))

\* A bug the checks must catch: a record may be paired with itself.
SelfMatch(left, right) == Record("manual_match", left, right)

ManualMatch(left, right) ==
    /\ left # right
    /\ Record("manual_match", left, right)

AcceptUnmatched(left) == Record("accept_unmatched", left, NoRecord)

RejectSuggestion(left, right) ==
    /\ left # right
    /\ Record("reject_suggestion", left, right)

\* Withdraw one live decision by id; revoking it twice is an error.
Revoke(id) ==
    /\ id \in DOMAIN resolution
    /\ Live(resolution[id])
    /\ resolution' = [resolution EXCEPT ![id].stamp = "withdrawn"]

Init == resolution = <<>>

Next ==
    \/ \E left, right \in Identity : ManualMatch(left, right)
    \/ \E left \in Identity : AcceptUnmatched(left)
    \/ \E left, right \in Identity : RejectSuggestion(left, right)
    \/ \E id \in 1..MaxResolutions : Revoke(id)

Spec == Init /\ [][Next]_vars

----------------------------------------------------------------------------
(* What the reconciler and the pages read back.                            *)

\* Live rows about two sources only, by id (prior_resolutions' query).
AboutSources(row, leftSource, rightSource) ==
    /\ Live(row)
    /\ row.left[1] \in {leftSource, rightSource}
    /\ row.right = NoRecord \/ row.right[1] \in {leftSource, rightSource}

\* A bug the checks must catch: the stored orientation is returned as it is.
AsStored(row, rightSource) ==
    [kind |-> row.kind, left |-> row.left, right |-> row.right]

\* A decision as this run's orientation needs it (PriorResolution).
Oriented(row, rightSource) ==
    IF row.right # NoRecord /\ row.left[1] = rightSource
    THEN [kind |-> row.kind, left |-> row.right, right |-> row.left]
    ELSE [kind |-> row.kind, left |-> row.left, right |-> row.right]

PriorResolutions(leftSource, rightSource) ==
    LET about == {i \in DOMAIN resolution : AboutSources(resolution[i], leftSource, rightSource)}
    IN  [i \in about |-> Oriented(resolution[i], rightSource)]

LiveTouching(identity) ==
    {i \in DOMAIN resolution :
        Live(resolution[i]) /\ identity \in IdentitiesOf(resolution[i])}

\* A bug the checks must catch: a blocklist entry can govern a record.
LatestTouching(identity) ==
    {i \in LiveTouching(identity) : \A j \in LiveTouching(identity) : j <= i}

\* The row resolution_for returns, as a set of at most one id: a pairing or
\* an acceptance is preferred to a rejection, then the latest wins.
ResolutionFor(identity) ==
    LET live      == LiveTouching(identity)
        governing == {i \in live : resolution[i].kind # "reject_suggestion"}
        best      == IF governing # {} THEN governing ELSE live
    IN  {i \in best : \A j \in best : j <= i}

----------------------------------------------------------------------------
(* Properties.                                                             *)

\* The table holds rows of the right shape, within its bound: the pairing
\* kinds name two different records and an acceptance names one.
TypeOK ==
    /\ resolution \in Seq(Resolution)
    /\ Len(resolution) <= MaxResolutions
    /\ \A i \in DOMAIN resolution :
          /\ resolution[i].kind = "accept_unmatched" <=> resolution[i].right = NoRecord
          /\ resolution[i].left # resolution[i].right

\* No two live decisions contradict each other, in whatever order pairings,
\* acceptances, rejections and revocations were recorded: what matching does
\* never depends on which of two rows a query returned first
\* (_supersede's docstring).
NoContradiction ==
    \A i, j \in DOMAIN resolution :
        (i # j /\ Live(resolution[i]) /\ Live(resolution[j]))
            => ~Contradicts(resolution[i], resolution[j])

\* A pairing or acceptance that a run applies is the one decision that
\* resolution_for finds from either of its records: the pair's provenance
\* (_resolution_behind) and the automatic revocation (_persist_revocations)
\* reach the row they mean, although both look it up by one identity.
GoverningIsUnique ==
    \A i \in DOMAIN resolution :
        (Live(resolution[i]) /\ resolution[i].kind # "reject_suggestion")
            => \A identity \in IdentitiesOf(resolution[i]) :
                   ResolutionFor(identity) = {i}

\* A run over the same two sources the other way round is given the same
\* decisions, mirrored: orientation belongs to the run (R7.4).
Mirrored(decision, leftSource) ==
    IF decision.right = NoRecord THEN decision
    ELSE [kind |-> decision.kind, left |-> decision.right, right |-> decision.left]

OrientationBelongsToRun ==
    \A L, R \in Sources : L # R =>
        LET forward  == PriorResolutions(L, R)
            backward == PriorResolutions(R, L)
        IN  /\ DOMAIN forward = DOMAIN backward
            /\ \A i \in DOMAIN forward :
                   /\ backward[i] = Mirrored(forward[i], L)
                   \* a decision across the two sources starts on the run's left
                   /\ (forward[i].right # NoRecord /\ forward[i].left[1] # forward[i].right[1])
                          => forward[i].left[1] = L

\* Nothing is deleted and nothing is rewritten: a step keeps every row in
\* its place, changes at most the stamp of a live one, and a stamped row
\* is never touched again (TR-708).
HistoryIsKept ==
    [][/\ Len(resolution') >= Len(resolution)
       /\ \A i \in DOMAIN resolution :
             /\ [resolution'[i] EXCEPT !.stamp = resolution[i].stamp] = resolution[i]
             /\ ~Live(resolution[i]) => resolution'[i] = resolution[i]]_vars

=============================================================================
