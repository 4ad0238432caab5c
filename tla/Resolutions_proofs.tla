------------------------- MODULE Resolutions_proofs -------------------------
(***************************************************************************)
(* Theorems about the resolution table, and that it implements the board   *)
(* of decisions, for any sources, identities and bound.                    *)
(***************************************************************************)
EXTENDS ResolutionsBoard, TLAPS

\* A row written by a decision is of the right shape when the decision is.
LEMMA RowType ==
    ASSUME NEW kind \in Kind, NEW left \in Identity,
           NEW right \in Identity \cup {NoRecord}
    PROVE  /\ Row(kind, left, right) \in Resolution
           /\ Live(Row(kind, left, right))
  BY DEF Row, Resolution, Stamp, Live

\* Retiring the contradicted rows keeps every row in its place and changes
\* at most the stamp of a live one.
LEMMA SupersededRows ==
    ASSUME TypeOK, NEW new
    PROVE  /\ Superseded(new) \in Seq(Resolution)
           /\ Len(Superseded(new)) = Len(resolution)
           /\ \A i \in DOMAIN resolution :
                 /\ Superseded(new)[i].kind = resolution[i].kind
                 /\ Superseded(new)[i].left = resolution[i].left
                 /\ Superseded(new)[i].right = resolution[i].right
                 /\ Superseded(new)[i].stamp \in {"superseded", resolution[i].stamp}
                 /\ ~Live(resolution[i]) => Superseded(new)[i] = resolution[i]
                 /\ Live(Superseded(new)[i]) =>
                       /\ Live(resolution[i])
                       /\ ~Contradicts(resolution[i], new)
                       /\ Superseded(new)[i] = resolution[i]
<1> DEFINE stamped(i) ==
        IF Live(resolution[i]) /\ Contradicts(resolution[i], new)
        THEN [resolution[i] EXCEPT !.stamp = "superseded"] ELSE resolution[i]
<1>1. resolution \in Seq(Resolution)
  BY DEF TypeOK
<1>2. DOMAIN resolution = 1..Len(resolution) /\ Len(resolution) \in Nat
  BY <1>1
<1>3. Superseded(new) = [i \in 1..Len(resolution) |-> stamped(i)]
  BY <1>2 DEF Superseded
<1>4. \A i \in 1..Len(resolution) : resolution[i] \in Resolution
  BY <1>1
<1>5. \A i \in 1..Len(resolution) : stamped(i) \in Resolution
  BY <1>4 DEF Resolution, Stamp
<1> HIDE DEF stamped
<1>6. Superseded(new) \in Seq(Resolution) /\ Len(Superseded(new)) = Len(resolution)
  BY <1>2, <1>3, <1>5
<1>7. ASSUME NEW i \in DOMAIN resolution
      PROVE  /\ Superseded(new)[i].kind = resolution[i].kind
             /\ Superseded(new)[i].left = resolution[i].left
             /\ Superseded(new)[i].right = resolution[i].right
             /\ Superseded(new)[i].stamp \in {"superseded", resolution[i].stamp}
             /\ ~Live(resolution[i]) => Superseded(new)[i] = resolution[i]
             /\ Live(Superseded(new)[i]) =>
                   /\ Live(resolution[i])
                   /\ ~Contradicts(resolution[i], new)
                   /\ Superseded(new)[i] = resolution[i]
  <2>1. Superseded(new)[i] = stamped(i)
    BY <1>2, <1>3
  <2>2. resolution[i] \in Resolution
    BY <1>2, <1>4
  <2> QED
    BY <2>1, <2>2 DEF stamped, Resolution, Live
<1> QED
  BY <1>6, <1>7

\* Recording a decision appends its row to the table that remains.
LEMMA RecordRows ==
    ASSUME TypeOK, NEW kind \in Kind, NEW left \in Identity,
           NEW right \in Identity \cup {NoRecord}, Record(kind, left, right)
    PROVE  /\ resolution' \in Seq(Resolution)
           /\ Len(resolution') = Len(resolution) + 1
           /\ Len(resolution') <= MaxResolutions
           /\ DOMAIN resolution' = DOMAIN resolution \cup {Len(resolution) + 1}
           /\ resolution'[Len(resolution) + 1] = Row(kind, left, right)
           /\ \A i \in DOMAIN resolution :
                 resolution'[i] = Superseded(Row(kind, left, right))[i]
<1> DEFINE new == Row(kind, left, right)
           old == Superseded(new)
<1>1. old \in Seq(Resolution) /\ Len(old) = Len(resolution)
  BY SupersededRows
<1>2. new \in Resolution
  BY RowType
<1>3. resolution' = Append(old, new) /\ Len(resolution) < MaxResolutions
  BY DEF Record
<1>4. resolution \in Seq(Resolution)
  BY DEF TypeOK
<1> HIDE DEF new, old
<1>5. /\ resolution' \in Seq(Resolution)
      /\ Len(resolution') = Len(resolution) + 1
      /\ resolution'[Len(resolution) + 1] = new
      /\ \A i \in 1..Len(resolution) : resolution'[i] = old[i]
  BY <1>1, <1>2, <1>3
<1> QED
  BY <1>3, <1>4, <1>5, MaxResolutionsAssumption DEF new, old

\* Revoking a decision changes one stamp.
LEMMA RevokeRows ==
    ASSUME TypeOK, NEW id \in 1..MaxResolutions, Revoke(id)
    PROVE  /\ resolution' \in Seq(Resolution)
           /\ Len(resolution') = Len(resolution)
           /\ DOMAIN resolution' = DOMAIN resolution
           /\ id \in DOMAIN resolution
           /\ Live(resolution[id])
           /\ resolution'[id] = [resolution[id] EXCEPT !.stamp = "withdrawn"]
           /\ ~Live(resolution'[id])
           /\ \A i \in DOMAIN resolution : i # id => resolution'[i] = resolution[i]
<1>1. resolution \in Seq(Resolution) /\ id \in DOMAIN resolution /\ Live(resolution[id])
  BY DEF TypeOK, Revoke
<1>2. resolution[id] \in Resolution
  BY <1>1
<1>3. [resolution[id] EXCEPT !.stamp = "withdrawn"] \in Resolution
  BY <1>2 DEF Resolution, Stamp
<1>4. resolution' = [resolution EXCEPT ![id] = [resolution[id] EXCEPT !.stamp = "withdrawn"]]
  BY DEF Revoke
<1> QED
  BY <1>1, <1>2, <1>3, <1>4 DEF Live, Resolution

----------------------------------------------------------------------------

LEMMA TypeInit == Init => TypeOK
  BY MaxResolutionsAssumption DEF Init, TypeOK

LEMMA TypeRecord ==
    ASSUME TypeOK, NEW kind \in Kind, NEW left \in Identity,
           NEW right \in Identity \cup {NoRecord},
           kind = "accept_unmatched" <=> right = NoRecord,
           left # right,
           Record(kind, left, right)
    PROVE  TypeOK'
<1> DEFINE new == Row(kind, left, right)
<1>1. /\ resolution' \in Seq(Resolution)
      /\ Len(resolution') <= MaxResolutions
      /\ DOMAIN resolution' = DOMAIN resolution \cup {Len(resolution) + 1}
      /\ resolution'[Len(resolution) + 1] = new
      /\ \A i \in DOMAIN resolution : resolution'[i] = Superseded(new)[i]
  BY RecordRows
<1>2. new.kind = kind /\ new.left = left /\ new.right = right
  BY DEF Row
<1>3. \A i \in DOMAIN resolution :
         /\ resolution'[i].kind = resolution[i].kind
         /\ resolution'[i].left = resolution[i].left
         /\ resolution'[i].right = resolution[i].right
  BY <1>1, SupersededRows
<1> HIDE DEF new
<1>4. \A i \in DOMAIN resolution' :
         /\ resolution'[i].kind = "accept_unmatched" <=> resolution'[i].right = NoRecord
         /\ resolution'[i].left # resolution'[i].right
  <2> TAKE i \in DOMAIN resolution'
  <2>1. CASE i = Len(resolution) + 1
    BY <2>1, <1>1, <1>2
  <2>2. CASE i \in DOMAIN resolution
    BY <2>2, <1>3 DEF TypeOK
  <2> QED
    BY <1>1, <2>1, <2>2
<1> QED
  BY <1>1, <1>4 DEF TypeOK

LEMMA TypeNext == TypeOK /\ [Next]_vars => TypeOK'
<1> SUFFICES ASSUME TypeOK, [Next]_vars PROVE TypeOK'
  OBVIOUS
<1>1. ASSUME NEW left \in Identity, NEW right \in Identity, ManualMatch(left, right)
      PROVE  TypeOK'
  BY <1>1, TypeRecord, NoRecordAssumption DEF ManualMatch, Kind
<1>2. ASSUME NEW left \in Identity, AcceptUnmatched(left)
      PROVE  TypeOK'
  BY <1>2, TypeRecord, NoRecordAssumption DEF AcceptUnmatched, Kind
<1>3. ASSUME NEW left \in Identity, NEW right \in Identity, RejectSuggestion(left, right)
      PROVE  TypeOK'
  BY <1>3, TypeRecord, NoRecordAssumption DEF RejectSuggestion, Kind
<1>4. ASSUME NEW id \in 1..MaxResolutions, Revoke(id)
      PROVE  TypeOK'
  <2>1. /\ resolution' \in Seq(Resolution)
        /\ Len(resolution') = Len(resolution)
        /\ DOMAIN resolution' = DOMAIN resolution
        /\ resolution'[id] = [resolution[id] EXCEPT !.stamp = "withdrawn"]
        /\ \A i \in DOMAIN resolution : i # id => resolution'[i] = resolution[i]
    BY <1>4, RevokeRows
  <2>2. \A i \in DOMAIN resolution : resolution[i] \in Resolution
    BY DEF TypeOK
  <2>3. \A i \in DOMAIN resolution :
           resolution'[i].kind = resolution[i].kind /\ resolution'[i].left = resolution[i].left
           /\ resolution'[i].right = resolution[i].right
    BY <2>1, <2>2 DEF Resolution
  <2> QED
    BY <2>1, <2>3 DEF TypeOK
<1>5. CASE UNCHANGED vars
  BY <1>5 DEF vars, TypeOK
<1> QED
  BY <1>1, <1>2, <1>3, <1>4, <1>5 DEF Next

\* Every reachable table has rows of the right shape: a pairing names two
\* different records, an acceptance one (the guards of manual_match,
\* accept_unmatched and reject_suggestion).
THEOREM TypeCorrect == Spec => []TypeOK
  BY TypeInit, TypeNext, PTL DEF Spec

----------------------------------------------------------------------------

LEMMA ContradictsSymmetric ==
    ASSUME NEW a \in Resolution, NEW b \in Resolution
    PROVE  Contradicts(a, b) <=> Contradicts(b, a)
  BY DEF Contradicts, Resolution

LEMMA NoContradictionRecord ==
    ASSUME TypeOK, NoContradiction, NEW kind \in Kind, NEW left \in Identity,
           NEW right \in Identity \cup {NoRecord}, Record(kind, left, right)
    PROVE  NoContradiction'
<1> DEFINE new == Row(kind, left, right)
           last == Len(resolution) + 1
<1>1. /\ resolution' \in Seq(Resolution)
      /\ DOMAIN resolution' = DOMAIN resolution \cup {last}
      /\ resolution'[last] = new
      /\ \A i \in DOMAIN resolution : resolution'[i] = Superseded(new)[i]
  BY RecordRows
<1>2. \A i \in DOMAIN resolution :
         Live(resolution'[i]) =>
            /\ Live(resolution[i])
            /\ ~Contradicts(resolution[i], new)
            /\ resolution'[i] = resolution[i]
  BY <1>1, SupersededRows
<1>3. new \in Resolution /\ \A i \in DOMAIN resolution : resolution[i] \in Resolution
  BY RowType DEF TypeOK
<1> HIDE DEF new, last
<1> SUFFICES ASSUME NEW i \in DOMAIN resolution', NEW j \in DOMAIN resolution',
                    i # j, Live(resolution'[i]), Live(resolution'[j])
             PROVE  ~Contradicts(resolution'[i], resolution'[j])
  BY DEF NoContradiction
<1>4. CASE i \in DOMAIN resolution /\ j \in DOMAIN resolution
  BY <1>2, <1>4 DEF NoContradiction
<1>5. CASE i \in DOMAIN resolution /\ j = last
  BY <1>1, <1>2, <1>5
<1>6. CASE i = last /\ j \in DOMAIN resolution
  BY <1>1, <1>2, <1>3, <1>6, ContradictsSymmetric
<1> QED
  BY <1>1, <1>4, <1>5, <1>6

LEMMA NoContradictionNext ==
    TypeOK /\ NoContradiction /\ [Next]_vars => NoContradiction'
<1> SUFFICES ASSUME TypeOK, NoContradiction, [Next]_vars PROVE NoContradiction'
  OBVIOUS
<1>1. ASSUME NEW left \in Identity, NEW right \in Identity, ManualMatch(left, right)
      PROVE  NoContradiction'
  BY <1>1, NoContradictionRecord DEF ManualMatch, Kind
<1>2. ASSUME NEW left \in Identity, AcceptUnmatched(left)
      PROVE  NoContradiction'
  BY <1>2, NoContradictionRecord DEF AcceptUnmatched, Kind
<1>3. ASSUME NEW left \in Identity, NEW right \in Identity, RejectSuggestion(left, right)
      PROVE  NoContradiction'
  BY <1>3, NoContradictionRecord DEF RejectSuggestion, Kind
<1>4. ASSUME NEW id \in 1..MaxResolutions, Revoke(id)
      PROVE  NoContradiction'
  <2>1. /\ DOMAIN resolution' = DOMAIN resolution
        /\ ~Live(resolution'[id])
        /\ \A i \in DOMAIN resolution : i # id => resolution'[i] = resolution[i]
    BY <1>4, RevokeRows
  <2> QED
    BY <2>1 DEF NoContradiction
<1>5. CASE UNCHANGED vars
  BY <1>5 DEF vars, NoContradiction
<1> QED
  BY <1>1, <1>2, <1>3, <1>4, <1>5 DEF Next

\* Two live decisions never contradict each other: _supersede retires
\* exactly what the new decision collides with, and nothing that was
\* retired comes back.
THEOREM DecisionsNeverContradict == Spec => []NoContradiction
<1>1. Init => NoContradiction
  BY DEF Init, NoContradiction
<1>2. TypeOK /\ NoContradiction /\ [Next]_vars => NoContradiction'
  BY NoContradictionNext
<1> QED
  BY <1>1, <1>2, TypeCorrect, PTL DEF Spec

\* Decisions that do not contradict each other leave one row to govern a
\* record.
LEMMA OneGoverns == TypeOK /\ NoContradiction => GoverningIsUnique
<1> SUFFICES ASSUME TypeOK, NoContradiction,
                    NEW i \in DOMAIN resolution, Live(resolution[i]),
                    resolution[i].kind # "reject_suggestion",
                    NEW identity \in IdentitiesOf(resolution[i])
             PROVE  ResolutionFor(identity) = {i}
  BY DEF GoverningIsUnique
<1> DEFINE governing == {j \in LiveTouching(identity) :
                            resolution[j].kind # "reject_suggestion"}
<1>1. i \in governing
  BY DEF LiveTouching
<1>2. ASSUME NEW j \in governing PROVE j = i
  BY <1>2 DEF LiveTouching, NoContradiction, Contradicts
<1>3. governing = {i}
  BY <1>1, <1>2
<1>4. i \in Nat
  BY DEF TypeOK
<1>5. ResolutionFor(identity) = {j \in governing : \A k \in governing : k <= j}
  BY <1>1 DEF ResolutionFor
<1> HIDE DEF governing
<1> QED
  BY <1>3, <1>4, <1>5

\* The decision a run applies to a record is the one resolution_for finds
\* from either record it names: the lookup by one identity is exact because
\* no other live pairing or acceptance touches it.
THEOREM GoverningDecisionIsUnique == Spec => []GoverningIsUnique
<1> QED
  BY OneGoverns, TypeCorrect, DecisionsNeverContradict, PTL

\* The audit trail: rows are appended, keep what they say, and are stamped
\* at most once (TR-708; the UPDATE in _stamp is the only one).
THEOREM HistoryKept == Spec => HistoryIsKept
<1> DEFINE kept == /\ Len(resolution') >= Len(resolution)
                   /\ \A i \in DOMAIN resolution :
                        /\ [resolution'[i] EXCEPT !.stamp = resolution[i].stamp] = resolution[i]
                        /\ ~Live(resolution[i]) => resolution'[i] = resolution[i]
<1>1. ASSUME TypeOK, NEW kind \in Kind, NEW left \in Identity,
             NEW right \in Identity \cup {NoRecord}, Record(kind, left, right)
      PROVE  kept
  <2>1. \A i \in DOMAIN resolution : resolution[i] \in Resolution
    BY <1>1 DEF TypeOK
  <2>2. \A i \in DOMAIN resolution : Superseded(Row(kind, left, right))[i] \in Resolution
    <3>1. /\ Superseded(Row(kind, left, right)) \in Seq(Resolution)
          /\ Len(Superseded(Row(kind, left, right))) = Len(resolution)
      BY <1>1, SupersededRows
    <3> QED
      BY <1>1, <3>1 DEF TypeOK
  <2>3. ASSUME NEW i \in DOMAIN resolution
        PROVE  /\ [resolution'[i] EXCEPT !.stamp = resolution[i].stamp] = resolution[i]
               /\ ~Live(resolution[i]) => resolution'[i] = resolution[i]
    <3>1. resolution'[i] = Superseded(Row(kind, left, right))[i]
      BY <1>1, RecordRows
    <3>2. /\ resolution'[i].kind = resolution[i].kind
          /\ resolution'[i].left = resolution[i].left
          /\ resolution'[i].right = resolution[i].right
          /\ ~Live(resolution[i]) => resolution'[i] = resolution[i]
      BY <1>1, <3>1, SupersededRows
    <3> QED
      BY <2>1, <2>2, <3>1, <3>2 DEF Resolution
  <2>4. Len(resolution') >= Len(resolution)
    BY <1>1, RecordRows DEF TypeOK
  <2> QED
    BY <2>3, <2>4
<1>2. ASSUME TypeOK, NEW id \in 1..MaxResolutions, Revoke(id)
      PROVE  kept
  <2>1. \A i \in DOMAIN resolution : resolution[i] \in Resolution
    BY <1>2 DEF TypeOK
  <2>2. ASSUME NEW i \in DOMAIN resolution
        PROVE  /\ [resolution'[i] EXCEPT !.stamp = resolution[i].stamp] = resolution[i]
               /\ ~Live(resolution[i]) => resolution'[i] = resolution[i]
    BY <1>2, <2>1, RevokeRows DEF Resolution
  <2>3. Len(resolution) \in Nat
    BY <1>2 DEF TypeOK
  <2>4. Len(resolution') = Len(resolution)
    BY <1>2, RevokeRows
  <2> QED
    BY <2>2, <2>3, <2>4
<1>3. TypeOK /\ [Next]_vars => [kept]_vars
  <2> SUFFICES ASSUME TypeOK, Next PROVE kept
    OBVIOUS
  <2> HIDE DEF kept
  <2>1. ASSUME NEW left \in Identity, NEW right \in Identity, ManualMatch(left, right)
        PROVE  kept
    BY <2>1, <1>1 DEF ManualMatch, Kind
  <2>2. ASSUME NEW left \in Identity, AcceptUnmatched(left)
        PROVE  kept
    BY <2>2, <1>1 DEF AcceptUnmatched, Kind
  <2>3. ASSUME NEW left \in Identity, NEW right \in Identity, RejectSuggestion(left, right)
        PROVE  kept
    BY <2>3, <1>1 DEF RejectSuggestion, Kind
  <2> QED
    BY <1>2, <2>1, <2>2, <2>3 DEF Next
<1> QED
  BY <1>3, TypeCorrect, PTL DEF Spec, HistoryIsKept

\* A run over the same two sources the other way round is given the same
\* decisions mirrored (R7.4): a pairing stored in either orientation, across
\* the sources or within one of them, reads as the run names its sides.
THEOREM TheRunOrientsDecisions == Spec => []OrientationBelongsToRun
<1>1. TypeOK => OrientationBelongsToRun
  <2> SUFFICES ASSUME TypeOK, NEW L \in Sources, NEW R \in Sources, L # R
               PROVE  LET forward  == PriorResolutions(L, R)
                          backward == PriorResolutions(R, L)
                      IN  /\ DOMAIN forward = DOMAIN backward
                          /\ \A i \in DOMAIN forward :
                                 /\ backward[i] = Mirrored(forward[i], L)
                                 /\ (forward[i].right # NoRecord /\ forward[i].left[1] # forward[i].right[1])
                                       => forward[i].left[1] = L
    BY DEF OrientationBelongsToRun
  <2>1. \A row : AboutSources(row, L, R) <=> AboutSources(row, R, L)
    BY DEF AboutSources
  <2>2. DOMAIN PriorResolutions(L, R) = DOMAIN PriorResolutions(R, L)
    BY <2>1 DEF PriorResolutions
  <2>3. ASSUME NEW i \in DOMAIN PriorResolutions(L, R)
        PROVE  /\ PriorResolutions(R, L)[i] = Mirrored(PriorResolutions(L, R)[i], L)
               /\ (/\ PriorResolutions(L, R)[i].right # NoRecord
                   /\ PriorResolutions(L, R)[i].left[1] # PriorResolutions(L, R)[i].right[1])
                     => PriorResolutions(L, R)[i].left[1] = L
    <3>1. /\ i \in DOMAIN resolution /\ AboutSources(resolution[i], L, R)
          /\ PriorResolutions(L, R)[i] = Oriented(resolution[i], R)
          /\ PriorResolutions(R, L)[i] = Oriented(resolution[i], L)
      BY <2>1 DEF PriorResolutions
    <3>2. resolution[i] \in Resolution
      BY <3>1 DEF TypeOK
    <3>3. resolution[i].left # NoRecord
      BY <3>2, NoRecordAssumption DEF Resolution
    <3> QED
      BY <3>1, <3>3 DEF Oriented, Mirrored, AboutSources
  <2> QED
    BY <2>2, <2>3
<1> QED
  BY <1>1, TypeCorrect, PTL

----------------------------------------------------------------------------
(* The board of decisions.                                                 *)

\* Row i is the decision about a record's fate.
Governs(i, identity) ==
    /\ i \in DOMAIN resolution /\ Live(resolution[i])
    /\ resolution[i].kind # "reject_suggestion"
    /\ identity \in IdentitiesOf(resolution[i])

Rejects(i) ==
    /\ i \in DOMAIN resolution /\ Live(resolution[i])
    /\ resolution[i].kind = "reject_suggestion"

\* What the table shows, in terms of its rows: the fate of a record is the
\* one live pairing or acceptance that names it.
Shows ==
    /\ \A identity : \A i : Governs(i, identity) => FateOf(identity) = DecisionOf(resolution[i])
    /\ \A identity : (\A i : ~Governs(i, identity)) => FateOf(identity) = NoDecision
    /\ \A identity : \A i, j : Governs(i, identity) /\ Governs(j, identity) => i = j
    /\ \A i : Rejects(i) => <<resolution[i].left, resolution[i].right>> \in BlockedPairs
    /\ \A pair \in BlockedPairs :
          \E i : Rejects(i) /\ pair = <<resolution[i].left, resolution[i].right>>

LEMMA TableShows == TypeOK /\ NoContradiction /\ GoverningIsUnique => Shows
<1> SUFFICES ASSUME TypeOK, NoContradiction, GoverningIsUnique PROVE Shows
  OBVIOUS
<1>1. ASSUME NEW identity, NEW i, Governs(i, identity)
      PROVE  FateOf(identity) = DecisionOf(resolution[i])
  <2>1. ResolutionFor(identity) = {i}
    BY <1>1 DEF Governs, GoverningIsUnique
  <2>2. {j \in ResolutionFor(identity) : resolution[j].kind # "reject_suggestion"} = {i}
    BY <1>1, <2>1 DEF Governs
  <2> QED
    BY <2>2 DEF FateOf
<1>2. ASSUME NEW identity, \A i : ~Governs(i, identity)
      PROVE  FateOf(identity) = NoDecision
  <2>1. {j \in ResolutionFor(identity) : resolution[j].kind # "reject_suggestion"} = {}
    BY <1>2 DEF Governs, ResolutionFor, LiveTouching
  <2> QED
    BY <2>1 DEF FateOf
<1>3. ASSUME NEW identity, NEW i, NEW j, Governs(i, identity), Governs(j, identity)
      PROVE  i = j
  BY <1>3 DEF Governs, NoContradiction, Contradicts
<1>4. \A i : Rejects(i) => <<resolution[i].left, resolution[i].right>> \in BlockedPairs
  BY DEF Rejects, BlockedPairs
<1>5. \A pair \in BlockedPairs :
         \E i : Rejects(i) /\ pair = <<resolution[i].left, resolution[i].right>>
  BY DEF Rejects, BlockedPairs
<1> QED
  BY <1>1, <1>2, <1>3, <1>4, <1>5 DEF Shows

\* A row governs the records it names, and its decision is one the board
\* can hold.
LEMMA RowOnTheBoard ==
    ASSUME TypeOK, NEW i \in DOMAIN resolution
    PROVE  /\ resolution[i] \in Resolution
           /\ resolution[i].kind = "accept_unmatched" <=> resolution[i].right = NoRecord
           /\ resolution[i].left # resolution[i].right
           /\ resolution[i].left \in Identity
           /\ resolution[i].left \in IdentitiesOf(resolution[i])
           /\ IdentitiesOf(resolution[i]) \in SUBSET Identity
           /\ DecisionOf(resolution[i]) # NoDecision
           /\ DecisionOf(resolution[i]).names = IdentitiesOf(resolution[i])
<1>1. resolution[i] \in Resolution
  BY DEF TypeOK
<1>2. resolution[i].left \in Identity /\ IdentitiesOf(resolution[i]) \in SUBSET Identity
  BY <1>1 DEF Resolution, IdentitiesOf
<1> QED
  BY <1>1, <1>2 DEF TypeOK, DecisionOf, IdentitiesOf, NoDecision

\* What recording a decision leaves of the rows: the new one, and the old
\* ones it does not contradict.
LEMMA RowsAfterRecord ==
    ASSUME TypeOK, NEW kind \in Kind, NEW left \in Identity,
           NEW right \in Identity \cup {NoRecord}, Record(kind, left, right)
    PROVE  LET new == Row(kind, left, right)
           IN  Live(new) /\ \E last \in DOMAIN resolution' :
                  /\ resolution'[last] = new
                  /\ last \notin DOMAIN resolution
                  /\ \A i \in DOMAIN resolution' : i # last => i \in DOMAIN resolution
                  /\ \A i \in DOMAIN resolution :
                        /\ i \in DOMAIN resolution'
                        /\ Live(resolution'[i]) <=>
                              Live(resolution[i]) /\ ~Contradicts(resolution[i], new)
                        /\ Live(resolution'[i]) => resolution'[i] = resolution[i]
<1> DEFINE new == Row(kind, left, right)
           last == Len(resolution) + 1
<1>1. /\ DOMAIN resolution' = DOMAIN resolution \cup {last}
      /\ resolution'[last] = new
      /\ \A i \in DOMAIN resolution : resolution'[i] = Superseded(new)[i]
  BY RecordRows
<1>2. last \notin DOMAIN resolution
  BY DEF TypeOK
<1>3. Live(new)
  BY RowType
<1>4. \A i \in DOMAIN resolution :
         Live(resolution'[i]) =>
            /\ Live(resolution[i]) /\ ~Contradicts(resolution[i], new)
            /\ resolution'[i] = resolution[i]
  BY <1>1, SupersededRows
<1>5. \A i \in DOMAIN resolution :
         Live(resolution[i]) /\ ~Contradicts(resolution[i], new) => Live(resolution'[i])
  BY <1>1 DEF Superseded
<1> QED
  BY <1>1, <1>2, <1>3, <1>4, <1>5

----------------------------------------------------------------------------

\* A pairing or an acceptance is placed on the board: its records are given
\* to it, and records whose decision it replaces are freed.
LEMMA PlacesDecision ==
    ASSUME TypeOK, Shows, Shows',
           NEW kind \in {"manual_match", "accept_unmatched"}, NEW left \in Identity,
           NEW right \in Identity \cup {NoRecord}, Record(kind, left, right)
    PROVE  Board!Place(DecisionOf(Row(kind, left, right)))
<1> DEFINE new == Row(kind, left, right)
           names == IdentitiesOf(new)
<1>0. Live(new)
  BY RowsAfterRecord DEF Kind
<1>1. PICK last \in DOMAIN resolution' :
      /\ resolution'[last] = new
      /\ \A i \in DOMAIN resolution' : i # last => i \in DOMAIN resolution
      /\ \A i \in DOMAIN resolution :
            /\ i \in DOMAIN resolution'
            /\ Live(resolution'[i]) <=> Live(resolution[i]) /\ ~Contradicts(resolution[i], new)
            /\ Live(resolution'[i]) => resolution'[i] = resolution[i]
  BY RowsAfterRecord DEF Kind
<1>2. new.kind # "reject_suggestion" /\ new.kind = kind
  BY DEF Row
<1>3. DecisionOf(new).names = names
  BY DEF DecisionOf
<1> HIDE DEF new
<1>4. ASSUME NEW x \in Identity
      PROVE  FateOf(x)' = IF x \in names THEN DecisionOf(new)
                          ELSE IF Board!Names(FateOf(x)) \cap names # {} THEN NoDecision
                          ELSE FateOf(x)
  <2>1. \A i : i # last /\ Governs(i, x)' =>
           /\ Governs(i, x) /\ resolution'[i] = resolution[i]
           /\ ~Contradicts(resolution[i], new)
    BY <1>1 DEF Governs
  <2>2. CASE x \in names
    <3>1. Governs(last, x)'
      BY <1>0, <1>1, <1>2, <2>2 DEF Governs
    <3>2. FateOf(x)' = DecisionOf(resolution'[last])
      BY <3>1 DEF Shows
    <3> QED
      BY <1>1, <2>2, <3>2
  <2>3. CASE x \notin names
    <3>1. ~Governs(last, x)'
      BY <1>1, <2>3 DEF Governs
    <3>2. CASE \A i : ~Governs(i, x)
      <4>1. FateOf(x) = NoDecision /\ FateOf(x)' = NoDecision
        BY <2>1, <3>1, <3>2 DEF Shows
      <4> QED
        BY <2>3, <4>1
    <3>3. ASSUME NEW i, Governs(i, x)
          PROVE  FateOf(x)' = IF Board!Names(FateOf(x)) \cap names # {} THEN NoDecision
                              ELSE FateOf(x)
      <4>1. FateOf(x) = DecisionOf(resolution[i]) /\ \A j : Governs(j, x) => j = i
        BY <3>3 DEF Shows
      <4>2. Board!Names(FateOf(x)) = IdentitiesOf(resolution[i])
        BY <3>3, <4>1, RowOnTheBoard DEF Governs, Board!Names
      <4>3. Contradicts(resolution[i], new) <=> IdentitiesOf(resolution[i]) \cap names # {}
        BY <1>2, <3>3 DEF Contradicts, Governs
      <4>4. CASE IdentitiesOf(resolution[i]) \cap names # {}
        <5>1. \A j : ~Governs(j, x)'
          BY <2>1, <3>1, <4>1, <4>3, <4>4
        <5>2. FateOf(x)' = NoDecision
          BY <5>1 DEF Shows
        <5> QED
          BY <4>2, <4>4, <5>2
      <4>5. CASE IdentitiesOf(resolution[i]) \cap names = {}
        <5>1. Governs(i, x)' /\ resolution'[i] = resolution[i]
          BY <1>1, <3>3, <4>3, <4>5 DEF Governs
        <5>2. FateOf(x)' = DecisionOf(resolution'[i])
          BY <5>1 DEF Shows
        <5> QED
          BY <4>1, <4>2, <4>5, <5>1, <5>2
      <4> QED
        BY <4>4, <4>5
    <3> QED
      BY <2>3, <3>2, <3>3
  <2> QED
    BY <2>2, <2>3
<1> QED
  BY <1>3, <1>4 DEF Board!Place, new

\* A rejection of an ordered pair goes once one is recorded, as does a
\* pairing of it; other rejections stay.
LEMMA BlocksAfterRecord ==
    ASSUME TypeOK, Shows, Shows', NEW kind \in Kind, NEW left \in Identity,
           NEW right \in Identity \cup {NoRecord}, Record(kind, left, right)
    PROVE  BlockedPairs' =
              IF kind = "reject_suggestion" THEN BlockedPairs \cup {<<left, right>>}
              ELSE IF right = NoRecord THEN BlockedPairs
              ELSE BlockedPairs \ {<<left, right>>}
<1> DEFINE new == Row(kind, left, right)
           pair(row) == <<row.left, row.right>>
<1>0. Live(new)
  BY RowsAfterRecord
<1>1. PICK last \in DOMAIN resolution' :
      /\ resolution'[last] = new
      /\ last \notin DOMAIN resolution
      /\ \A i \in DOMAIN resolution' : i # last => i \in DOMAIN resolution
      /\ \A i \in DOMAIN resolution :
            /\ i \in DOMAIN resolution'
            /\ Live(resolution'[i]) <=> Live(resolution[i]) /\ ~Contradicts(resolution[i], new)
            /\ Live(resolution'[i]) => resolution'[i] = resolution[i]
  BY RowsAfterRecord
<1>2. new.kind = kind /\ new.left = left /\ new.right = right
  BY DEF Row
<1> HIDE DEF new
<1>3. \A i : Rejects(i) => resolution[i].right # NoRecord
  BY RowOnTheBoard DEF Rejects
<1>4. \A i : Rejects(i) =>
         (Contradicts(resolution[i], new) <=> right # NoRecord /\ pair(resolution[i]) = <<left, right>>)
  BY <1>2, <1>3 DEF Contradicts, Rejects
<1>5. \A i : i # last =>
         (Rejects(i)' <=> Rejects(i) /\ ~Contradicts(resolution[i], new))
  BY <1>1 DEF Rejects
<1>6. \A i : i # last /\ Rejects(i)' => pair(resolution'[i]) = pair(resolution[i])
  BY <1>1 DEF Rejects
<1>7. Rejects(last)' <=> kind = "reject_suggestion"
  BY <1>0, <1>1, <1>2 DEF Rejects
<1>8. pair(resolution'[last]) = <<left, right>>
  BY <1>1, <1>2
<1>9. \A i : Rejects(i) => i # last
  BY <1>1 DEF Rejects
<1>10. /\ \A i : Rejects(i) => pair(resolution[i]) \in BlockedPairs
       /\ \A p \in BlockedPairs : \E i : Rejects(i) /\ p = pair(resolution[i])
       /\ \A i : Rejects(i)' => pair(resolution'[i]) \in BlockedPairs'
       /\ \A p \in BlockedPairs' : \E i : Rejects(i)' /\ p = pair(resolution'[i])
  BY DEF Shows
<1> HIDE DEF pair
<1>11. ASSUME NEW p \in BlockedPairs'
       PROVE  p \in (IF kind = "reject_suggestion" THEN BlockedPairs \cup {<<left, right>>}
                     ELSE IF right = NoRecord THEN BlockedPairs
                     ELSE BlockedPairs \ {<<left, right>>})
  <2>1. PICK i : Rejects(i)' /\ p = pair(resolution'[i])
    BY <1>10
  <2>2. CASE i = last
    BY <1>7, <1>8, <2>1, <2>2
  <2>3. CASE i # last
    BY <1>4, <1>5, <1>6, <1>10, <2>1, <2>3
  <2> QED
    BY <2>2, <2>3
<1>12. ASSUME NEW p \in BlockedPairs, p # <<left, right>> \/ right = NoRecord
       PROVE  p \in BlockedPairs'
  <2>1. PICK i : Rejects(i) /\ p = pair(resolution[i])
    BY <1>10
  <2>2. Rejects(i)' /\ pair(resolution'[i]) = p
    BY <1>4, <1>5, <1>6, <1>9, <1>12, <2>1
  <2> QED
    BY <1>10, <2>2
<1>13. kind = "reject_suggestion" => <<left, right>> \in BlockedPairs'
  BY <1>7, <1>8, <1>10
<1> QED
  BY <1>11, <1>12, <1>13

----------------------------------------------------------------------------

\* A rejection takes the pairing it contradicts off the board, and nothing
\* else.
LEMMA RejectionFrees ==
    ASSUME TypeOK, Shows, Shows', NEW left \in Identity, NEW right \in Identity, left # right,
           Record("reject_suggestion", left, right)
    PROVE  Board!Remove(Board!Pairing(left, right))
<1> DEFINE new == Row("reject_suggestion", left, right)
           rejected == Board!Pairing(left, right)
<1>1. PICK last \in DOMAIN resolution' :
      /\ resolution'[last] = new
      /\ \A i \in DOMAIN resolution' : i # last => i \in DOMAIN resolution
      /\ \A i \in DOMAIN resolution :
            /\ i \in DOMAIN resolution'
            /\ Live(resolution'[i]) <=> Live(resolution[i]) /\ ~Contradicts(resolution[i], new)
            /\ Live(resolution'[i]) => resolution'[i] = resolution[i]
  BY RowsAfterRecord DEF Kind
<1>2. new.kind = "reject_suggestion" /\ new.left = left /\ new.right = right
  BY DEF Row
<1> HIDE DEF new
<1>3. ASSUME NEW x, NEW i, Governs(i, x)
      PROVE  Contradicts(resolution[i], new) <=> DecisionOf(resolution[i]) = rejected
  <2>1. /\ resolution[i].kind = "accept_unmatched" <=> resolution[i].right = NoRecord
        /\ resolution[i].left # resolution[i].right
    BY <1>3, RowOnTheBoard DEF Governs
  <2>2. Contradicts(resolution[i], new) <=> resolution[i].left = left /\ resolution[i].right = right
    BY <1>2, NoRecordAssumption DEF Contradicts
  <2>3. rejected = [names |-> {left, right}, from |-> left]
    BY DEF Board!Pairing
  <2>4. CASE resolution[i].right = NoRecord
    <3>1. IdentitiesOf(resolution[i]) = {resolution[i].left}
      BY <2>4 DEF IdentitiesOf
    <3>2. DecisionOf(resolution[i]).names # rejected.names
      BY <2>3, <3>1 DEF DecisionOf
    <3> QED
      BY <2>2, <2>4, <3>2, NoRecordAssumption
  <2>5. CASE resolution[i].right # NoRecord
    <3>1. IdentitiesOf(resolution[i]) = {resolution[i].left, resolution[i].right}
      BY <2>5 DEF IdentitiesOf
    <3>2. DecisionOf(resolution[i]) = [names |-> {resolution[i].left, resolution[i].right},
                                       from  |-> resolution[i].left]
      BY <3>1 DEF DecisionOf
    <3>3. DecisionOf(resolution[i]) = rejected
             => resolution[i].left = left /\ resolution[i].right = right
      <4> SUFFICES ASSUME DecisionOf(resolution[i]) = rejected
                   PROVE  resolution[i].left = left /\ resolution[i].right = right
        OBVIOUS
      <4>1. /\ DecisionOf(resolution[i]).from = resolution[i].left
            /\ DecisionOf(resolution[i]).names = {resolution[i].left, resolution[i].right}
            /\ rejected.from = left /\ rejected.names = {left, right}
        BY <2>3, <3>2
      <4>2. resolution[i].left = left /\ {resolution[i].left, resolution[i].right} = {left, right}
        BY <4>1
      <4> QED
        BY <2>1, <4>2
    <3> QED
      BY <2>2, <2>3, <3>2, <3>3
  <2> QED
    BY <2>4, <2>5
<1>4. ASSUME NEW x \in Identity
      PROVE  FateOf(x)' = IF FateOf(x) = rejected THEN NoDecision ELSE FateOf(x)
  <2>1. \A i : Governs(i, x)' =>
           /\ Governs(i, x) /\ resolution'[i] = resolution[i]
           /\ ~Contradicts(resolution[i], new)
    BY <1>1, <1>2 DEF Governs
  <2>2. CASE \A i : ~Governs(i, x)
    <3>1. FateOf(x) = NoDecision /\ FateOf(x)' = NoDecision
      BY <2>1, <2>2 DEF Shows
    <3> QED
      BY <3>1
  <2>3. ASSUME NEW i, Governs(i, x)
        PROVE  FateOf(x)' = IF FateOf(x) = rejected THEN NoDecision ELSE FateOf(x)
    <3>1. FateOf(x) = DecisionOf(resolution[i]) /\ \A j : Governs(j, x) => j = i
      BY <2>3 DEF Shows
    <3>2. CASE Contradicts(resolution[i], new)
      <4>1. FateOf(x)' = NoDecision
        BY <2>1, <3>1, <3>2 DEF Shows
      <4> QED
        BY <1>3, <2>3, <3>1, <3>2, <4>1
    <3>3. CASE ~Contradicts(resolution[i], new)
      <4>1. Governs(i, x)' /\ resolution'[i] = resolution[i]
        BY <1>1, <2>3, <3>3 DEF Governs
      <4>2. FateOf(x)' = DecisionOf(resolution'[i])
        BY <4>1 DEF Shows
      <4> QED
        BY <1>3, <2>3, <3>1, <3>3, <4>1, <4>2
    <3> QED
      BY <3>2, <3>3
  <2> QED
    BY <2>2, <2>3
<1> QED
  BY <1>4 DEF Board!Remove

\* Revoking a row takes its decision off the board, or unblocks its pair.
LEMMA RevokeUndoes ==
    ASSUME TypeOK, NoContradiction, Shows, Shows', NEW id \in 1..MaxResolutions, Revoke(id)
    PROVE  Board!BoardNext
<1> DEFINE row == resolution[id]
<1>1. /\ DOMAIN resolution' = DOMAIN resolution /\ id \in DOMAIN resolution /\ Live(row)
      /\ ~Live(resolution'[id])
      /\ \A i \in DOMAIN resolution : i # id => resolution'[i] = resolution[i]
  BY RevokeRows
<1>2. /\ row \in Resolution /\ row.left \in Identity /\ row.left \in IdentitiesOf(row)
      /\ DecisionOf(row) # NoDecision
      /\ row.kind = "accept_unmatched" <=> row.right = NoRecord
  BY <1>1, RowOnTheBoard
<1> HIDE DEF row
<1>3. \A x, i : Governs(i, x)' <=> Governs(i, x) /\ i # id
  BY <1>1 DEF Governs
<1>4. \A i : Rejects(i)' <=> Rejects(i) /\ i # id
  BY <1>1 DEF Rejects
<1>5. \A i : i # id /\ (Rejects(i) \/ \E x : Governs(i, x)) => resolution'[i] = resolution[i]
  BY <1>1 DEF Rejects, Governs
<1>6. \A x, i : Governs(i, x) /\ i # id => FateOf(x)' = FateOf(x)
  <2> SUFFICES ASSUME NEW x, NEW i, Governs(i, x), i # id PROVE FateOf(x)' = FateOf(x)
    OBVIOUS
  <2>1. Governs(i, x)' /\ resolution'[i] = resolution[i]
    BY <1>3, <1>5
  <2>2. FateOf(x)' = DecisionOf(resolution'[i]) /\ FateOf(x) = DecisionOf(resolution[i])
    BY <2>1 DEF Shows
  <2> QED
    BY <2>1, <2>2
<1>7. \A x : (\A i : ~Governs(i, x)') => FateOf(x)' = NoDecision
  BY DEF Shows
<1>8. \A x : (\A i : ~Governs(i, x)) => FateOf(x) = NoDecision
  BY DEF Shows
<1>9. \A p : p \in BlockedPairs' <=>
                \E i : Rejects(i) /\ i # id /\ p = <<resolution[i].left, resolution[i].right>>
  <2>1. \A p : p \in BlockedPairs' <=>
                \E i : Rejects(i)' /\ p = <<resolution'[i].left, resolution'[i].right>>
    BY DEF Shows
  <2> QED
    BY <1>4, <1>5, <2>1
<1>10. \A p : p \in BlockedPairs <=>
                \E i : Rejects(i) /\ p = <<resolution[i].left, resolution[i].right>>
  BY DEF Shows
<1>11. CASE row.kind = "reject_suggestion"
  <2>1. row.right \in Identity /\ Rejects(id)
    BY <1>1, <1>2, <1>11 DEF Resolution, Rejects, row
  <2>2. <<row.left, row.right>> \in BlockedPairs
    BY <1>10, <2>1 DEF row
  <2>3. \A i : Rejects(i) /\ i # id => <<resolution[i].left, resolution[i].right>> # <<row.left, row.right>>
    BY <1>1, <1>2, <1>11 DEF Rejects, NoContradiction, Contradicts, row
  <2>4. BlockedPairs' = BlockedPairs \ {<<row.left, row.right>>}
    <3>1. ASSUME NEW p \in BlockedPairs' PROVE p \in BlockedPairs \ {<<row.left, row.right>>}
      BY <1>9, <1>10, <2>3, <3>1
    <3>2. ASSUME NEW p \in BlockedPairs, p # <<row.left, row.right>> PROVE p \in BlockedPairs'
      BY <1>9, <1>10, <3>2 DEF row
    <3> QED
      BY <3>1, <3>2
  <2>5. ASSUME NEW x \in Identity PROVE FateOf(x)' = FateOf(x)
    <3>1. ~Governs(id, x)
      BY <1>11 DEF Governs, row
    <3>2. CASE \E i : Governs(i, x)
      BY <1>6, <3>1, <3>2
    <3>3. CASE \A i : ~Governs(i, x)
      BY <1>3, <1>7, <1>8, <3>3
    <3> QED
      BY <3>2, <3>3
  <2>6. Board!Unblock(row.left, row.right)
    BY <2>2, <2>4, <2>5 DEF Board!Unblock
  <2> QED
    BY <1>2, <2>1, <2>6 DEF Board!BoardNext
<1>12. CASE row.kind # "reject_suggestion"
  <2>1. Governs(id, row.left)
    BY <1>1, <1>2, <1>12 DEF Governs, row
  <2>2. FateOf(row.left) = DecisionOf(row)
    BY <2>1 DEF Shows, row
  <2>3. BlockedPairs' = BlockedPairs
    <3>1. ~Rejects(id)
      BY <1>12 DEF Rejects, row
    <3> QED
      BY <1>9, <1>10, <3>1
  <2>4. ASSUME NEW x \in Identity
        PROVE  FateOf(x)' = IF FateOf(x) = DecisionOf(row) THEN NoDecision ELSE FateOf(x)
    <3>1. CASE Governs(id, x)
      <4>1. FateOf(x) = DecisionOf(row) /\ \A i : Governs(i, x) => i = id
        BY <3>1 DEF Shows, row
      <4>2. FateOf(x)' = NoDecision
        BY <1>3, <1>7, <4>1
      <4> QED
        BY <4>1, <4>2
    <3>2. ASSUME NEW i, Governs(i, x), i # id
          PROVE  FateOf(x)' = FateOf(x) /\ FateOf(x) # DecisionOf(row)
      <4>1. FateOf(x)' = FateOf(x)
        BY <1>6, <3>2
      <4>2. FateOf(x) = DecisionOf(resolution[i])
        BY <3>2 DEF Shows
      <4>3. Governs(i, resolution[i].left)
        BY <3>2, RowOnTheBoard DEF Governs
      <4>4. resolution[i].left = row.left => i = id
        BY <2>1, <4>3 DEF Shows
      <4>5. DecisionOf(resolution[i]).from = resolution[i].left /\ DecisionOf(row).from = row.left
        BY DEF DecisionOf
      <4> QED
        BY <3>2, <4>1, <4>2, <4>4, <4>5
    <3>3. CASE \A i : ~Governs(i, x)
      <4>1. FateOf(x) = NoDecision /\ FateOf(x)' = NoDecision
        BY <1>3, <1>7, <1>8, <3>3
      <4> QED
        BY <4>1
    <3> QED
      BY <3>1, <3>2, <3>3
  <2>5. Board!Undo(row.left)
    BY <1>2, <2>2, <2>3, <2>4 DEF Board!Undo, Board!Remove
  <2> QED
    BY <1>2, <2>5 DEF Board!BoardNext
<1> QED
  BY <1>11, <1>12

----------------------------------------------------------------------------

\* Each request that is carried out is one step of the board.
LEMMA StepOnTheBoard ==
    TypeOK /\ NoContradiction /\ Shows /\ Shows' /\ [Next]_vars => [Board!BoardNext]_(Board!boardVars)
<1> SUFFICES ASSUME TypeOK, NoContradiction, Shows, Shows', [Next]_vars
             PROVE  [Board!BoardNext]_(Board!boardVars)
  OBVIOUS
<1>1. ASSUME NEW left \in Identity, NEW right \in Identity, ManualMatch(left, right)
      PROVE  Board!Pair(left, right)
  <2>1. left # right /\ Record("manual_match", left, right)
    BY <1>1 DEF ManualMatch
  <2>2. BlockedPairs' = BlockedPairs \ {<<left, right>>}
    BY <2>1, BlocksAfterRecord, NoRecordAssumption DEF Kind
  <2>3. DecisionOf(Row("manual_match", left, right)) = Board!Pairing(left, right)
    BY NoRecordAssumption DEF DecisionOf, Row, IdentitiesOf, Board!Pairing
  <2>4. Board!Place(Board!Pairing(left, right))
    BY <2>1, <2>3, PlacesDecision
  <2> QED
    BY <2>1, <2>2, <2>4 DEF Board!Pair
<1>2. ASSUME NEW left \in Identity, AcceptUnmatched(left)
      PROVE  Board!Accept(left)
  <2>1. Record("accept_unmatched", left, NoRecord)
    BY <1>2 DEF AcceptUnmatched
  <2>2. BlockedPairs' = BlockedPairs
    BY <2>1, BlocksAfterRecord DEF Kind
  <2>3. DecisionOf(Row("accept_unmatched", left, NoRecord)) = Board!Acceptance(left)
    BY DEF DecisionOf, Row, IdentitiesOf, Board!Acceptance
  <2>4. Board!Place(Board!Acceptance(left))
    BY <2>1, <2>3, PlacesDecision
  <2> QED
    BY <2>2, <2>4 DEF Board!Accept
<1>3. ASSUME NEW left \in Identity, NEW right \in Identity, RejectSuggestion(left, right)
      PROVE  Board!Reject(left, right)
  <2>1. left # right /\ Record("reject_suggestion", left, right)
    BY <1>3 DEF RejectSuggestion
  <2>2. BlockedPairs' = BlockedPairs \cup {<<left, right>>}
    BY <2>1, BlocksAfterRecord DEF Kind
  <2>3. Board!Remove(Board!Pairing(left, right))
    BY <2>1, RejectionFrees
  <2> QED
    BY <2>1, <2>2, <2>3 DEF Board!Reject
<1>4. ASSUME NEW id \in 1..MaxResolutions, Revoke(id)
      PROVE  Board!BoardNext
  BY <1>4, RevokeUndoes
<1>5. CASE UNCHANGED vars
  <2>1. resolution' = resolution
    BY <1>5 DEF vars
  <2> QED
    BY <2>1 DEF Board!boardVars, FateOf, BlockedPairs, ResolutionFor, LiveTouching
<1> QED
  BY <1>1, <1>2, <1>3, <1>4, <1>5 DEF Next, Board!BoardNext

\* The resolution table implements the board of decisions: whatever was
\* recorded, superseded and revoked before, each request is one decision
\* placed, taken off or blocked (SPEC 5.7, _supersede and resolution_for).
THEOREM TableImplementsBoard == Spec => ImplementsBoard
<1>1. Init => Board!BoardInit
  BY DEF Init, Board!BoardInit, FateOf, BlockedPairs, ResolutionFor, LiveTouching
<1>2. Spec => []Shows
  BY TableShows, TypeCorrect, DecisionsNeverContradict, GoverningDecisionIsUnique, PTL
<1> QED
  BY <1>1, <1>2, StepOnTheBoard, TypeCorrect, DecisionsNeverContradict, PTL
     DEF Spec, ImplementsBoard, Board!BoardSpec

=============================================================================
