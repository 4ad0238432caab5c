----------------------------- MODULE MCRequests -----------------------------
(* Requests that overlap, over a ledger and a statement already loaded.    *)
EXTENDS RecordPage

CONSTANTS Ledger, Statement, Bonds

Row(reference, time, amount) ==
    [reference |-> reference, status |-> "settled", bucket |-> Bonds, time |-> time,
     quantity |-> 100, price |-> 10, amount |-> amount]

\* A file with a number too long for its column.
TooLong == 4

\* The ledger knows trade 1; the statement trades 1 and 3, of which its
\* first correction keeps the third and its second the first.
MCParsed ==
    [source \in Sources |-> [content \in Contents |->
        [readable |-> TRUE,
         storable |-> content # TooLong,
         records  |-> CASE content = 2 -> <<Row(3, 2, 1000)>>
                        [] content = 3 -> <<Row(1, 1, 1000)>>
                        [] content = 1 /\ source = Ledger -> <<Row(1, 1, 1000)>>
                        [] OTHER -> <<Row(1, 1, 1100), Row(3, 2, 1000)>>,
         errors   |-> IF content = 2 THEN 1 ELSE 0]]]

MCRecordRow == {Row(r, t, a) : r \in {1, 3}, t \in {1, 2}, a \in {1000, 1100}}

July    == <<1, 1>>
August  == <<2, 3>>
LateAugust == <<3, 3>>
MCPeriods == {July, August, LateAugust}

L1 == <<Ledger, 1>>
S1 == <<Statement, 1>>
S3 == <<Statement, 3>>
MCIdentity == {L1, S1, S3}
MCCode == [source \in Sources |-> IF source = Ledger THEN 1 ELSE 2]
MCSourcePairs == {<<Ledger, Statement>>}

Batch(source) ==
    [source |-> source, period |-> July, content |-> 1, version |-> 1, superseded_by |-> 0,
     records |-> MCParsed[source][1].records, errors |-> 0]
MCLoaded == <<Batch(Ledger), Batch(Statement)>>

Decision(kind, left, right) == [kind |-> kind, left |-> left, right |-> right, stamp |-> "live"]

\* Trade 1 was accepted as unmatched on both sides, and trade 3 rejected as
\* its counterpart.
MCDecided == <<Decision("accept_unmatched", S1, NoRecord),
               Decision("accept_unmatched", L1, NoRecord),
               Decision("reject_suggestion", L1, S3)>>

Upload(period, content) ==
    [kind |-> "upload", source |-> Statement, period |-> period, content |-> content]
Decide(decision, left, right) ==
    [kind |-> "decision", decision |-> decision, left |-> left, right |-> right]
Reconciliation(period) ==
    [kind |-> "run", left |-> Ledger, right |-> Statement, period |-> period]

\* Two corrections of one period, one of which is also sent for a period of
\* its own, and the other for one that overlaps it, and one whose rows cannot
\* be stored; a pairing of trade 1, a pairing across, one within the
\* statement and an acceptance; the run, twice, and one of a period not loaded.
MCAsked ==
    [u1 |-> Upload(July, 2), u2 |-> Upload(July, 3),
     u3 |-> Upload(August, 2), u4 |-> Upload(LateAugust, 3), u5 |-> Upload(July, TooLong),
     d1 |-> Decide("manual_match", L1, S1), d2 |-> Decide("manual_match", L1, S3),
     d3 |-> Decide("manual_match", S1, S3), d4 |-> Decide("accept_unmatched", S1, NoRecord),
     r1 |-> Reconciliation(July), r2 |-> Reconciliation(July), r3 |-> Reconciliation(August)]
MCRequestIds == DOMAIN MCAsked

Pairs   == {{p, q} : p, q \in MCRequestIds \ {"d3", "d4", "u5"}}
Triples == {{"u1", "u2", "r1"}, {"d1", "d2", "r1"}, {"d1", "r1", "r2"}, {"u1", "u3", "u4"},
            {"d3", "d4", "r1"}}
MCTogether == Pairs \cup Triples \cup {{"u1", "u5"}}

TwoCorrections    == {{"u1", "u2"}}
OneRunOneDecision == {{"d2", "r1"}}

=============================================================================
