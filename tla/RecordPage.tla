----------------------------- MODULE RecordPage -----------------------------
(***************************************************************************)
(* The page of one record (record_detail in app/web/routes.py) while       *)
(* decisions and runs overlap.  It shows the decision that stands on the   *)
(* record, and says that it is newer than the run when its created_at is   *)
(* later than the run's finished_at: two times taken from the clock, one   *)
(* before a decision is written and the other at the end of a run, neither *)
(* of which is the time at which its transaction commits.                  *)
(*                                                                         *)
(* The page writes nothing, so it is an operator on the committed tables   *)
(* of Requests.  What is added is which of the two times was first: no two *)
(* of them are equal.                                                      *)
(***************************************************************************)
EXTENDS Requests

VARIABLES created,   \* the requests that have read the created_at of their decision
          older,     \* those that had when a run read its finished_at
          maker      \* the request behind each committed run, in the order of run

pageVars == <<vars, created, older, maker>>

\* The page's queries on the committed tables.
Pages == INSTANCE RunPages

PageInit ==
    /\ Init
    /\ created = {} /\ older = [q \in Requests |-> {}] /\ maker = <<>>

\* created_at=_now(): once a decision's collisions are known, before any of it
\* is written.
CreatedNow == {q \in Requests : Kind(q) = "decision" /\ request'[q].at \in {"stamp", "record"}}

\* finished_at=datetime.now(): once everything a run writes is known.
FinishedNow == {q \in Requests : At(q, "items") /\ request'[q].at = "answer"}

PageNext ==
    /\ Next
    /\ created' = created \cup CreatedNow
    /\ older' = [q \in Requests |-> IF q \in FinishedNow THEN created ELSE older[q]]
    /\ maker' = IF run' = run THEN maker ELSE Append(maker, CHOOSE q \in CommittedNow : TRUE)

PageSpec == PageInit /\ [][PageNext]_pageVars /\ Fairness

----------------------------------------------------------------------------
(* What the page says.                                                     *)

\* The requests behind a decision; one stored before is behind none.
DeciderOf(i) == {q \in Ended : Kind(q) = "decision" /\ request[q].has.id = i}

\* A bug the checks must catch: the two times are compared the wrong way.
NewerThanDecision(k, i) == \E q \in DeciderOf(i) : q \in older[maker[k]]

\* The banner that says a decision was made after the run (decision_is_newer).
DecisionIsNewer(k, i) == \E q \in DeciderOf(i) : q \notin older[maker[k]]

----------------------------------------------------------------------------
(* Properties.                                                             *)

\* A decision the page of a record does not show as newer than the run is
\* one the run applied.
OlderDecisionWasApplied ==
    \A k \in DOMAIN run : \A item \in run[k].items : \A i \in Pages!DecisionShown(item) :
        ~DecisionIsNewer(k, i) => Pages!Applied(k, item, i)

\* So it is for a run that no decision overlapped, if no two decisions
\* overlapped each other, whatever corrections and other runs overlap it and
\* whatever is decided later: the two times then tell what the run read.
OlderDecisionWasAppliedUnlessRaced ==
    \A k \in DOMAIN run :
        (~Raced(maker[k], {"decision"}) /\ DecisionsSerial) =>
            \A item \in run[k].items : \A i \in Pages!DecisionShown(item) :
                ~DecisionIsNewer(k, i) => Pages!Applied(k, item, i)

=============================================================================
