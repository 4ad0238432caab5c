---------------------------- MODULE DeliveryLog ----------------------------
(***************************************************************************)
(* What ingestion promises, without versions or marks: for every source    *)
(* and period the log of what was delivered, and the delivery that counts  *)
(* now, which is always the last.  The same content is never taken twice   *)
(* from one source, and a source's periods do not cut across each other.   *)
(***************************************************************************)
EXTENDS Naturals, Sequences

CONSTANTS Sources, Periods, Contents

VARIABLES delivered,      \* contents accepted, by source and period
          authoritative   \* the contents that count, one at most

logVars == <<delivered, authoritative>>

Apart(one, other) == one[2] < other[1] \/ other[2] < one[1]

Deliver(source, period, content) ==
    /\ \A p \in Periods : \A n \in DOMAIN delivered[<<source, p>>] :
          /\ delivered[<<source, p>>][n] # content
          /\ p = period \/ Apart(p, period)
    /\ delivered' = [delivered EXCEPT ![<<source, period>>] = Append(@, content)]
    /\ authoritative' = [authoritative EXCEPT ![<<source, period>>] = {content}]

LogInit ==
    /\ delivered = [key \in Sources \X Periods |-> <<>>]
    /\ authoritative = [key \in Sources \X Periods |-> {}]

LogNext ==
    \E source \in Sources, period \in Periods, content \in Contents :
        Deliver(source, period, content)

LogSpec == LogInit /\ [][LogNext]_logVars

=============================================================================
