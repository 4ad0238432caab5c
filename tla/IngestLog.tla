----------------------------- MODULE IngestLog -----------------------------
(***************************************************************************)
(* The log of deliveries that the file_batch table shows to its readers,   *)
(* and that the table implements it.                                       *)
(***************************************************************************)
EXTENDS Ingest

VersionsOf(source, period) ==
    {i \in DOMAIN file_batch : SamePeriod(file_batch[i], source, period)}

\* The log as the table shows it: what was delivered is the contents by
\* version number, what counts is what the current batches hold.
ContentsOf(source, period) ==
    [n \in {file_batch[i].version : i \in VersionsOf(source, period)} |->
        file_batch[CHOOSE i \in VersionsOf(source, period) : file_batch[i].version = n].content]

ContentThatCounts(source, period) ==
    {file_batch[i].content : i \in CurrentBatch(source, period)}

Log == INSTANCE DeliveryLog
          WITH delivered     <- [key \in Sources \X Periods |-> ContentsOf(key[1], key[2])],
               authoritative <- [key \in Sources \X Periods |-> ContentThatCounts(key[1], key[2])]

\* The batches implement the log: what their marks make current is the last
\* delivery of its period, content is never taken twice and periods never
\* cut across each other.
ImplementsLog == Log!LogSpec

=============================================================================
