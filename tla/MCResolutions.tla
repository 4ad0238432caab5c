--------------------------- MODULE MCResolutions ---------------------------
(* The resolution table and the board it implements, on a small instance.  *)
EXTENDS ResolutionsBoard, TLC

CONSTANTS Ledger, Statement, Venue, T1, T2

MCSources == {Ledger, Statement, Venue}
MCIdentity == {<<Ledger, T1>>, <<Ledger, T2>>, <<Statement, T1>>, <<Venue, T1>>}

\* Each of these two has the one record, and nothing tells them apart.
Interchangeable == Permutations({Statement, Venue})

=============================================================================
