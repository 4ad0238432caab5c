---------------------------- MODULE MCReconcile ----------------------------
(* The whole service on small instances.                                   *)
EXTENDS RunPages

CONSTANTS Ledger, Statement, Venue, Bonds, Deliveries

Row(reference, status, time, quantity, price, amount) ==
    [reference |-> reference, status |-> status, bucket |-> Bonds, time |-> time,
     quantity |-> quantity, price |-> price, amount |-> amount]

\* Three deliveries a ledger may send, correcting each other: both trades;
\* the second alone, with a row that fails to load; the first corrected to what
\* the stranger is and the second cancelled.  The statement knows the second trade; or that and a
\* stranger that could be the first, with a row that fails to load.  Of the
\* second trade the ledger first says another price and, by less, another
\* amount, and then what is off by just what is tolerated.  The venue knows the
\* first trade.
MCParsed ==
    [source \in Sources |-> [content \in Contents |->
        LET rows == CASE source = Ledger /\ content = 1 ->
                            <<Row(1, "settled", 1, 10000, 10, 100000),
                              Row(2, "settled", 5, 10000, 12, 100100)>>
                      [] source = Ledger /\ content = 2 ->
                            <<Row(2, "settled", 5, 9999, 10, 99950)>>
                      [] source = Ledger /\ content = 3 ->
                            <<Row(1, "settled", 2, 10000, 10, 110000),
                              Row(2, "cancelled", 5, 10000, 12, 100100)>>
                      [] source = Statement /\ content = 1 ->
                            <<Row(2, "settled", 5, 10000, 10, 100000)>>
                      [] source = Statement /\ content = 2 ->
                            <<Row(2, "settled", 5, 10000, 10, 100000),
                              Row(3, "settled", 2, 10000, 10, 110000)>>
                      [] source = Venue /\ content = 1 -> <<Row(1, "settled", 1, 10000, 10, 100000)>>
                      [] OTHER -> <<>>
        IN  [readable |-> <<source, content>> \in Deliveries,
             storable |-> TRUE,
             records  |-> rows,
             errors   |-> IF content = 2 THEN 1 ELSE 0]]]

MCPeriods  == {<<1, 1>>}
MCIdentity == {<<Ledger, 1>>, <<Statement, 2>>, <<Statement, 3>>}
MCRecordRow ==
    [reference : {1, 2, 3}, status : {"settled", "cancelled"}, bucket : {Bonds}, time : {1, 2, 5},
     quantity : {9999, 10000}, price : {10, 12}, amount : {99950, 100000, 100100, 110000}]

TwoSources    == {<<Ledger, Statement>>}
TwoDeliveries == ({Ledger} \X {1, 2, 3}) \cup ({Statement} \X {2})

SourcesAgainstLedger  == {<<Ledger, Statement>>, <<Ledger, Venue>>}
OneDeliveryEach       == {<<Ledger, 1>>, <<Statement, 1>>, <<Venue, 1>>}

=============================================================================
