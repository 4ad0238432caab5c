------------------------------ MODULE MCIngest ------------------------------
(* Ingestion on a small instance, of files as Loading reads them.          *)
EXTENDS IngestLog, Loading

CONSTANTS Ledger, Statement

MCSources == {Ledger, Statement}

\* Two days apart, a period meeting both on its boundary days, and one that
\* ends before it starts.
MCPeriods == {<<1, 2>>, <<3, 4>>, <<2, 3>>, <<4, 3>>}

W(word) == [kind |-> "word", word |-> word]

\* The trades of the files, as everyone should understand them.
Trade(reference, side, time, quantity) ==
    [reference |-> W(reference), status |-> "settled", instrument |-> W("BOND"), side |-> side,
     time |-> time, quantity |-> quantity, price |-> 250, amount |-> 2 * quantity]

One   == Trade("1", "BUY", 3, 400)
Two   == Trade("2", "SELL", 5, 60)
Other == Trade("2", "SELL", 7, 61)
Three == Trade("3", "BUY", 7, 400)

MCRecordRow ==
    [reference : {W("1"), W("2"), W("3")}, status : {"settled"}, instrument : {W("BOND")},
     side : {"BUY", "SELL"}, time : Nat, quantity : Nat, price : Nat, amount : Nat]

----------------------------------------------------------------------------
(* The two notations: a ledger in UTC with a final Z and full words, and a *)
(* statement in a zone whose summer time ends, with epoch seconds here and *)
(* there, separators in its numbers and one letter for a side.             *)

Columns == <<"reference", "occurred_at", "instrument", "side", "quantity", "unit_price",
             "gross_amount", "status">>

\* Clocks go back one unit after the local 7, which is five o'clock.
Zone == [local \in 0..9 |-> IF local < 8 THEN local - 2 ELSE local - 1]

Clock(time) == CHOOSE local \in DOMAIN Zone : Zone[local] = time

Format ==
    [source \in MCSources |->
        [columns           |-> [field \in RequiredFields |-> <<source, field>>],
         timestamp_formats |-> IF source = Ledger THEN <<[shape |-> "iso", zulu |-> TRUE]>>
                               ELSE <<[shape |-> "plain", zulu |-> FALSE], EpochSeconds>>,
         zone              |-> IF source = Ledger THEN [local \in 0..9 |-> local] ELSE Zone,
         side_map          |-> IF source = Ledger
                               THEN (W("BUY") :> "BUY" @@ W("SELL") :> "SELL")
                               ELSE (W("B") :> "BUY" @@ W("S") :> "SELL"),
         status_map        |-> (W("SETTLED") :> "settled" @@ W("VOID") :> "cancelled")]]

\* Seeding and loading refuse any other configuration.
ASSUME FormatAssumption == \A source \in MCSources : IsSourceFormat(Format[source])

Plain(digits, scale) == [kind |-> "number", digits |-> digits, scale |-> scale, grouped |-> FALSE]

Grouped(digits, scale) == [kind |-> "number", digits |-> digits, scale |-> scale, grouped |-> TRUE]

At(shape, local, zulu) == [kind |-> "time", reads |-> (shape :> local), zulu |-> zulu]

\* A trade the way each source writes it.
Written(source, trade) ==
    IF source = Ledger
    THEN <<trade.reference, At("iso", trade.time, TRUE), trade.instrument, W(trade.side),
           Plain(trade.quantity, 2), Plain(trade.price \div 10, 1), Plain(trade.amount, 2),
           W("SETTLED")>>
    ELSE <<trade.reference,
           IF trade.side = "BUY" THEN At("plain", Clock(trade.time), FALSE) ELSE Plain(trade.time, 0),
           trade.instrument, IF trade.side = "BUY" THEN W("B") ELSE W("S"),
           Grouped(trade.quantity, 2), Plain(trade.price, 2), Grouped(trade.amount, 2),
           W("SETTLED"), W("a remark")>>

\* Lines that cannot be read: too short, a token nobody declared, a time
\* without its zone.
Unreadable(source) ==
    <<SubSeq(Written(source, One), 1, 5),
      [Written(source, One) EXCEPT ![4] = W("HOLD")],
      [Written(source, One) EXCEPT ![2] = At("iso", 3, FALSE)]>>

\* Lines that can be read and not stored: a decimal too many, and a number
\* too large to be filled up to the decimals stored.
TooLong(source, content) ==
    CASE content = 6 -> <<[Written(source, One) EXCEPT ![5] = Plain(4001, 3)]>>
      [] content = 7 -> <<[Written(source, One) EXCEPT ![6] = Plain(10000, 0)]>>
      [] OTHER -> <<>>

\* What a content says, and in how many lines that cannot be read: references
\* come and go between contents, one repeats a reference, one has no readable
\* line and one lacks a column; the last two end in a line that is too long.
Meant(content) ==
    CASE content = 1 -> <<One, Two>>
      [] content = 2 -> <<Other, Three, Three>>
      [] content \in {3, 6, 7} -> <<One>>
      [] OTHER -> <<>>

Unread(content) == IF content = 2 THEN 1 ELSE IF content = 4 THEN 3 ELSE 0

Header(source, content) ==
    [n \in 1..(IF content = 5 THEN 7 ELSE 8) |-> [before |-> "nothing", name |-> <<source, Columns[n]>>]]

\* Unreadable lines come first, and one line is blank.
File(source, content) ==
    LET good == [n \in DOMAIN Meant(content) |-> Written(source, Meant(content)[n])]
    IN  [utf8   |-> TRUE,
         header |-> Header(source, content),
         lines  |-> SubSeq(Unreadable(source), 1, Unread(content)) \o <<<<>>>> \o good
                        \o TooLong(source, content)]

MCContents == 1..7

FirstAndTooLong == {1, 6, 7}

MCParsed ==
    [source \in MCSources |-> [content \in MCContents |-> Load(File(source, content), Format[source])]]

----------------------------------------------------------------------------
(* Properties.                                                             *)

\* Nothing but what its rows say can keep this delivery from being loaded.
Deliverable(source, period, content) ==
    /\ Parsed[source][content].readable /\ ValidPeriod(period)
    /\ ~Duplicate(source, content) /\ ~PartlyOverlaps(source, period)
    /\ Len(file_batch) < MaxBatches

\* Whatever notation a source uses for its times, numbers and tokens, and
\* whatever else its file contains, an accepted delivery holds exactly the
\* trades its lines state, in their order, and counts the lines that cannot
\* be read (TR-106, TR-202, TR-203, TR-206): sources agree on what a trade
\* is before anything is compared.  Of first deliveries, those that lack a
\* column are refused and those with a line that is too long are lost
\* (BadRowNeverCostsTheFile); lines that cannot be read keep no file from
\* being loaded, even if no other is in it.
LoadsWhatWasMeant ==
    /\ \A i \in DOMAIN file_batch :
          /\ file_batch[i].records = Meant(file_batch[i].content)
          /\ file_batch[i].errors = Unread(file_batch[i].content)
    /\ file_batch = <<>> =>
          \A source \in Sources, content \in Contents :
              (\E period \in Periods : ENABLED UploadFile(source, period, content))
                  <=> content # 5 /\ TooLong(source, content) = <<>>

\* _persist_errors: a bad row never costs the rest of the file (TR-106); so
\* nothing a row says keeps a file with a good header from being loaded.
BadRowNeverCostsTheFile ==
    \A source \in Sources, period \in Periods, content \in Contents :
        Deliverable(source, period, content) => ENABLED UploadFile(source, period, content)

=============================================================================
