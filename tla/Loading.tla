------------------------------- MODULE Loading --------------------------------
(***************************************************************************)
(* What a file says, read in the format its source is configured with:     *)
(* source_format_from_config (core/format.py), read_rows and what is       *)
(* stored of a row (app/services/ingest.py, app/db/types.py), and          *)
(* normalize_row (core/normalize.py).  Ingest's Parsed is made of these.   *)
(*                                                                         *)
(* A file is whether its bytes are UTF-8, its header and its lines, each a *)
(* sequence of texts.  A header cell is a column's name and what precedes  *)
(* it, nothing, a blank or a byte-order mark.  A text is what remains once *)
(* blanks around it are gone:                                              *)
(*   [kind |-> "empty"]                                                    *)
(*   [kind |-> "word",   word |-> w]                                       *)
(*   [kind |-> "number", digits |-> i, scale |-> s, grouped |-> g], which  *)
(*     is i * 10^-s, with separators between its digits or without         *)
(*   [kind |-> "time",   reads |-> f, zulu |-> z], which a pattern of      *)
(*     shape p reads as the local second f[p], with or without a final Z   *)
(* strptime, Decimal and the time zone rules are the external libraries'.  *)
(* Infinities, explicit offsets and fractions of a second are left out.    *)
(***************************************************************************)
EXTENDS Integers, Sequences, SequencesExt

CONSTANTS StoredScale,    \* decimals a number is stored with (Money: 12)
          Precision       \* digits decimal arithmetic keeps (external: 28)

ASSUME StoredScaleAssumption == StoredScale \in Nat
ASSUME PrecisionAssumption == Precision \in Nat

RequiredFields ==
    {"reference", "occurred_at", "instrument", "side", "quantity", "unit_price", "gross_amount", "status"}

TradeSides == {"BUY", "SELL"}
Statuses   == {"settled", "pending", "cancelled"}

EpochSeconds == [shape |-> "epoch", zulu |-> FALSE]

\* A configuration that can be trusted to load rows: every field has a
\* column and nothing else has, there is a pattern, and the vocabularies
\* name what they map tokens to.
IsSourceFormat(config) ==
    /\ DOMAIN config.columns = RequiredFields
    /\ config.timestamp_formats # <<>>
    /\ DOMAIN config.side_map # {} /\ Range(config.side_map) \subseteq TradeSides
    /\ DOMAIN config.status_map # {} /\ Range(config.status_map) \subseteq Statuses

----------------------------------------------------------------------------
(* Reading (read_rows, validate_header).                                   *)

Empty == [kind |-> "empty"]

\* A line as csv.DictReader hands it over: the header's cells, as they were
\* sent, are the keys; the last of two equal ones counts; a line that is too
\* short ends in empty texts and what is beyond the header is dropped.
RowOf(header, line) ==
    [cell \in Range(header) |->
        LET n == CHOOSE i \in DOMAIN header :
                    header[i] = cell /\ \A j \in DOMAIN header : header[j] = cell => j <= i
        IN  IF n <= Len(line) THEN line[n] ELSE Empty]

\* Blank lines are no rows.
RowsOf(file) ==
    LET lines == SelectSeq(file.lines, LAMBDA line : line # <<>>)
    IN  [n \in DOMAIN lines |-> RowOf(file.header, lines[n])]

\* A column is in the header whatever precedes its name.
ValidHeader(header, config) ==
    \A field \in RequiredFields : \E cell \in Range(header) : cell.name = config.columns[field]

----------------------------------------------------------------------------
(* Rows (normalize_row).  Each of these is the set of what a field reads   *)
(* as: empty when the row is rejected.                                     *)

\* The text under a field's column, found by its bare name.
TextOf(row, config, field) ==
    {row[cell] : cell \in {c \in DOMAIN row : c = [before |-> "nothing", name |-> config.columns[field]]}}
        \ {Empty}

\* Separators are dropped and every digit is kept.
Number(texts) ==
    {[digits |-> text.digits, scale |-> text.scale] : text \in {t \in texts : t.kind = "number"}}

\* There is no default for a token without a meaning.
Token(texts, vocabulary) == {vocabulary[text] : text \in texts \cap DOMAIN vocabulary}

\* One attempt: a final Z the pattern does not spell out is accepted, one it
\* spells out is needed.
Parses(text, pattern) ==
    IF pattern = EpochSeconds
    THEN text.kind = "number" /\ ~text.grouped /\ text.scale = 0
    ELSE /\ text.kind = "time" /\ pattern.shape \in DOMAIN text.reads
         /\ pattern.zulu => text.zulu

\* A bug the checks must catch: times without an offset are taken for UTC.
AsUtc(text, pattern, zone) ==
    IF pattern = EpochSeconds THEN text.digits ELSE text.reads[pattern.shape]

\* A time with a Z is in UTC; one without is in the source's zone.
ToUtc(text, pattern, zone) ==
    IF pattern = EpochSeconds THEN text.digits
    ELSE IF text.zulu THEN text.reads[pattern.shape]
    ELSE zone[text.reads[pattern.shape]]

\* The first pattern that parses wins.
Timestamp(texts, config) ==
    LET formats == config.timestamp_formats
    IN  UNION {{ToUtc(text, formats[n], config.zone) :
                   n \in {i \in DOMAIN formats :
                             /\ Parses(text, formats[i])
                             /\ \A j \in 1..i - 1 : ~Parses(text, formats[j])}} : text \in texts}

\* The row in our vocabulary, as a set of at most one.
Normalize(row, config) ==
    LET text(field) == TextOf(row, config, field) IN
    {[reference |-> reference, status |-> status, instrument |-> instrument, side |-> side,
      time |-> time, quantity |-> quantity, price |-> price, amount |-> amount] :
        reference \in text("reference"), time \in Timestamp(text("occurred_at"), config),
        instrument \in text("instrument"), side \in Token(text("side"), config.side_map),
        quantity \in Number(text("quantity")), price \in Number(text("unit_price")),
        amount \in Number(text("gross_amount")), status \in Token(text("status"), config.status_map)}

----------------------------------------------------------------------------
(* What is stored (ExactDecimal, _persist_records).                        *)

\* In units of the last stored decimal.
Stored(number) == number.digits * 10 ^ (StoredScale - number.scale)

\* A number with more decimals than are stored is not rounded, and one with
\* more digits than arithmetic keeps cannot be filled up with zeros: each is
\* an error at the flush, which nothing of the file survives.
Storable(number) ==
    /\ number.scale <= StoredScale
    /\ Stored(number) \in 1 - 10 ^ Precision..10 ^ Precision - 1

StoredRow(row) ==
    [row EXCEPT !.quantity = Stored(@), !.price = Stored(@), !.amount = Stored(@)]

\* A file as Ingest needs it: whether it is the CSV its source sends, whether
\* its rows can be stored, which they are, and how many could not be read.
Load(file, config) ==
    LET rows     == RowsOf(file)
        good     == SelectSeq(rows, LAMBDA row : Normalize(row, config) # {})
        records  == [n \in DOMAIN good |-> CHOOSE record \in Normalize(good[n], config) : TRUE]
        readable == file.utf8 /\ file.header # <<>> /\ ValidHeader(file.header, config)
        storable == \A n \in DOMAIN records :
                        \A number \in {records[n].quantity, records[n].price, records[n].amount} :
                            Storable(number)
    IN  IF readable /\ storable
        THEN [readable |-> TRUE, storable |-> TRUE, errors |-> Len(rows) - Len(good),
              records  |-> [n \in DOMAIN records |-> StoredRow(records[n])]]
        ELSE [readable |-> readable, storable |-> FALSE, errors |-> 0, records |-> <<>>]

=============================================================================
