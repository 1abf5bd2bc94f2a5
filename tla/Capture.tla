-------------------------------- MODULE Capture --------------------------------
(***************************************************************************)
(* What a replication slot prints of the source's changes, and what the    *)
(* reader makes of it: the lines test_decoding writes under the replica    *)
(* identity of the tables, decoded (Decode) and turned into the records    *)
(* of the topics (cdc/events.py).                                          *)
(*                                                                         *)
(* The other modules start from Events, which has the records ready made.  *)
(* A row is its primary key and an image's value its other columns, both   *)
(* functions from columns to text: two tables stand for the four.          *)
(***************************************************************************)
EXTENDS Source, Decode, RecordKeys

CONSTANTS
  Odd          \* texts that hold a marker of the line format

VARIABLES
  identity,    \* the replica identity of the tables
  refused,     \* whether the source refused a statement, which ends the arm
  slot,        \* the lines the slot holds, one to a change
  decoded      \* the row the reader makes of each

captureVars == <<sourceVars, identity, refused, slot, decoded>>

PrimaryKeys == [customer |-> <<"customer_id">>, order_item |-> <<"order_id", "line_no">>]

\* message.key.columns of the strategy that keys an order line by its order.
Overridden == [PrimaryKeys EXCEPT !.order_item = <<"order_id">>]

OtherColumns == [customer |-> <<"full_name">>, order_item |-> <<"qty">>]

TextColumns == {"full_name"}

TableOf(row) == IF "customer_id" \in DOMAIN row THEN "customer" ELSE "order_item"

\* Every column has a start a field can be printed with, and a row and a value are
\* those of one of the tables.
ASSUME CaptureAssumption ==
  /\ \A t \in {"customer", "order_item"} :
       \A c \in ToSet(PrimaryKeys[t]) \cup ToSet(OtherColumns[t]) :
         \E start \in DOMAIN ColumnOf : ColumnOf[start] = c
  /\ \A r \in Rows :
       \E t \in {"customer", "order_item"} : r \in [ToSet(PrimaryKeys[t]) -> Words]
  /\ \A v \in Values : v \in [{"full_name"} -> Seq(STRING)] \cup [{"qty"} -> Words]
  /\ Odd \subseteq Seq(STRING)

ValuesOf(row) == {v \in Values : DOMAIN v = ToSet(OtherColumns[TableOf(row)])}

-----------------------------------------------------------------------------
(* What the slot prints.                                                    *)

FieldStart(c) == CHOOSE t \in DOMAIN ColumnOf : ColumnOf[t] = c

\* A text value is quoted, and a quote inside it doubled.
Printed(c, v) ==
  IF c \notin TextColumns THEN v
  ELSE <<Quote>> \o FlattenSeq([i \in DOMAIN v |->
         IF v[i] = Quote THEN <<Quote, Quote>> ELSE <<v[i]>>]) \o <<Quote>>

Tuple(image, columns) ==
  FlattenSeq([i \in DOMAIN columns |->
    (IF i = 1 THEN <<>> ELSE <<Space>>)
    \o <<FieldStart(columns[i])>> \o Printed(columns[i], image[columns[i]])])

\* test_decoding: the line of a change that found the row old and left it new.
Written(op, t, old, new) ==
  LET columns == PrimaryKeys[t] \o OtherColumns[t]
      full == identity = "FULL"
  IN  CASE op = "c" -> [action |-> "INSERT", rest |-> Tuple(new, columns)]
        [] op = "u" /\ ~full -> [action |-> "UPDATE", rest |-> Tuple(new, columns)]
        [] op = "u" /\ full ->
             [action |-> "UPDATE",
              rest |-> <<"old-key:", Space>> \o Tuple(old, columns)
                       \o <<Space, "new-tuple:", Space>> \o Tuple(new, columns)]
        [] op = "d" ->
             [action |-> "DELETE",
              rest |-> Tuple(old, IF full THEN columns ELSE PrimaryKeys[t])]

-----------------------------------------------------------------------------
(* A run of the workload under one identity.                                *)

CaptureInit ==
  /\ SourceInit
  /\ identity \in {"DEFAULT", "FULL", "NOTHING"}
  /\ refused = FALSE
  /\ slot = <<>> /\ decoded = <<>>

\* A published table without an identity takes inserts and nothing else.
Refuse ==
  /\ ~refused /\ identity = "NOTHING"
  /\ \E r \in Rows : table[r] # Absent
  /\ refused' = TRUE
  /\ UNCHANGED <<sourceVars, identity, slot, decoded>>

\* A statement of the workload, which deletes order lines and nothing else, and the
\* line the slot prints of it.
Run ==
  /\ ~refused
  /\ \E r \in Rows :
       \/ \E v \in ValuesOf(r) : Insert(r, v)
       \/ identity # "NOTHING" /\ \E v \in ValuesOf(r) : Update(r, v)
       \/ identity # "NOTHING" /\ TableOf(r) = "order_item" /\ Delete(r)
  /\ LET c == log'[Len(log')]
         line == Written(c.op, TableOf(c.row), Joined(c.row, table[c.row]), Joined(c.row, c.val))
     IN  /\ slot' = Append(slot, line)
         /\ decoded' = Append(decoded, parse_row(line))
  /\ UNCHANGED <<identity, refused>>

CaptureNext == Run \/ Refuse

CaptureSpec == CaptureInit /\ [][CaptureNext]_captureVars

-----------------------------------------------------------------------------
(* What is made of it.                                                      *)

OpFor == [INSERT |-> "c", UPDATE |-> "u", DELETE |-> "d"]

Holds(image, columns) == image # None /\ ToSet(columns) \subseteq DOMAIN image

\* The key of a record: the JSON bytes of decoded columns, which are strings.
Key(row, columns) == [json |-> key_json(row, columns, TRUE)]

\* _key_of and key_json: of the new image if there is one, else of the old.  An
\* image without the key columns raises.
KeyBytes(row, columns) ==
  LET image == IF row.after \notin {None, NoFields} THEN row.after ELSE row.before
  IN  IF Holds(image, columns) THEN Key(image, columns) ELSE Raised

\* envelope, as the records Events speaks of: a row by its primary key (identity),
\* the rest of the image as one value.
Published(i, keyColumns) ==
  LET row == decoded[i]
      t == TableOf(log[i].row)
      image == IF row.action = "DELETE" THEN row.before ELSE row.after
      change ==
        [at |-> i, lsn |-> log[i].lsn, op |-> OpFor[row.action], tomb |-> FALSE,
         key |-> KeyBytes(row, keyColumns[t]),
         row |-> IF Holds(image, PrimaryKeys[t])
                 THEN Restrict(image, ToSet(PrimaryKeys[t])) ELSE Absent,
         val |-> IF row.action = "DELETE" THEN Absent
                 ELSE Restrict(image, ToSet(OtherColumns[t]))]
  IN  {change} \cup
      (IF row.action = "DELETE"
       THEN {[change EXCEPT !.tomb = TRUE, !.row = Absent, !.val = Absent]} ELSE {})

\* The keys of Events, for the primary key and for the override.
KeysBy(keyColumns) ==
  [r \in Rows |-> Key(r, keyColumns[TableOf(r)])]

\* The records of a change under the override: another key, and else the same.
KeyedByOrder(i) ==
  {[e EXCEPT !.key = KeysBy(Overridden)[log[i].row]] : e \in Envelope(i, log[i])}

\* The table after the first n changes.
AsOf(n) ==
  [r \in Rows |->
     LET mine == {i \in 1..n : log[i].row = r}
     IN  IF mine = {} THEN Absent ELSE log[Max(mine)].val]

\* The whole row a change left behind, and the one it found.
NewImage(i) == Joined(log[i].row, log[i].val)
OldImage(i) == Joined(log[i].row, AsOf(i - 1)[log[i].row])

\* Walking back from the table of now over the decoded changes, down to the n-th.
WalkedBack(n) ==
  LET back[i \in n..Len(log)] ==
        IF i = Len(log) THEN table
        ELSE LET row == decoded[i + 1]
                 r == log[i + 1].row
                 other == ToSet(OtherColumns[TableOf(r)])
             IN  [back[i + 1] EXCEPT ![r] =
                    IF row.action = "INSERT" THEN Absent
                    ELSE IF Holds(row.before, OtherColumns[TableOf(r)])
                    THEN Restrict(row.before, other)
                    ELSE @]
  IN  back[n]

-----------------------------------------------------------------------------
(* Properties.                                                              *)

\* Every line decodes, and every image in it carries its row's primary key.
CaptureTypeOK ==
  /\ SourceTypeOK
  /\ identity \in {"DEFAULT", "FULL", "NOTHING"}
  /\ refused \in BOOLEAN
  /\ \A i \in DOMAIN log :
       LET row == decoded[i]
       IN  /\ row.action \in DOMAIN OpFor
           /\ \A image \in {row.before, row.after} \ {None} :
                Holds(image, PrimaryKeys[TableOf(log[i].row)])

\* The records the other modules start from are the ones the code reads off the
\* slot, keys, images and tombstones, under either key, whatever a text holds that
\* looks like a quote, a field or a null, and with or without old images.
EnvelopesAreTheStream ==
  \A i \in DOMAIN log :
    /\ Published(i, PrimaryKeys) = Envelope(i, log[i])
    /\ Published(i, Overridden) = KeyedByOrder(i)

\* The line of the last change, had the text of its row been t.
LineWith(t) ==
  LET i == Len(log)
      Renamed(image) == [image EXCEPT !.full_name = t]
  IN  Written(log[i].op, TableOf(log[i].row), Renamed(OldImage(i)), Renamed(NewImage(i)))

\* A line cut behind its first n tokens, as strip() leaves it.
CutLine(line, n) ==
  LET last == SelectLastInSubSeq(line.rest, 1, n, LAMBDA t : t # Space)
  IN  [line EXCEPT !.rest = SubSeq(@, 1, last)]

TextsRead(row) ==
  UNION {{image[c] : c \in TextColumns \cap DOMAIN image} :
           image \in {row.before, row.after} \ {None}}

\* No text, or the whole of one of these.
Whole(row, texts) == row \in {None, Raised} \/ TextsRead(row) \subseteq texts

\* A text that does not hold the two markers an image can be split and emptied by.
Separable(t) == NoTuple \notin ToSet(t) \/ "new-tuple:" \notin ToSet(t)

\* What is read of a text whose line ends in front of a quote: nothing behind the
\* start of its field, and what precedes it between the two of a doubled quote.
Halves(t) == {<<>>} \cup {SubSeq(t, 1, k - 1) : k \in {k \in DOMAIN t : t[k] = Quote}}

\* "Returning the part that was read hands the consumer half a value looking like a
\* whole one" (decode.py, _read_value): a text is read whole or not at all.
\*   Of a line cut behind any token, but where a quote comes next: there decode.py
\* does hand on half a value, O of 'O''Brien' cut between its two quotes, and these
\* halves are the only ones.
\*   And of any text that holds a marker, which may cost the row an image, but one
\* that holds (no-tuple-data) and new-tuple: both, which may be read wrong.
TextsAreWholeOrMissing ==
  log # <<>> /\ TableOf(log[Len(log)].row) = "customer" =>
    LET i == Len(log)
        line == slot[i]
        texts == {AsOf(n)[log[i].row].full_name :
                    n \in {n \in {i - 1, i} : AsOf(n)[log[i].row] # Absent}}
        halves == UNION {Halves(t) : t \in texts}
        BeforeAQuote(n) == n < Len(line.rest) /\ line.rest[n + 1] = Quote
    IN  /\ \A n \in DOMAIN line.rest :
             Whole(parse_row(CutLine(line, n)),
                   IF BeforeAQuote(n) THEN texts \cup halves ELSE texts)
        /\ \A t \in Odd : Separable(t) => Whole(parse_row(LineWith(t)), {t})

\* What the setting of the identity buys: where summarise finds every old row there
\* and as wide as its table, the changes can be walked back to any earlier table.
\* It does under FULL, and under DEFAULT only deletes have an old image.
SummarySaysWhatIsRecoverable ==
  LET summary == summarise(decoded)
      changed == {i \in DOMAIN log : log[i].op # "c"}
      width == MapThenSumSet(LAMBDA i : Cardinality(DOMAIN OldImage(i)), changed)
      recoverable == summary.before_absent = 0 /\ summary.before_fields = width
  IN  /\ recoverable => \A n \in 0..Len(log) : WalkedBack(n) = AsOf(n)
      /\ identity = "FULL" => recoverable
      /\ identity = "DEFAULT" =>
           summary.before_present = Cardinality({i \in DOMAIN log : log[i].op = "d"})

=============================================================================
