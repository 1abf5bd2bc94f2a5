-------------------------------- MODULE Decode --------------------------------
(***************************************************************************)
(* A line of test_decoding text read for its values (cdc/decode.py).       *)
(*                                                                         *)
(* Text is a sequence of tokens: a field start, name[type]:, with its      *)
(* colon; a marker; a quote; a space; any other run of characters.  A line *)
(* is [action, rest], rest what follows the action and its colon, without  *)
(* the spaces around it, which strip() takes; the table is with the        *)
(* caller.                                                                 *)
(***************************************************************************)
EXTENDS Naturals, SequencesExt

CONSTANTS
  ColumnOf,   \* the field starts, to the column each one names
  None,       \* Python's None: an image the change shape does not have, a null
  Raised      \* the reader raised ValueError

Quote == "'"
Space == " "
NoTuple == "(no-tuple-data)"
OldMarks == {"old-key:", "old-tuple:"}
Colons == OldMarks \cup {"new-tuple:"} \cup DOMAIN ColumnOf

NoFields == <<>>

\* Places in a text and behind it.
Places == Nat \ {0}

\* A bare word as a line has it: a number or a timestamp, which is no keyword of the
\* format.
Words ==
  {w \in Seq(STRING) :
     /\ w # <<>> /\ w # <<"null">>
     /\ \A i \in DOMAIN w : w[i] \notin Colons \cup {Quote, Space, NoTuple}}

\* The columns of an image with their values.
Images(columns) == [columns -> Seq(STRING) \cup {None}]

\* The markers of the format.
Marks == OldMarks \cup {"new-tuple:", NoTuple}

ASSUME DecodeAssumption ==
  /\ Marks \cup {Quote, Space} \subseteq STRING
  /\ \A t \in DOMAIN ColumnOf :
       /\ t \in STRING /\ ColumnOf[t] \in STRING
       /\ t \notin Marks \cup {Quote, Space}
  /\ None # Raised
  /\ None \notin Seq(STRING)
  /\ Raised \notin [value : Seq(STRING) \cup {None}, next : Nat]
  /\ \A columns \in SUBSET {ColumnOf[t] : t \in DOMAIN ColumnOf} :
       {None, Raised} \cap Images(columns) = {}

-----------------------------------------------------------------------------
\* Mutant: a quote ends the value, doubled or not.
QuotedToTheFirstQuote(text, start) ==
  LET i == SelectInSubSeq(text, start, Len(text), LAMBDA t : t = Quote)
  IN  IF i = 0 THEN Raised ELSE [value |-> SubSeq(text, start, i - 1), next |-> i + 1]

\* Mutant: text that never closes its quote is a value all the same.
UnterminatedIsAValue(text, start) ==
  LET run[i \in Places] ==
        IF i > Len(text) THEN [value |-> <<>>, next |-> i]
        ELSE IF text[i] # Quote THEN [run[i + 1] EXCEPT !.value = <<text[i]>> \o @]
        ELSE IF i < Len(text) /\ text[i + 1] = Quote
             THEN [run[i + 2] EXCEPT !.value = <<Quote>> \o @]
        ELSE [value |-> <<>>, next |-> i + 1]
  IN  run[start]

\* _read_value behind an opening quote: two quotes are one, one quote ends it.
Quoted(text, start) ==
  LET run[i \in Places] ==
        IF i > Len(text) THEN Raised
        ELSE IF text[i] = Quote /\ ~(i < Len(text) /\ text[i + 1] = Quote)
        THEN [value |-> <<>>, next |-> i + 1]
        ELSE LET rest == run[IF text[i] = Quote THEN i + 2 ELSE i + 1]
             IN  IF rest = Raised THEN Raised
                 ELSE [rest EXCEPT !.value = <<text[i]>> \o @]
  IN  run[start]

\* Mutant: the space behind the value is read with it.
BareWithSpace(text, start) ==
  LET space == SelectInSubSeq(text, start, Len(text), LAMBDA t : t = Space)
      next == IF space = 0 THEN Len(text) + 1 ELSE space + 1
      raw == SubSeq(text, start, IF space = 0 THEN Len(text) ELSE space - 1)
  IN  [value |-> IF raw = <<"null">> THEN None ELSE raw, next |-> next]

\* _read_value of anything else: up to the next space.
Bare(text, start) ==
  LET space == SelectInSubSeq(text, start, Len(text), LAMBDA t : t = Space)
      next == IF space = 0 THEN Len(text) + 1 ELSE space
      raw == SubSeq(text, start, next - 1)
  IN  [value |-> IF raw = <<"null">> THEN None ELSE raw, next |-> next]

ReadValue(text, i) ==
  IF i <= Len(text) /\ text[i] = Quote THEN Quoted(text, i + 1) ELSE Bare(text, i)

\* f, and what g has besides.
Joined(f, g) == [c \in DOMAIN f \cup DOMAIN g |-> IF c \in DOMAIN f THEN f[c] ELSE g[c]]

\* Where _FIELD_START matches when the search begins at pos.
FieldStarts(text, pos) ==
  {i \in pos..Len(text) :
     /\ text[i] \in DOMAIN ColumnOf
     /\ i = 1 \/ (i > pos /\ text[i - 1] = Space)}

\* _pairs and _image: the columns of a fragment with their values, a column that
\* comes twice with the last one.
Image(fragment) ==
  LET fields[pos \in Places] ==
        IF FieldStarts(fragment, pos) = {} THEN NoFields
        ELSE LET i == Min(FieldStarts(fragment, pos))
                 read == ReadValue(fragment, i + 1)
                 rest == IF read = Raised THEN Raised ELSE fields[read.next]
             IN  IF rest = Raised THEN Raised
                 ELSE Joined(rest, [c \in {ColumnOf[fragment[i]]} |-> read.value])
  IN  IF fragment = None THEN None
      ELSE IF Contains(fragment, NoTuple) THEN NoFields
      ELSE fields[1]

-----------------------------------------------------------------------------
\* Mutant: the two halves of an update change places.
HalvesSwapped(line) ==
  LET new == SelectInSeq(line.rest, LAMBDA t : t = "new-tuple:")
      colon == SelectInSeq(line.rest, LAMBDA t : t \in Colons)
  IN  IF ToSet(line.rest) \cap OldMarks # {}
      THEN [before |-> SubSeq(line.rest, new + 1, Len(line.rest)),
            after |-> SubSeq(line.rest, colon + 1, new - 1)]
      ELSE IF line.action = "DELETE" THEN [before |-> line.rest, after |-> None]
      ELSE [before |-> None, after |-> line.rest]

\* _split: the before and after fragments.  The markers are looked for in the
\* whole line, quoted or not.
Split(line) ==
  LET new == SelectInSeq(line.rest, LAMBDA t : t = "new-tuple:")
      head == IF new = 0 THEN line.rest ELSE SubSeq(line.rest, 1, new - 1)
      tail == IF new = 0 THEN <<>> ELSE SubSeq(line.rest, new + 1, Len(line.rest))
      colon == SelectInSeq(head, LAMBDA t : t \in Colons)
  IN  IF ToSet(line.rest) \cap OldMarks # {}
      THEN [before |-> SubSeq(head, colon + 1, Len(head)), after |-> tail]
      ELSE IF line.action = "DELETE" THEN [before |-> line.rest, after |-> None]
      ELSE [before |-> None, after |-> line.rest]

\* parse_row: both images, None for a line with nothing behind its action.
parse_row(line) ==
  LET halves == Split(line)
      before == Image(halves.before)
      after == Image(halves.after)
  IN  IF line.rest = <<>> THEN None
      ELSE IF Raised \in {before, after} THEN Raised
      ELSE [action |-> line.action, before |-> before, after |-> after]

-----------------------------------------------------------------------------
\* summarise: how much of the updates and deletes is recoverable.  The mean width
\* of the before images is kept as their sum.  The code counts the columns' names,
\* which parse_change reads off the same fragments.
summarise(rows) ==
  LET Of(actions) == {i \in DOMAIN rows : rows[i].action \in actions}
      With(actions) == {i \in Of(actions) : rows[i].before \notin {None, NoFields}}
  IN  [before_present |-> Cardinality(With({"UPDATE", "DELETE"})),
       before_absent |-> Cardinality(Of({"UPDATE", "DELETE"}) \ With({"UPDATE", "DELETE"})),
       before_fields |-> MapThenSumSet(LAMBDA i : Cardinality(DOMAIN rows[i].before),
                                       With({"UPDATE", "DELETE"}))]

=============================================================================
