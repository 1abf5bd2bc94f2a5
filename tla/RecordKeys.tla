------------------------------- MODULE RecordKeys -------------------------------
(***************************************************************************)
(* The bytes of a record key (cdc/topics.py, key_json).                    *)
(*                                                                         *)
(* Bytes are numbers below 256.  Column values are digits, one string      *)
(* each, as the decoded text has them.                                     *)
(***************************************************************************)
EXTENDS Naturals, SequencesExt

CONSTANTS
  NameBytes    \* the bytes of each column's name

DigitByte ==
  "0" :> 48 @@ "1" :> 49 @@ "2" :> 50 @@ "3" :> 51 @@ "4" :> 52 @@
  "5" :> 53 @@ "6" :> 54 @@ "7" :> 55 @@ "8" :> 56 @@ "9" :> 57

\* json.dumps of a value: an integer, or the text it was decoded as.
JsonNumber(digits) == [i \in DOMAIN digits |-> DigitByte[digits[i]]]
Json(digits, text) ==
  IF text THEN <<34>> \o JsonNumber(digits) \o <<34>> ELSE JsonNumber(digits)

\* key_json: the key columns in the key's own order, as a JSON object; text says
\* whether the row's values are strings.  KeyError on a row that lacks one of the
\* columns is with the caller.
key_json(row, columns, text) ==
  LET Member(c) == <<34>> \o NameBytes[c] \o <<34, 58>> \o Json(row[c], text)
      Before(i) == IF i = 1 THEN <<123>> ELSE <<44>>
  IN  FlattenSeq([i \in DOMAIN columns |-> Before(i) \o Member(columns[i])]) \o <<125>>

=============================================================================
