-------------------------------- MODULE Events --------------------------------
(***************************************************************************)
(* The records a topic carries, built from the source's committed changes. *)
(*                                                                         *)
(* A row change becomes one change record, and a delete also a tombstone   *)
(* (cdc/events.py, envelope).  Every record carries the row's record key,  *)
(* which decides its partition; only a change record carries a row image.  *)
(* A row is named by its primary key, the rest of an image is one value of *)
(* Values.  One topic is enough: slots, keys and targets are all           *)
(* qualified by the topic in the code and never meet across topics.        *)
(*                                                                         *)
(* The last three constants are the rules a consumer runs under: both the  *)
(* in-memory one and the warehouse take them as arguments.                 *)
(***************************************************************************)
EXTENDS Naturals, Sequences, FiniteSets

CONSTANTS
  Rows,             \* primary keys of the source table
  Values,           \* what an image holds besides the primary key
  Absent,           \* no row, no image, no primary key in the image
  Keys,             \* record keys
  KeyOf,            \* the record key of each row (key_columns_for)
  PartitionOf,      \* the partition the producer hashes each key to
  NarrowRows,       \* rows whose delete image lacks the merge columns
  MergeByRecordKey, \* TRUE when merge_keys is None
  Guard,            \* whether the position comparison is on
  OnTombstone       \* "delete" or "ignore"

ASSUME EventsAssumption ==
  /\ KeyOf \in [Rows -> Keys]
  /\ Keys \subseteq DOMAIN PartitionOf
  /\ Absent \notin Values \cup Rows \cup Keys
  /\ NarrowRows \subseteq Rows
  /\ MergeByRecordKey \in BOOLEAN
  /\ Guard \in BOOLEAN
  /\ OnTombstone \in {"delete", "ignore"}

\* A committed change as the slot hands it over: the row, the operation, the
\* image after it and its write ahead log position.  Position 0 is before all.
Changes ==
  [row : Rows, op : {"c", "u", "d"}, val : Values \cup {Absent}, lsn : Nat \ {0}]

Records ==
  [at : Nat \ {0}, key : Keys, row : Rows \cup {Absent}, op : {"c", "u", "d"},
   val : Values \cup {Absent}, lsn : Nat \ {0}, tomb : BOOLEAN]

\* The primary key inside the image a change record carries.  A delete carries
\* its before image, which a narrow replica identity cuts down.
ImageRow(c) == IF c.op = "d" /\ c.row \in NarrowRows THEN Absent ELSE c.row

\* `at' is the place of the change in the log.  Code never reads it: it tells
\* two deliveries apart and says what "produced earlier" means.
ChangeRecord(i, c) ==
  [at |-> i, key |-> KeyOf[c.row], row |-> ImageRow(c), op |-> c.op,
   val |-> c.val, lsn |-> c.lsn, tomb |-> FALSE]

TombstoneRecord(i, c) ==
  [at |-> i, key |-> KeyOf[c.row], row |-> Absent, op |-> "d",
   val |-> Absent, lsn |-> c.lsn, tomb |-> TRUE]

Envelope(i, c) ==
  {ChangeRecord(i, c)} \cup (IF c.op = "d" THEN {TombstoneRecord(i, c)} ELSE {})

\* Every record the topic carries for a log.
Stream(log) == UNION {Envelope(i, log[i]) : i \in DOMAIN log}

\* The order the records were produced in: the log's, and a tombstone right
\* behind its own delete.
Before(e, f) == e.at < f.at \/ (e.at = f.at /\ ~e.tomb /\ f.tomb)

SamePartition(e, f) == PartitionOf[e.key] = PartitionOf[f.key]

\* Mutant: the newest record of a partition is taken first.
NewestFirst(e, log, got) ==
  \A f \in Stream(log) : SamePartition(e, f) /\ Before(e, f) => f \in got

\* A reader that already has `got' may take e without breaking a partition's order.
InPartitionOrder(e, log, got) ==
  \A f \in Stream(log) : SamePartition(e, f) /\ Before(f, e) => f \in got

\* Mutant: the first record of each key survives.
CompactToFirst(records) ==
  {e \in records : ~e.tomb /\ \A f \in records : f.key = e.key => ~Before(f, e)}

\* compact: the last record of each key survives, unless it is a tombstone.
Compact(records) ==
  {e \in records : ~e.tomb /\ \A f \in records : f.key = e.key => ~Before(e, f)}

\* The last of a set of places in the log.
IsLast(i, S) == i \in S /\ \A j \in S : j <= i

-----------------------------------------------------------------------------
(* What identifies a row in a target (consumer.identity and its callers).   *)

Slots == IF MergeByRecordKey THEN Keys ELSE Rows

SlotOf(r) == IF MergeByRecordKey THEN KeyOf[r] ELSE r

\* The slot a change record addresses, Absent when its image cannot say.
Slot(e) == IF MergeByRecordKey THEN e.key ELSE e.row

\* Whether one record key never covers two merge keys.
OneSlotPerKey == \A r, q \in Rows : KeyOf[r] = KeyOf[q] => SlotOf(r) = SlotOf(q)

=============================================================================
