------------------------------- MODULE Consumer -------------------------------
(***************************************************************************)
(* The in-memory consumer, one record at a time (cdc/consumer.py,          *)
(* apply_events), fed by the delivery orders of cdc/delivery.py while the  *)
(* source keeps committing.                                                *)
(*                                                                         *)
(* "interleave": the six partitions are read in any relative order, each   *)
(* of them in its own.  "shuffle": no order at all.                        *)
(***************************************************************************)
EXTENDS Source

CONSTANT Order   \* "interleave" or "shuffle"

ASSUME ConsumerAssumption == Order \in {"interleave", "shuffle"}

VARIABLES
  delivered,  \* the records handed to the consumer so far
  rows,       \* the target: slot -> image, Absent for no row
  underKey,   \* under_key: record key -> the slots held under it
  watermark,  \* slot -> position of its last applied change, 0 for none
  counters    \* the counts apply_events returns

consumerVars == <<delivered, rows, underKey, watermark, counters>>
vars == <<log, table, delivered, rows, underKey, watermark, counters>>

CounterNames ==
  {"stale_dropped", "same_position", "changes_with_no_merge_key",
   "rows_removed_by_tombstones", "rows_kept_from_a_stale_tombstone",
   "deletes_of_a_row_not_held", "updates_of_a_row_not_held"}

ConsumerInit ==
  /\ delivered = {}
  /\ rows = [s \in Slots |-> Absent]
  /\ underKey = [k \in Keys |-> {}]
  /\ watermark = [s \in Slots |-> 0]
  /\ counters = [c \in CounterNames |-> 0]

\* What the broker may hand over next.
Deliverable(e) ==
  /\ e \notin delivered
  /\ Order = "interleave" => InPartitionOrder(e, log, delivered)

Bump(c, n) == [counters EXCEPT ![c] = @ + n]

OneIf(b) == IF b THEN 1 ELSE 0

-----------------------------------------------------------------------------
(* The branches of apply_events, in the order the code tests them.          *)

\* Mutant: a tombstone may be passed over under either rule.
IgnoreAnyTombstone(e) == e.tomb /\ UNCHANGED <<rows, underKey, watermark, counters>>

IgnoreTombstone(e) ==
  /\ e.tomb /\ OnTombstone = "ignore"
  /\ UNCHANGED <<rows, underKey, watermark, counters>>

\* Mutant: a row at the tombstone's own position is kept.
TombstoneKeepsEqual(e) ==
  LET kept == {s \in underKey[e.key] : Guard /\ watermark[s] >= e.lsn}
  IN  /\ e.tomb /\ OnTombstone = "delete"
      /\ rows' = [s \in Slots |-> IF s \in underKey[e.key] \ kept THEN Absent ELSE rows[s]]
      /\ underKey' = [underKey EXCEPT ![e.key] = kept]
      /\ counters' = Bump("rows_kept_from_a_stale_tombstone", Cardinality(kept))
      /\ UNCHANGED watermark

\* Mutant: the position of a removed row goes with it.
TombstoneForgetsMarks(e) ==
  LET gone == {s \in underKey[e.key] : watermark[s] <= e.lsn}
  IN  /\ e.tomb /\ OnTombstone = "delete"
      /\ rows' = [s \in Slots |-> IF s \in gone THEN Absent ELSE rows[s]]
      /\ underKey' = [underKey EXCEPT ![e.key] = @ \ gone]
      /\ watermark' = [s \in Slots |-> IF s \in gone THEN 0 ELSE watermark[s]]
      /\ UNCHANGED counters

\* Rows held under the key and not past the tombstone go; _forget drops them
\* from the index too.  The watermark of a removed row stays what it was.
ApplyTombstone(e) ==
  LET held == underKey[e.key]
      kept == {s \in held : Guard /\ watermark[s] > e.lsn}
      gone == {s \in held \ kept : rows[s] # Absent}
  IN  /\ e.tomb /\ OnTombstone = "delete"
      /\ rows' = [s \in Slots |-> IF s \in held \ kept THEN Absent ELSE rows[s]]
      /\ underKey' = [underKey EXCEPT ![e.key] = kept]
      /\ counters' =
           [counters EXCEPT !["rows_kept_from_a_stale_tombstone"] = @ + Cardinality(kept),
                            !["rows_removed_by_tombstones"] = @ + Cardinality(gone)]
      /\ UNCHANGED watermark

\* Mutant: a change without a merge key under a key that holds rows stops the loop.
NoMergeKeyStops(e) ==
  /\ ~e.tomb /\ Slot(e) = Absent /\ underKey[e.key] = {}
  /\ counters' = Bump("changes_with_no_merge_key", 1)
  /\ UNCHANGED <<rows, underKey, watermark>>

NoMergeKey(e) ==
  /\ ~e.tomb /\ Slot(e) = Absent
  /\ counters' = Bump("changes_with_no_merge_key", 1)
  /\ UNCHANGED <<rows, underKey, watermark>>

\* Mutant: a second change at one position is stale.
StaleAtEqual(e) == Guard /\ e.lsn <= watermark[Slot(e)]

Stale(e) == Guard /\ e.lsn < watermark[Slot(e)]

DropStale(e) ==
  /\ ~e.tomb /\ Slot(e) # Absent
  /\ Stale(e)
  /\ counters' = Bump("stale_dropped", 1)
  /\ UNCHANGED <<rows, underKey, watermark>>

Current(e) == ~e.tomb /\ Slot(e) # Absent /\ ~Stale(e)

\* Mutant: forgetting one row of a key drops the key from the index.
DeleteForgetsKey(e) ==
  /\ Current(e) /\ e.op = "d"
  /\ rows' = [rows EXCEPT ![Slot(e)] = Absent]
  /\ watermark' = [watermark EXCEPT ![Slot(e)] = e.lsn]
  /\ underKey' = [underKey EXCEPT ![e.key] = {}]
  /\ UNCHANGED counters

ApplyDelete(e) ==
  LET s == Slot(e)
  IN  /\ Current(e) /\ e.op = "d"
      /\ rows' = [rows EXCEPT ![s] = Absent]
      /\ watermark' = [watermark EXCEPT ![s] = e.lsn]
      /\ underKey' = [underKey EXCEPT ![e.key] = @ \ {s}]
      /\ counters' =
           [counters EXCEPT !["same_position"] = @ + OneIf(e.lsn = watermark[s]),
                            !["deletes_of_a_row_not_held"] = @ + OneIf(rows[s] = Absent)]

\* Mutant: the whole record is stored where its image belongs.
UpsertStoresRecord(e) ==
  /\ Current(e) /\ e.op \in {"c", "u"}
  /\ rows' = [rows EXCEPT ![Slot(e)] = e]
  /\ watermark' = [watermark EXCEPT ![Slot(e)] = e.lsn]
  /\ underKey' = [underKey EXCEPT ![e.key] = @ \cup {Slot(e)}]
  /\ UNCHANGED counters

\* Mutant: an update of a row not held moves the mark and stores nothing.
UpsertOfHeldRowsOnly(e) ==
  LET stored == e.op = "c" \/ rows[Slot(e)] # Absent
  IN  /\ Current(e) /\ e.op \in {"c", "u"}
      /\ rows' = IF stored THEN [rows EXCEPT ![Slot(e)] = e.val] ELSE rows
      /\ watermark' = [watermark EXCEPT ![Slot(e)] = e.lsn]
      /\ underKey' =
           IF stored THEN [underKey EXCEPT ![e.key] = @ \cup {Slot(e)}] ELSE underKey
      /\ UNCHANGED counters

ApplyUpsert(e) ==
  LET s == Slot(e)
  IN  /\ Current(e) /\ e.op \in {"c", "u"}
      /\ rows' = [rows EXCEPT ![s] = e.val]
      /\ watermark' = [watermark EXCEPT ![s] = e.lsn]
      /\ underKey' = [underKey EXCEPT ![e.key] = @ \cup {s}]
      /\ counters' =
           [counters EXCEPT !["same_position"] = @ + OneIf(e.lsn = watermark[s]),
                            !["updates_of_a_row_not_held"] =
                               @ + OneIf(e.op = "u" /\ rows[s] = Absent)]

ApplyEvent(e) ==
  \/ IgnoreTombstone(e)
  \/ ApplyTombstone(e)
  \/ NoMergeKey(e)
  \/ DropStale(e)
  \/ ApplyDelete(e)
  \/ ApplyUpsert(e)

Deliver(e) ==
  /\ Deliverable(e)
  /\ delivered' = delivered \cup {e}
  /\ ApplyEvent(e)

-----------------------------------------------------------------------------
Init == SourceInit /\ ConsumerInit

Produce == SourceNext /\ UNCHANGED consumerVars

Consume == \E e \in Stream(log) : Deliver(e) /\ UNCHANGED sourceVars

Next == Produce \/ Consume

\* The consumer's loop runs on whatever has been delivered: it never stops
\* while a record is left.  Nothing obliges the source to commit.
Spec == Init /\ [][Next]_vars /\ WF_vars(Consume)

-----------------------------------------------------------------------------
(* Properties.                                                              *)

TypeOK ==
  /\ SourceTypeOK
  /\ delivered \subseteq Stream(log)
  /\ rows \in [Slots -> Values \cup {Absent}]
  /\ underKey \in [Keys -> SUBSET Slots]
  /\ watermark \in [Slots -> Nat]
  /\ counters \in [CounterNames -> Nat]

\* The places in the log of the changes to one slot that were delivered.
Applied(s) ==
  {i \in DOMAIN log :
     LET e == ChangeRecord(i, log[i]) IN e \in delivered /\ Slot(e) = s}

\* A tombstone of the slot's own key, of a change produced after change i, has
\* been delivered.
TombstonedAfter(s, i) ==
  /\ OnTombstone = "delete"
  /\ \E e \in delivered : e.tomb /\ e.at > i /\ SlotOf(log[e.at].row) = s

\* Whatever the delivery order did, a slot shows the image of the newest change
\* delivered for it and holds that change's position.  The only exception is a
\* row a later tombstone of its own key took away first (apply_events).
LatestWins ==
  \A s \in Slots :
    \/ Applied(s) = {} /\ watermark[s] = 0 /\ rows[s] = Absent
    \/ \E i \in Applied(s) :
         /\ IsLast(i, Applied(s))
         /\ watermark[s] = log[i].lsn
         /\ \/ rows[s] = log[i].val
            \/ rows[s] = Absent /\ TombstonedAfter(s, i)

Drained == Stream(log) \subseteq delivered

Matches == \A r \in Rows : rows[SlotOf(r)] = table[r]

\* Once everything produced has been delivered, the target is the source table
\* row for row, however partitions were interleaved or records shuffled.
TargetMatchesSource == Drained => Matches

\* "The ordering guard cannot fire and its count is zero by construction"
\* (cdc/delivery.py, shuffle): as long as the broker keeps the order within
\* partitions no change is ever dropped as stale.
GuardNeverFires == Order = "interleave" => counters["stale_dropped"] = 0

KeyOfSlot(s) == IF MergeByRecordKey THEN s ELSE KeyOf[s]

\* The index tombstones go through (under_key) names the live rows of each key,
\* all of them and nothing else, whatever _forget has dropped.
IndexExact ==
  \A k \in Keys : underKey[k] = {s \in Slots : rows[s] # Absent /\ KeyOfSlot(s) = k}

\* Under a key that names one row a tombstone is framing for its own delete: it
\* never meets a row that moved past it, and the only rows it removes are those
\* whose delete was dropped for want of a merge key (changes_with_no_merge_key).
TombstoneOnlyRescues ==
  /\ counters["rows_removed_by_tombstones"] <= counters["changes_with_no_merge_key"]
  /\ counters["rows_kept_from_a_stale_tombstone"] = 0

\* Under a key covering several rows a drained target is wrong about a row only
\* by missing it, and only when a sibling's tombstone came after its last change.
OnlySiblingTombstonesLoseRows ==
  Drained =>
    \A r \in Rows : rows[SlotOf(r)] # table[r] =>
      /\ rows[SlotOf(r)] = Absent
      /\ \E e \in delivered :
           /\ e.tomb /\ e.key = KeyOf[r] /\ log[e.at].row # r
           /\ e.lsn >= watermark[SlotOf(r)]

\* What a consumer starting on the compacted topic ends up with for a row.
Bootstrapped(r) ==
  LET kept == {e \in Compact(Stream(log)) : e.row = r}
  IN  IF kept = {} THEN Absent ELSE (CHOOSE e \in kept : TRUE).val

LastOfItsKey(r) ==
  \E i \in DOMAIN log :
    log[i].row = r /\ \A j \in DOMAIN log : KeyOf[log[j].row] = KeyOf[r] => j <= i

\* A compacted topic rebuilds, of each record key, the row changed last and no
\* other: nothing else is there, and nothing deleted comes back (compact).
CompactionKeepsOneRowPerKey ==
  \A r \in Rows : Bootstrapped(r) = IF LastOfItsKey(r) THEN table[r] ELSE Absent

\* The high water mark never goes back and outlives the row: a row that is not
\* there comes into being only by a change at or past the mark it left behind.
MarkNeverGoesBack ==
  [][\A s \in Slots :
       /\ watermark'[s] >= watermark[s]
       /\ rows[s] = Absent /\ rows'[s] # Absent =>
            \E e \in delivered' \ delivered : e.lsn >= watermark[s]]_vars

\* A source that falls silent is eventually mirrored, and stays mirrored.
EventuallyMirrored == <>[]Matches

=============================================================================
