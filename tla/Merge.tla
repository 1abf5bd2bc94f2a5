--------------------------------- MODULE Merge ---------------------------------
(***************************************************************************)
(* One batch into the target table: the reduction of warehouse/merge.py    *)
(* and the two statements of warehouse/sql.py, as functions of a batch (a  *)
(* sequence of records in delivery order) and of the table's rows.         *)
(***************************************************************************)
EXTENDS Events

\* A row of the target: the image, the record key it came under, the position
\* and kind of its last change, and the batch that wrote it last.
StoredRows ==
  [val : Values \cup {Absent}, key : Keys, lsn : Nat, deleted : BOOLEAN, batch : Nat]

Targets == [Rows -> StoredRows \cup {Absent}]

\* A row that is not there is told from every row that is.
ASSUME MergeAssumption == Absent \notin StoredRows

EmptyTarget == [r \in Rows |-> Absent]

Live(target) ==
  [r \in Rows |-> IF target[r] = Absent \/ target[r].deleted THEN Absent ELSE target[r].val]

\* Change records of a batch that name a slot; the others are only counted.
Addressable(batch) ==
  {i \in DOMAIN batch : ~batch[i].tomb /\ Slot(batch[i]) # Absent}

\* Mutant: the last delivery wins.
LastDeliveryWins(batch, j, i) == j > i

\* Highest position wins, and at one position the later delivery.
Supersedes(batch, j, i) ==
  \/ batch[j].lsn > batch[i].lsn
  \/ batch[j].lsn = batch[i].lsn /\ j > i

\* reduce_batch: at most one change per slot, the one no other supersedes.
Reduce(batch) ==
  {batch[i] : i \in {i \in Addressable(batch) :
     \A j \in Addressable(batch) :
       Slot(batch[j]) = Slot(batch[i]) => ~Supersedes(batch, j, i)}}

\* reduce_batch: the highest tombstone position of each record key in the batch.
Tombstones(batch) ==
  LET tombs == {i \in DOMAIN batch : batch[i].tomb}
      Lsns(k) == {batch[i].lsn : i \in {j \in tombs : batch[j].key = k}}
  IN  [k \in {batch[i].key : i \in tombs} |->
         CHOOSE n \in Lsns(k) : \A m \in Lsns(k) : m <= n]

Stored(e, n) ==
  [val |-> e.val, key |-> e.key, lsn |-> e.lsn, deleted |-> e.op = "d", batch |-> n]

\* Mutant: every matched row is overwritten.
MatchedAlways(e, held, guard) == TRUE

\* Whether merge_sql writes the staged change e over what the row holds.
Matched(e, held, guard) == guard => e.lsn > held.lsn

\* Mutant: a delete takes the row out of the table.
MergeHardDeletes(target, stage, n, guard) ==
  [r \in Rows |->
     LET staged == {e \in stage : e.row = r /\ (target[r] = Absent \/ Matched(e, target[r], guard))}
     IN  IF staged = {} THEN target[r]
         ELSE IF \E e \in staged : e.op = "d" THEN Absent
         ELSE Stored(CHOOSE e \in staged : TRUE, n)]

\* merge_sql: the stage joins the target on the primary key.
MergeInto(target, stage, n, guard) ==
  [r \in Rows |->
     IF \E e \in stage : e.row = r /\ (target[r] = Absent \/ Matched(e, target[r], guard))
     THEN Stored(CHOOSE e \in stage : e.row = r, n)
     ELSE target[r]]

\* Mutant: the position comparison is missing.
EntombedAtAnyPosition(row, tombs) == row.key \in DOMAIN tombs /\ ~row.deleted

\* Whether tombstone_sql's where clause holds of a row.
Entombed(row, tombs) ==
  row.key \in DOMAIN tombs /\ row.lsn <= tombs[row.key] /\ ~row.deleted

\* The row marked deleted.  Its position stays its own.
Entomb(row, n) == [row EXCEPT !.deleted = TRUE, !.batch = n]

\* tombstone_sql, for every key of the batch.
EntombIn(target, tombs, n) ==
  [r \in DOMAIN target |->
     IF target[r] # Absent /\ Entombed(target[r], tombs)
     THEN Entomb(target[r], n)
     ELSE target[r]]

\* One batch, start to finish.
ApplyTo(target, batch, n, guard, onTombstone) ==
  LET merged == MergeInto(target, Reduce(batch), n, guard)
  IN  IF onTombstone = "delete" THEN EntombIn(merged, Tombstones(batch), n) ELSE merged

\* A delivery order cut into batches of at most `size' records.
Batches(order, size) ==
  LET n == (Len(order) + size - 1) \div size
      End(i) == IF i * size <= Len(order) THEN i * size ELSE Len(order)
  IN  [i \in 1..n |-> SubSeq(order, (i - 1) * size + 1, End(i))]

\* The table after each of the batches once, in order, on an empty table.
CleanRun(batches, guard, onTombstone) ==
  LET run[n \in 0..Len(batches)] ==
        IF n = 0 THEN EmptyTarget
        ELSE ApplyTo(run[n - 1], batches[n], n, guard, onTombstone)
  IN  run

=============================================================================
