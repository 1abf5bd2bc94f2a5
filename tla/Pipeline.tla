------------------------------- MODULE Pipeline -------------------------------
(***************************************************************************)
(* The two implementations of one rule, side by side: every record drained *)
(* off the topic goes to the in-memory consumer and into the batch the     *)
(* warehouse applies next (scripts/merge_probe.py compares the same two).  *)
(***************************************************************************)
EXTENDS Consumer, Warehouse

CONSTANT MaxBatch   \* the largest batch size tried

ASSUME PipelineAssumption ==
  /\ MaxBatch \in Nat \ {0}
  /\ NarrowRows = {} \/ ~MergeByRecordKey

VARIABLES
  buffer,    \* records drained and not yet in a batch
  size,      \* the batch size of this run
  delivery   \* the delivery order of this run, as in Order

pipelineVars == <<vars, warehouseVars, buffer, size, delivery>>

\* The orders one change stream is delivered in: an instance that shuffles
\* also interleaves.
Deliveries == {Order, "interleave"}

PipelineInit ==
  /\ Init
  /\ WarehouseInit
  /\ buffer = <<>>
  /\ size \in 1..MaxBatch
  /\ delivery \in Deliveries

\* The stream is read once the workload is over.
Commits ==
  /\ delivered = {}
  /\ Produce
  /\ UNCHANGED <<warehouseVars, buffer, size, delivery>>

BatchFull == Len(buffer) = size \/ (buffer # <<>> /\ Drained)

Poll ==
  /\ pc = "idle" /\ ~BatchFull
  /\ \E e \in Stream(log) :
       /\ delivery = "interleave" => InPartitionOrder(e, log, delivered)
       /\ Deliver(e)
       /\ buffer' = Append(buffer, e)
  /\ UNCHANGED <<sourceVars, warehouseVars, size, delivery>>

\* merge.batches: the next slice of at most `size' records.
StartBatch ==
  /\ BatchFull
  /\ Stage(buffer, number + 1)
  /\ buffer' = <<>>
  /\ UNCHANGED <<vars, size, delivery>>

RunStatement == Statement /\ UNCHANGED <<vars, buffer, size, delivery>>

FinishBatch == RecordAndCommit /\ UNCHANGED <<vars, buffer, size, delivery>>

PipelineNext == Commits \/ Poll \/ StartBatch \/ RunStatement \/ FinishBatch

PipelineSpec == PipelineInit /\ [][PipelineNext]_pipelineVars

-----------------------------------------------------------------------------
(* Properties.                                                              *)

PipelineTypeOK ==
  /\ TypeOK /\ WarehouseTypeOK
  /\ buffer \in Seq(Records)
  /\ size \in 1..MaxBatch
  /\ delivery \in Deliveries

\* Nothing is on its way: the warehouse has committed all that was delivered.
Settled == pc = "idle" /\ buffer = <<>>

\* After every batch the live rows are the in-memory consumer's rows, wherever
\* the batch boundaries fell and in whatever order the records came: the
\* reduction and the merge's guard together are apply_events.  One disagreement
\* is left, and a partition's order rules it out: tombstones run last in a batch,
\* so one that overtook its own delete already hides a row changed before it.
AgreesWithTheConsumer ==
  Settled => \A r \in Rows :
    Live(db.target)[r] # rows[SlotOf(r)] =>
      /\ Live(db.target)[r] = Absent
      /\ \E e \in delivered :
           /\ e.tomb /\ e.key = KeyOf[r] /\ e.lsn > watermark[SlotOf(r)]
           /\ ChangeRecord(e.at, log[e.at]) \notin delivered

\* A soft-deleted row holds its position: the table's positions are the
\* consumer's watermarks, of live and deleted rows alike.
PositionsAgree ==
  Settled => \A r \in Rows :
    watermark[SlotOf(r)] = IF db.target[r] = Absent THEN 0 ELSE db.target[r].lsn

\* The warehouse of a finished run is the source table.
WarehouseMatchesSource ==
  Settled /\ Drained => Live(db.target) = table

=============================================================================
