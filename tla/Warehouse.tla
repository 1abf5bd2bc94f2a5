------------------------------- MODULE Warehouse -------------------------------
(***************************************************************************)
(* One batch applied to the warehouse in one transaction, statement by     *)
(* statement, with the ledger written inside it and the process dying at   *)
(* any of the points merge.py names (warehouse/merge.py, apply_batch).     *)
(*                                                                         *)
(* `db' is the committed database.  `tx' is what the open transaction sees *)
(* of it: a commit makes it the database, a rollback forgets it.           *)
(***************************************************************************)
EXTENDS Merge

CONSTANTS
  Consumers,    \* names the ledger keeps a row for
  Ledger        \* the name apply_batch writes under: its default, "cdc"

ASSUME WarehouseAssumption == Ledger \in Consumers

VARIABLES
  db,      \* [target, stage, ledger]: rows, staging table, last batch per consumer
  tx,      \* the same three inside the open transaction, <<>> when none is open
  pc,      \* where apply_batch is: "idle", a failure point, or "down"
  batch,   \* the records of the batch being applied
  number   \* its batch id

warehouseVars == <<db, tx, pc, batch, number>>

FailurePoints == {"staged", "merged", "tombstoned"}

\* create(): empty tables.  No ledger row reads as batch 0 (resume_point).
WarehouseInit ==
  /\ db = [target |-> EmptyTarget, stage |-> {}, ledger |-> [c \in Consumers |-> 0]]
  /\ tx = <<>>
  /\ pc = "idle"
  /\ batch = <<>>
  /\ number = 0

\* The batch is reduced, the transaction opened, the stage emptied and filled.
Stage(b, n) ==
  /\ pc = "idle"
  /\ tx' = [db EXCEPT !.stage = Reduce(b)]
  /\ pc' = "staged"
  /\ batch' = b
  /\ number' = n
  /\ UNCHANGED db

\* Mutant: the merge runs outside the transaction.
MergeAutocommits ==
  /\ pc = "staged"
  /\ tx' = [tx EXCEPT !.target = MergeInto(@, tx.stage, number, Guard)]
  /\ db' = [db EXCEPT !.target = MergeInto(@, tx.stage, number, Guard)]
  /\ pc' = "merged"
  /\ UNCHANGED <<batch, number>>

MergeStage ==
  /\ pc = "staged"
  /\ tx' = [tx EXCEPT !.target = MergeInto(@, tx.stage, number, Guard)]
  /\ pc' = "merged"
  /\ UNCHANGED <<db, batch, number>>

SoftDelete ==
  /\ pc = "merged"
  /\ tx' = IF OnTombstone = "delete"
           THEN [tx EXCEPT !.target = EntombIn(@, Tombstones(batch), number)]
           ELSE tx
  /\ pc' = "tombstoned"
  /\ UNCHANGED <<db, batch, number>>

\* record_batch_sql: the ledger's row of the consumer is inserted or overwritten.
Recorded(tables, n) == [tables EXCEPT !.ledger[Ledger] = n]

\* Mutant: the transaction stays open.
CommitStaysOpen ==
  /\ pc = "tombstoned"
  /\ db' = Recorded(tx, number)
  /\ pc' = "idle"
  /\ batch' = <<>>
  /\ UNCHANGED <<tx, number>>

RecordAndCommit ==
  /\ pc = "tombstoned"
  /\ db' = Recorded(tx, number)
  /\ tx' = <<>>
  /\ pc' = "idle"
  /\ batch' = <<>>
  /\ UNCHANGED number

\* Mutants: a death commits what was done; a death leaves the transaction open.
DieCommitting ==
  /\ pc \in FailurePoints
  /\ db' = tx /\ tx' = <<>>
  /\ pc' = "down"
  /\ batch' = <<>>
  /\ UNCHANGED number

DieWithoutRollback ==
  /\ pc \in FailurePoints
  /\ pc' = "down"
  /\ batch' = <<>>
  /\ UNCHANGED <<db, tx, number>>

\* Crash raised inside the transaction: rolled back, and the process is gone.
Die ==
  /\ pc \in FailurePoints
  /\ tx' = <<>>
  /\ pc' = "down"
  /\ batch' = <<>>
  /\ UNCHANGED <<db, number>>

Statement == MergeStage \/ SoftDelete

LastBatch(c) == db.ledger[c]

Databases ==
  [target : Targets,
   stage : SUBSET Records,
   ledger : [Consumers -> Nat]]

WarehouseTypeOK ==
  /\ db \in Databases
  /\ pc \in {"idle", "down"} \cup FailurePoints
  /\ IF pc \in FailurePoints THEN tx \in Databases ELSE tx = <<>>
  /\ batch \in Seq(Records)
  /\ number \in Nat

=============================================================================
