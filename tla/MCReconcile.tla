------------------------------ MODULE MCReconcile ------------------------------
(* Instances of Reconcile: two rows of one table and one of another. *)
EXTENDS Reconcile

CONSTANTS r1, r2, r3, v1, v2

RowKey == [r \in Rows |-> r]
RowKeys == Rows
RowPartition == [k \in Rows |-> IF k = r1 THEN 0 ELSE 1]

TwoTables == [r \in Rows |-> IF r = r3 THEN "customer" ELSE "order_item"]
OneTable == [r \in Rows |-> "order_item"]

\* A big quiet part of a table beside single keys; and single keys only.
Lopsided == [r \in Rows |-> IF r = r1 THEN 20000 ELSE 1]
Uneven == [r \in Rows |-> IF r = r1 THEN 7 ELSE 1]

=============================================================================
