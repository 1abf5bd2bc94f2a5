------------------------------ MODULE MCRecovery ------------------------------
(* Instances of Recovery: two rows, each its own key, on two partitions. *)
EXTENDS Recovery, TLC

CONSTANTS r1, r2, v1, v2

RowKey == [r \in Rows |-> r]
RowKeys == Rows
RowPartition == [k \in Rows |-> IF k = r1 THEN 0 ELSE 1]

\* The rows differ in nothing: each is alone under its key and on its partition.
RowSymmetry == Permutations(Rows)

=============================================================================
