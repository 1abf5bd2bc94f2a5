------------------------------ MODULE MCPipeline ------------------------------
(* Instances of Pipeline: two rows, each its own key, on two partitions. *)
EXTENDS Pipeline

CONSTANTS r1, r2, v1, v2

RowKey == [r \in Rows |-> r]
RowKeys == Rows
RowPartition == [k \in Rows |-> IF k = r1 THEN 0 ELSE 1]

=============================================================================
