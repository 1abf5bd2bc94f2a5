------------------------------ MODULE MCConsumer ------------------------------
(* Instances of Consumer: two or three rows, keyed by row or sharing a key. *)
EXTENDS Consumer, TLC

CONSTANTS r1, r2, r3, v1, v2

\* The default key: one record key per row, two partitions.
RowKey == [r \in Rows |-> r]
RowKeys == Rows
RowPartition == [k \in Rows |-> IF k = r1 THEN 0 ELSE 1]

\* The widened key: r1 and r2 are lines of one order, r3 of another.
WideKey == [r \in Rows |-> IF r = r3 THEN "o2" ELSE "o1"]
WideKeys == {"o1", "o2"}
WidePartition == [k \in WideKeys |-> IF k = "o1" THEN 0 ELSE 1]

ValueSymmetry == Permutations(Values)

=============================================================================
