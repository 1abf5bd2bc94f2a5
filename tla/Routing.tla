-------------------------------- MODULE Routing --------------------------------
(***************************************************************************)
(* Where the records of Capture land: their keys hashed by Topics, beside  *)
(* what the layout probe measures of the rows                              *)
(* (scripts/topic_layout_probe.py, arm_key_split).                         *)
(***************************************************************************)
EXTENDS Capture, Topics

CONSTANTS
  JavaRouting  \* the partition the Java client has for the key of each row

\* The order lines left, which are what arm_key_split reads (SELECT order_id, line_no
\* FROM order_item).
ItemsIn == {r \in Rows : TableOf(r) = "order_item" /\ table[r] # Absent}

\* The partition a number-valued key has.
PartitionOfNumbers(r) == partition_for(key_json(r, PrimaryKeys[TableOf(r)], FALSE))

\* arm_key_split: the partition of each order line left, its key columns numbers, as
\* the database has them.
Measured == [r \in ItemsIn |-> PartitionOfNumbers(r)]

-----------------------------------------------------------------------------
(* Properties.                                                              *)

\* The port of the partitioner puts a key where the Java client puts it (the vectors
\* of tests/test_topics.py); so the lines of an order are spread as the client would
\* spread them, and not at all when the key is the order.
RoutedLikeTheJavaClient ==
  LET spread == split_rate(ItemsIn, PrimaryKeys["order_item"], "order_id", FALSE)
  IN  /\ \A i \in DOMAIN log : PartitionOfNumbers(log[i].row) = JavaRouting[log[i].row]
      /\ spread.split =
           Cardinality({r.order_id : r \in {r \in ItemsIn : \E q \in ItemsIn :
                          q.order_id = r.order_id /\ JavaRouting[q] # JavaRouting[r]}})
      /\ split_rate(ItemsIn, <<"order_id">>, "order_id", FALSE).split = 0

\* "Where the real order_item rows land, given the key Debezium builds by default"
\* (topic_layout_probe.py, arm_key_split): each order line it measures is measured
\* on the partition its records are put on.
MeasuredWhereRecordsLand ==
  \A i \in {i \in DOMAIN log : log[i].row \in DOMAIN Measured} :
    \A e \in Published(i, PrimaryKeys) : partition_for(e.key.json) = Measured[log[i].row]

=============================================================================
