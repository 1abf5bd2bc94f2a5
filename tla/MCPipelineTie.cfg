SPECIFICATION PipelineSpec
CONSTANTS
  r1 = r1
  r2 = r2
  v1 = v1
  v2 = v2
  Absent = Absent
  Rows = {r1, r2}
  Values = {v1, v2}
  KeyOf <- RowKey
  Keys <- RowKeys
  PartitionOf <- RowPartition
  MergeByRecordKey = FALSE
  NarrowRows = {}
  MaxLog = 3
  Ties = TRUE
  Guard = TRUE
  OnTombstone = "delete"
  Order = "interleave"
  Consumers = {"cdc"}
  Ledger = "cdc"
  MaxBatch = 2
CHECK_DEADLOCK FALSE
INVARIANTS AgreesWithTheConsumer
