SPECIFICATION ReconcileSpec
CONSTANTS
  r1 = r1
  r2 = r2
  r3 = r3
  v1 = v1
  v2 = v2
  Absent = Absent
  Rows = {r1, r2, r3}
  Values = {v1, v2}
  KeyOf <- RowKey
  Keys <- RowKeys
  PartitionOf <- RowPartition
  MergeByRecordKey = FALSE
  NarrowRows = {}
  MaxLog = 3
  Ties = FALSE
  Guard = TRUE
  OnTombstone = "ignore"
  Order = "interleave"
  Consumers = {"cdc"}
  Ledger = "cdc"
  MaxBatch = 2
  TableOf <- TwoTables
  Weight <- Uneven
CHECK_DEADLOCK FALSE
INVARIANTS DriftIsNotLag CleanMeansEqual QuietReportIsExact CoveragesAgree
