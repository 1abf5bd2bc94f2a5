SPECIFICATION RecoverySpec
CONSTANTS
  r1 = r1
  r2 = r2
  v1 = v1
  v2 = v2
  Absent = Absent
  Rows = {r1, r2}
  Values = {v1}
  KeyOf <- RowKey
  Keys <- RowKeys
  PartitionOf <- RowPartition
  MergeByRecordKey = FALSE
  NarrowRows = {}
  MaxLog = 3
  Ties = FALSE
  Guard = TRUE
  OnTombstone = "delete"
  Consumers = {"cdc", "other"}
  Ledger = "cdc"
  MaxBatch = 2
  MaxCrashes = 2
  Strategies = {"ledger"}
  Redrains = FALSE
  DriveAs = {"cdc"}
CHECK_DEADLOCK FALSE
INVARIANTS RecoveryTypeOK LedgerIsACheckpoint
PROPERTIES AppliesEachBatchOnce EventuallyInTheWarehouse
