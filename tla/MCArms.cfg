SPECIFICATION ArmsSpec
CONSTANTS
  r1 = r1
  r2 = r2
  v1 = v1
  v2 = v2
  Absent = Absent
  Rows = {r1, r2}
  Values = {v1, v2}
  KeyOf <- RowKey
  Keys <- RowKeys
  PartitionOf <- RowPartition
  MergeByRecordKey = FALSE
  NarrowRows = {}
  MaxLog = 4
  Ties = FALSE
  Guard = TRUE
  OnTombstone = "delete"
  Order = "shuffle"
  Consumers = {"cdc"}
  Ledger = "cdc"
  MaxBatch = 3
CHECK_DEADLOCK FALSE
SYMMETRY ValueSymmetry
INVARIANTS ArmsTypeOK AgreesWithTheConsumer PositionsAgree WarehouseMatchesSource OrderNeedsNeither HardDeleteOnlyResurrects VersionedIsHistory UnreducedIsSilentlyBehind
PROPERTIES MarkNeverGoesBack
