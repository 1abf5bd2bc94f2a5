SPECIFICATION Spec
CONSTANTS
  r1 = r1
  r2 = r2
  r3 = r3
  v1 = v1
  v2 = v2
  Absent = Absent
  Rows = {r1, r2}
  Values = {v1, v2}
  KeyOf <- RowKey
  Keys <- RowKeys
  PartitionOf <- RowPartition
  MergeByRecordKey = FALSE
  NarrowRows = {r1}
  MaxLog = 4
  Ties = TRUE
  Guard = TRUE
  OnTombstone = "delete"
  Order = "interleave"
CHECK_DEADLOCK FALSE
INVARIANTS TypeOK LatestWins TargetMatchesSource GuardNeverFires TombstoneOnlyRescues
PROPERTIES EventuallyMirrored
