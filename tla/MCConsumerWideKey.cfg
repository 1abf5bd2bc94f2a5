SPECIFICATION Spec
CONSTANTS
  r1 = r1
  r2 = r2
  r3 = r3
  v1 = v1
  v2 = v2
  Absent = Absent
  Rows = {r1, r2, r3}
  Values = {v1}
  KeyOf <- WideKey
  Keys <- WideKeys
  PartitionOf <- WidePartition
  MergeByRecordKey = FALSE
  NarrowRows = {}
  MaxLog = 5
  Ties = TRUE
  Guard = TRUE
  OnTombstone = "delete"
  Order = "interleave"
CHECK_DEADLOCK FALSE
INVARIANTS CompactionKeepsOneRowPerKey IndexExact OnlySiblingTombstonesLoseRows
