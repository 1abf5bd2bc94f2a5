SPECIFICATION CaptureSpec
CONSTANTS
  Absent = Absent
  None = None
  Raised = Raised
  Rows <- AllRows
  Values <- AllValues
  KeyOf <- PrimaryKeyOf
  Keys <- PrimaryKeyBytes
  PartitionOf <- Hashed
  MergeByRecordKey = FALSE
  NarrowRows = {}
  MaxLog = 2
  Ties = FALSE
  Guard = TRUE
  OnTombstone = "delete"
  ColumnOf <- Columns
  NameBytes <- Names
  Partitions = 6
  Odd <- Markers
  JavaRouting <- JavaVectors
CHECK_DEADLOCK FALSE
INVARIANTS MeasuredWhereRecordsLand
