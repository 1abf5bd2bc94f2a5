SPECIFICATION Spec
CONSTANTS
  MaxSteps = 4
  MaxDimension = 1
CHECK_DEADLOCK FALSE
INVARIANTS WorkloadTypeOK NothingSkipped PoolIsTheDatabase
PROPERTIES InsertsAddRows
