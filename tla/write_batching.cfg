SPECIFICATION BatchingSpec
CONSTANTS
  Object = {"o1", "o2"}
  Field = {"f1", "f2"}
  Priority = {1, 2}
  MaxTrackedObjects = 1
  MaxMarks = 4
  Table = {"t1", "t2"}
  MaxPendingWrites = 2
  MaxCoalescedWrites = 2
  MaxWrites = 3
  DbRow = {"r1"}
  MaxSize = 2
  MaxQueued = 3
  MaxConcurrent = 2
  BatchSize = 2
  MaxQueueSize = 2
  MaxRetries = 1
  MaxItems = 2
  MaxTimeouts = 1
INVARIANTS
  ClassesTypeOK
  ChangedIsDirty
  NothingForgotten
  ToldIsDone
  NewestStored
  WrittenInOrder
  ClosedIsSettled
PROPERTY EventuallyAnswered
CHECK_DEADLOCK FALSE
