\* The process may end and the engine stops pushing.
CHECK_DEADLOCK FALSE
SPECIFICATION Spec
CONSTANTS Size = 4
          MaxBacklog = 3
          MaxWrites = 9
          BufferRecords = 5
INVARIANTS StreamIsNumbered SnapshotSeesTheStream StopLeavesNothingBehind
PROPERTY EveryUpdateIsSent
