\* The process may end or be stopped.
CHECK_DEADLOCK FALSE
SPECIFICATION Spec
ACTION_CONSTRAINT WhenLookedAt
CONSTANTS Ticker = {0, 1}
          Side = {"BUY"}
          Price = {10}
          Quantity = {3}
          MaxOrderIds = 3
          MaxUpdates = 4
INVARIANTS SnapshotIsTheBook ExitNeedsCause
PROPERTY EveryUpdateInASnapshot
