CHECK_DEADLOCK FALSE
SPECIFICATION Spec
CONSTANTS MaxUpdates = 3
          MaxBatch = 1
          MaxFaults = 1
          MaxSnapshots = 2
PROPERTY RecoveryEnds
