\* The consumer may be stopped when nothing is left to send.
CHECK_DEADLOCK FALSE
SPECIFICATION Spec
CONSTANTS MaxUpdates = 4
          MaxBatch = 2
          MaxFaults = 2
          MaxSnapshots = 2
INVARIANTS FollowsTheStream NothingThrownAway
PROPERTY ReliableMeansDelivered
