\* The process ends on a failing ASSERT or FATAL.
CHECK_DEADLOCK FALSE
SPECIFICATION Spec
CONSTANTS k1 = k1
          k2 = k2
          NoSocket = NoSocket
          Listener = Listener
          Registered <- OneRegistered
          Client = {c1, c2}
          Conn = {k1, k2}
          MaxRequests = 3
          MaxSeq = 2
          MaxTrades = 1
          MaxPending = 2
SYMMETRY Names
VIEW Relevant
ACTION_CONSTRAINT WhenLookedAt
INVARIANTS TypeOK PublishedInSeqOrder SessionBinding NothingPendingAcrossPasses
           ResponseHasSocket RepliesInOrder
