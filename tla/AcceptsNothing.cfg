CHECK_DEADLOCK FALSE
SPECIFICATION FairSpec
CONSTANTS k1 = k1
          k2 = k2
          NoSocket = NoSocket
          Listener = Listener
          Registered <- NoneRegistered
          Client = {c1}
          Conn = {k1, k2}
          MaxRequests = 1
          MaxSeq = 1
          MaxTrades = 1
          MaxPending = 1
PROPERTY EveryConnectionIsAccepted
