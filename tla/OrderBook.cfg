\* The process may end, and MaxOrders orders are all there are.
CHECK_DEADLOCK FALSE
SPECIFICATION Spec
SYMMETRY Clients
VIEW Relevant
ACTION_CONSTRAINT Bounded
CONSTANTS Client = {c1, c2}
          ClientOrderId = {i1}
          BuyPrice = {9, 10, 11, 12}
          SellPrice = {10, 15}
          Quantity = {1, 2}
          MaxPriceLevels = 5
          MaxOrderIds = 5
          QtyModulus = 1000
          MaxOrders = 5
INVARIANTS TypeOK LevelsSorted QueuesInTimeOrder ClientIndexSound
           CrashOnlyIfMislinked CancelAlwaysWorks
PROPERTIES ClientIndexKept LoopsAdvance ActsAsPriceTimeBook UpdatesTellTheBook BothHearOfTheTrade
