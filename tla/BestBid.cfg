CHECK_DEADLOCK FALSE
SPECIFICATION Spec
CONSTANTS Client = {c1}
          ClientOrderId = {i1, i2, i3}
          BuyPrice = {8, 9, 10}
          SellPrice = {20}
          Quantity = {1}
          MaxPriceLevels = 16
          MaxOrderIds = 16
          QtyModulus = 1000
          MaxOrders = 3
INVARIANT BestBid
