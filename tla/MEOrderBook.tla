---------------------------- MODULE MEOrderBook ----------------------------
(***************************************************************************)
(* Exchange::MEOrderBook (src/exchange/matcher/me_order_book.{h,cpp}): the *)
(* order book of one ticker, as the engine's thread runs it, pointer by    *)
(* pointer.                                                                *)
(*                                                                         *)
(* A side of the book is a circular doubly linked list of price levels,    *)
(* entered at bids_by_price_ or asks_by_price_; a level is a circular      *)
(* doubly linked list of orders, entered at first_me_order_.  Two hash     *)
(* maps lead to a level from a price and to an order from its client.      *)
(*                                                                         *)
(* Pointers are numbers, Null is 0.  An order is named by its              *)
(* market_order_id_; a level by the order it was created for.  Both pools  *)
(* keep a returned block as it was, and round robin reuse (MemPool) comes  *)
(* back to it only after as many allocations as the pool has free blocks:  *)
(* a stale pointer reads the old object, whose `live' is FALSE.  Without a *)
(* misplaced level nothing reads a returned block; past one, what is said  *)
(* here is said of the allocations up to the first reuse of a block (of a  *)
(* level block that may be within the 256 of the pool).                    *)
(* A null dereference and a failing ASSERT end the process: pc "crashed";  *)
(* a request that is neither NEW nor CANCEL does too: pc "fatal".          *)
(*                                                                         *)
(* add() is cut at its loops: Add (up to the call of checkForMatch), one   *)
(* Match per call of match(), Filled or a resting step at the end, one     *)
(* Walk per iteration of the search for the place of a new level.          *)
(***************************************************************************)
EXTENDS Integers, Sequences, FiniteSets

CONSTANTS Client, ClientOrderId,    \* who asks, and how they name their orders
          BuyPrice, SellPrice,      \* prices clients ask for
          Quantity,                 \* quantities clients ask for
          MaxPriceLevels,           \* ME_MAX_PRICE_LEVELS: price map and level pool
          MaxOrderIds,              \* ME_MAX_ORDER_IDS: order pool
          QtyModulus,               \* 2^32, the range of the type Qty
          MaxOrders                 \* bound on the orders ever added

ASSUME PriceAssumption == BuyPrice \subseteq Int /\ SellPrice \subseteq Int
ASSUME QuantityAssumption == Quantity \subseteq Nat \ {0}
ASSUME SizeAssumption == /\ MaxPriceLevels \in Nat \ {0} /\ MaxOrderIds \in Nat \ {0}
                         /\ QtyModulus \in Nat \ {0} /\ MaxOrders \in Nat

VARIABLES orders,                   \* order_pool_
          levels,                   \* orders_at_price_pool_
          cid_oid_to_order,         \* cid_oid_to_order_
          price_orders_at_price,    \* price_orders_at_price_
          bids_by_price,            \* bids_by_price_
          asks_by_price,            \* asks_by_price_
          next_market_order_id,     \* next_market_order_id_
          pc,                       \* where the engine's thread is
          taker,                    \* arguments of the add() in progress, leaves_qty
          target,                   \* addOrdersAtPrice: target
          add_after,                \* addOrdersAtPrice: add_after
          responses,                \* client responses sent by the last step
          updates,                  \* market updates sent by the last step
          mislinked                 \* history: a level or an order went to a wrong place

lists == <<levels, price_orders_at_price, bids_by_price, asks_by_price>>
book == <<orders, cid_oid_to_order, lists>>
walk == <<target, add_after>>
sent == <<responses, updates>>
vars == <<book, next_market_order_id, pc, taker, walk, sent, mislinked>>

Null == 0
Id == 1 .. MaxOrders
Side == {"BUY", "SELL"}
PriceIndex == 0 .. MaxPriceLevels - 1

NoOrder == [client |-> Null, coid |-> Null, side |-> "BUY", price |-> 0, qty |-> 0,
            priority |-> 0, prev |-> Null, next |-> Null, live |-> FALSE]
NoLevel == [side |-> "BUY", price |-> 0, first |-> Null, prev |-> Null, next |-> Null,
            live |-> FALSE]
NoTaker == [id |-> Null, client |-> Null, coid |-> Null, side |-> "BUY", price |-> 0,
            leaves |-> 0]

----------------------------------------------------------------------------
(***************************************************************************)
(* Helpers of the class.                                                   *)
(***************************************************************************)

PriceToIndex(price) == price % MaxPriceLevels
GetOrdersAtPrice(price) == price_orders_at_price[PriceToIndex(price)]

BestOrdersByPrice(side) == IF side = "BUY" THEN bids_by_price ELSE asks_by_price

\* Worse that takes an equal price for a worse one.
WorseOrEqual(side, price, other) == \/ side = "SELL" /\ price >= other
                                    \/ side = "BUY" /\ price <= other

\* The test add_after is computed with; checkForMatch() stops on it as well.
Worse(side, price, other) == \/ side = "SELL" /\ price > other
                             \/ side = "BUY" /\ price < other
Better(side, price, other) == Worse(side, other, price)

\* The side whose best level a taker of this side is matched with, and its own.
OppositeSame(side) == side
Opposite(side) == IF side = "BUY" THEN "SELL" ELSE "BUY"

\* The entry of a side is changed, and a form that never changes one there is.
SetBestOfEmpty(side, level) ==
    IF side = "BUY"
    THEN bids_by_price' = (IF bids_by_price = Null THEN level ELSE bids_by_price) /\ UNCHANGED asks_by_price
    ELSE asks_by_price' = (IF asks_by_price = Null THEN level ELSE asks_by_price) /\ UNCHANGED bids_by_price
SetBest(side, level) ==
    IF side = "BUY" THEN bids_by_price' = level /\ UNCHANGED asks_by_price
                    ELSE asks_by_price' = level /\ UNCHANGED bids_by_price

LiveLevels == {l \in Id : levels[l].live}
LiveOrders == {o \in Id : orders[o].live}

\* A pool exits when it hands out its last block.
LevelPoolFull == Cardinality(LiveLevels) + 1 >= MaxPriceLevels
OrderPoolFull == Cardinality(LiveOrders) + 1 >= MaxOrderIds

\* getNextPriority of a level, and a form that reads its first order.
NextPriorityOfFirst(lvl) ==
    IF lvl = Null THEN 1 ELSE orders[levels[lvl].first].priority + 1
NextPriority(lvl) ==
    IF lvl = Null THEN 1 ELSE orders[orders[levels[lvl].first].prev].priority + 1

\* The quantity of a fill, and a form that forgets the taker's limit.
FillQtyOfOrder(orderQty, leaves) == orderQty
FillQty(orderQty, leaves) == IF orderQty < leaves THEN orderQty ELSE leaves

\* The hash maps with an entry changed, and forms that leave the old one of a
\* client.
RememberNot(c, i, o) == cid_oid_to_order
Remember(c, i, o) == [cid_oid_to_order EXCEPT ![<<c, i>>] = o]
ForgetNot(c, i) == cid_oid_to_order
Forget(c, i) == [cid_oid_to_order EXCEPT ![<<c, i>>] = Null]
ForgetLevel(price) == [price_orders_at_price EXCEPT ![PriceToIndex(price)] = Null]

----------------------------------------------------------------------------
(***************************************************************************)
(* Messages.                                                               *)
(***************************************************************************)

Response(type, client, coid, id, side, price, exec, leaves) ==
    [type |-> type, client |-> client, coid |-> coid, id |-> id, side |-> side,
     price |-> price, exec |-> exec, leaves |-> leaves]

Update(type, id, side, price, qty, priority) ==
    [type |-> type, id |-> id, side |-> side, price |-> price, qty |-> qty,
     priority |-> priority]

Invalid == -1      \* the _INVALID constants

\* What the market hears of a filled order, and a form that never cancels.
FillUpdateKeeps(o, left) ==
    Update("MODIFY", o, orders[o].side, orders[o].price, left, orders[o].priority)
FillUpdate(o, left) ==
    IF left = 0
    THEN Update("CANCEL", o, orders[o].side, orders[o].price, orders[o].qty, Invalid)
    ELSE Update("MODIFY", o, orders[o].side, orders[o].price, left, orders[o].priority)

----------------------------------------------------------------------------

\* The constructor initializes neither hash map.  A book is larger than two
\* gigabytes, which the allocator of this build always takes as fresh zero
\* pages from the kernel: null is the only value the maps can start with.
Init == /\ orders = [o \in Id |-> NoOrder]
        /\ levels = [l \in Id |-> NoLevel]
        /\ cid_oid_to_order = [k \in Client \X ClientOrderId |-> Null]
        /\ price_orders_at_price = [i \in PriceIndex |-> Null]
        /\ bids_by_price = Null /\ asks_by_price = Null
        /\ next_market_order_id = 1
        /\ pc = "idle" /\ taker = NoTaker
        /\ target = Null /\ add_after = FALSE
        /\ responses = <<>> /\ updates = <<>>
        /\ mislinked = FALSE

(***************************************************************************)
(* Removing an order, and its level with the last one.                     *)
(***************************************************************************)

\* removeOrdersAtPrice(side, price), a level there is.
RemoveOrdersAtPrice(side, price) ==
    LET lvl == GetOrdersAtPrice(price)
        level == levels[lvl]
        best == BestOrdersByPrice(side)
    IN  /\ IF level.next = lvl
           THEN /\ SetBest(side, Null)
                /\ levels' = [levels EXCEPT ![lvl].live = FALSE]
           ELSE /\ IF lvl = best THEN SetBest(side, level.next)
                                 ELSE UNCHANGED <<bids_by_price, asks_by_price>>
                /\ levels' = [levels EXCEPT ![level.prev].next = level.next,
                                            ![level.next].prev = level.prev,
                                            ![lvl].prev = Null, ![lvl].next = Null,
                                            ![lvl].live = FALSE]
        /\ price_orders_at_price' = ForgetLevel(price)

\* removeOrder(o) in the memory os: os is orders, with the last fill of o.
RemoveOrder(os, o) ==
    LET order == os[o]
        lvl == GetOrdersAtPrice(order.price)
    IN  /\ IF order.prev = o
           THEN /\ RemoveOrdersAtPrice(order.side, order.price)
                /\ orders' = [os EXCEPT ![o].live = FALSE]
           ELSE /\ levels' = [levels EXCEPT ![lvl].first = IF @ = o THEN order.next ELSE @]
                /\ orders' = [os EXCEPT ![order.prev].next = order.next,
                                        ![order.next].prev = order.prev,
                                        ![o].prev = Null, ![o].next = Null, ![o].live = FALSE]
                /\ UNCHANGED <<price_orders_at_price, bids_by_price, asks_by_price>>
        /\ cid_oid_to_order' = Forget(order.client, order.coid)

\* removeOrder(o) dereferences no null pointer and fails no ASSERT of a pool.
Removable(o) ==
    LET order == orders[o]
        lvl == GetOrdersAtPrice(order.price)
    IN  /\ order.live /\ lvl # Null
        /\ IF order.prev = o
           THEN /\ levels[lvl].live
                /\ levels[lvl].next # lvl => levels[lvl].prev # Null /\ levels[lvl].next # Null
           ELSE order.prev # Null /\ order.next # Null

(***************************************************************************)
(* add(): the request, then checkForMatch().                               *)
(***************************************************************************)

Add(c, i, side, price, qty) ==
    /\ pc = "idle" /\ next_market_order_id <= MaxOrders
    /\ next_market_order_id' = next_market_order_id + 1
    /\ taker' = [id |-> next_market_order_id, client |-> c, coid |-> i, side |-> side,
                 price |-> price, leaves |-> qty]
    /\ responses' = <<Response("ACCEPTED", c, i, next_market_order_id, side, price, 0, qty)>>
    /\ updates' = <<>>
    /\ pc' = "match"
    /\ UNCHANGED <<book, walk, mislinked>>

\* The first order of the best level of the other side, and the loop's test.
Touch == levels[BestOrdersByPrice(Opposite(taker.side))].first

\* Matchable whose loop does not look at what is left to fill.
MatchableFilled == /\ pc = "match"
                   /\ BestOrdersByPrice(Opposite(taker.side)) # Null
                   /\ ~Worse(taker.side, taker.price, orders[Touch].price)

Matchable == /\ pc = "match" /\ taker.leaves > 0
             /\ BestOrdersByPrice(Opposite(taker.side)) # Null
             /\ ~Worse(taker.side, taker.price, orders[Touch].price)

\* match(): the touched order fills the taker; both clients and the market
\* hear of it, and the order leaves the book when nothing is left of it.
\* checkForMatch() declares its new_market_order_id a Qty.
Match ==
    LET itr == Touch
        order == orders[itr]
        fill == FillQty(order.qty, taker.leaves)
        left == order.qty - fill
        os == [orders EXCEPT ![itr].qty = left]
        trade == Update("TRADE", Invalid, taker.side, order.price, fill, Invalid)
    IN  /\ Matchable
        /\ left = 0 => Removable(itr)
        /\ taker' = [taker EXCEPT !.leaves = @ - fill]
        /\ responses' =
             <<Response("FILLED", taker.client, taker.coid, taker.id % QtyModulus, taker.side,
                        order.price, fill, taker.leaves - fill),
               Response("FILLED", order.client, order.coid, itr, order.side,
                        order.price, fill, left)>>
        /\ updates' = <<trade, FillUpdate(itr, left)>>
        /\ IF left = 0 THEN RemoveOrder(os, itr)
           ELSE orders' = os /\ UNCHANGED <<cid_oid_to_order, lists>>
        /\ UNCHANGED <<next_market_order_id, pc, walk, mislinked>>

\* leaves_qty is zero: nothing rests.
Filled ==
    /\ pc = "match" /\ taker.leaves = 0
    /\ pc' = "idle" /\ taker' = NoTaker
    /\ responses' = <<>> /\ updates' = <<>>
    /\ UNCHANGED <<book, next_market_order_id, walk, mislinked>>

(***************************************************************************)
(* The end of add(): what is left rests.  getNextPriority(), allocate(),   *)
(* addOrder() with addOrdersAtPrice(), and the market update.              *)
(***************************************************************************)

Resting == pc = "match" /\ taker.leaves > 0 /\ ~Matchable

NewOrder(priority, prev, next) ==
    [client |-> taker.client, coid |-> taker.coid, side |-> taker.side, price |-> taker.price,
     qty |-> taker.leaves, priority |-> priority, prev |-> prev, next |-> next, live |-> TRUE]

\* addOrder()'s last statement and the ADD of add().
Rested(priority) ==
    /\ cid_oid_to_order' = Remember(taker.client, taker.coid, taker.id)
    /\ updates' = <<Update("ADD", taker.id, taker.side, taker.price, taker.leaves, priority)>>
    /\ responses' = <<>>
    /\ pc' = "idle" /\ taker' = NoTaker
    /\ target' = Null /\ add_after' = FALSE

\* The map has a level for the price, or for another that shares its index:
\* the order becomes its last.
JoinLevel ==
    LET lvl == GetOrdersAtPrice(taker.price)
        first == levels[lvl].first
        last == orders[first].prev
    IN  /\ Resting /\ ~OrderPoolFull /\ lvl # Null /\ last # Null
        /\ orders' = [orders EXCEPT ![last].next = taker.id, ![first].prev = taker.id,
                                    ![taker.id] = NewOrder(NextPriority(lvl), last, first)]
        /\ Rested(NextPriority(lvl))
        /\ mislinked' = (mislinked \/ levels[lvl].price # taker.price)
        /\ UNCHANGED <<lists, next_market_order_id>>

\* The price has no level: one is allocated, and its place is the head of an
\* empty list or has to be looked for.
NewLevel ==
    LET new == taker.id
        best == BestOrdersByPrice(taker.side)
        after == Worse(taker.side, taker.price, levels[best].price)
        second == levels[best].next
        level(l) == [side |-> taker.side, price |-> taker.price, first |-> new,
                     prev |-> l, next |-> l, live |-> TRUE]
    IN  /\ Resting /\ ~OrderPoolFull /\ GetOrdersAtPrice(taker.price) = Null
        /\ ~LevelPoolFull
        /\ orders' = [orders EXCEPT ![new] = NewOrder(1, new, new)]
        /\ price_orders_at_price' =
             [price_orders_at_price EXCEPT ![PriceToIndex(taker.price)] = new]
        /\ IF best = Null
           THEN /\ SetBest(taker.side, new)
                /\ levels' = [levels EXCEPT ![new] = level(new)]
                /\ Rested(1)
           ELSE /\ after => second # Null
                /\ levels' = [levels EXCEPT ![new] = level(Null)]
                /\ target' = IF after THEN second ELSE best
                /\ add_after' = (after /\ Worse(taker.side, taker.price, levels[second].price))
                /\ pc' = "walk"
                /\ responses' = <<>> /\ updates' = <<>>
                /\ UNCHANGED <<bids_by_price, asks_by_price, cid_oid_to_order, taker>>
        /\ UNCHANGED <<next_market_order_id, mislinked>>

\* The condition of the search's loop.
Searching == pc = "walk" /\ add_after /\ target # BestOrdersByPrice(taker.side)

\* One iteration of the search.
Walk ==
    LET after == Worse(taker.side, taker.price, levels[target].price)
    IN  /\ Searching /\ target # Null
        /\ add_after' = after
        /\ target' = IF after THEN levels[target].next ELSE target
        /\ UNCHANGED <<book, next_market_order_id, pc, taker, sent, mislinked>>

\* The search ended: the new level is linked in after the last level (which
\* the search went round to), or before the target, and may become the entry
\* of the book.  What is assigned then is bids_by_price_, on either side, and
\* the comparison is with the target, not with the best level.
LinkAfter(new, last) ==
    LET first == levels[last].next
    IN  levels' = [levels EXCEPT ![new].prev = last, ![first].prev = new,
                                 ![new].next = first, ![last].next = new]

LinkBefore(new, next) ==
    LET prev == levels[next].prev
        best == BestOrdersByPrice(taker.side)
        linked == [levels EXCEPT ![new].prev = prev, ![new].next = next,
                                 ![prev].next = new, ![next].prev = new]
    IN  IF Better(taker.side, taker.price, levels[next].price)
        THEN /\ levels' = [linked EXCEPT ![next].next = IF @ = best THEN new ELSE @]
             /\ bids_by_price' = new
             /\ mislinked' = (mislinked \/ taker.side = "SELL" \/ next # best)
             /\ UNCHANGED asks_by_price
        ELSE /\ levels' = linked
             /\ UNCHANGED <<bids_by_price, asks_by_price, mislinked>>

\* Splice that leaves the entry of the book where it was.
SpliceKeepBest ==
    /\ pc = "walk" /\ ~Searching
    /\ LET best == BestOrdersByPrice(taker.side)
           prev == levels[target].prev
       IN  IF add_after THEN LinkAfter(taker.id, levels[best].prev)
           ELSE levels' = [levels EXCEPT ![taker.id].prev = prev, ![taker.id].next = target,
                                         ![prev].next = taker.id, ![target].prev = taker.id]
    /\ Rested(orders[taker.id].priority)
    /\ UNCHANGED <<orders, price_orders_at_price, next_market_order_id,
                   bids_by_price, asks_by_price, mislinked>>

Splice ==
    /\ pc = "walk" /\ ~Searching
    /\ LET last == levels[BestOrdersByPrice(taker.side)].prev
       IN  IF add_after
           THEN /\ last # Null /\ levels[last].next # Null
                /\ LinkAfter(taker.id, last)
                /\ UNCHANGED <<bids_by_price, asks_by_price, mislinked>>
           ELSE /\ levels[target].prev # Null
                /\ LinkBefore(taker.id, target)
    /\ Rested(orders[taker.id].priority)
    /\ UNCHANGED <<orders, price_orders_at_price, next_market_order_id>>

(***************************************************************************)
(* cancel().  The order it finds can always be removed, see                *)
(* CancelAlwaysWorks: there is no crash to model here.                     *)
(***************************************************************************)

Cancel(c, i) ==
    LET o == cid_oid_to_order[<<c, i>>]
        order == orders[o]
    IN  /\ pc = "idle"
        /\ IF o = Null
           THEN /\ responses' = <<Response("CANCEL_REJECTED", c, i, Invalid, "INVALID",
                                           Invalid, Invalid, Invalid)>>
                /\ updates' = <<>>
                /\ UNCHANGED book
           ELSE /\ Removable(o)
                /\ responses' = <<Response("CANCELED", c, i, o, order.side, order.price,
                                           Invalid, order.qty)>>
                /\ updates' = <<Update("CANCEL", o, order.side, order.price, 0,
                                       order.priority)>>
                /\ RemoveOrder(orders, o)
        /\ UNCHANGED <<next_market_order_id, pc, taker, walk, mislinked>>

(***************************************************************************)
(* The process dies: a null pointer is dereferenced or an ASSERT fails in  *)
(* the step that is next.                                                  *)
(***************************************************************************)

MatchFails == /\ Matchable
              /\ FillQty(orders[Touch].qty, taker.leaves) = orders[Touch].qty
              /\ ~Removable(Touch)

RestFails ==
    LET lvl == GetOrdersAtPrice(taker.price)
        best == BestOrdersByPrice(taker.side)
    IN  /\ Resting
        /\ \/ OrderPoolFull
           \/ lvl # Null /\ orders[levels[lvl].first].prev = Null
           \/ lvl = Null /\ \/ LevelPoolFull
                            \/ /\ best # Null
                               /\ Worse(taker.side, taker.price, levels[best].price)
                               /\ levels[best].next = Null

WalkFails ==
    LET last == levels[BestOrdersByPrice(taker.side)].prev
    IN  \/ Searching /\ target = Null
        \/ /\ pc = "walk" /\ ~Searching
           /\ IF add_after THEN last = Null \/ levels[last].next = Null
                           ELSE levels[target].prev = Null

Exit == /\ pc' = "crashed"
        /\ UNCHANGED <<book, next_market_order_id, taker, walk, sent, mislinked>>

Crash == (MatchFails \/ RestFails \/ WalkFails) /\ Exit

----------------------------------------------------------------------------

\* A request of a type that is none ends the process.
InvalidRequest == /\ pc = "idle" /\ pc' = "fatal"
                  /\ responses' = <<>> /\ updates' = <<>>
                  /\ UNCHANGED <<book, next_market_order_id, taker, walk, mislinked>>

Request == \/ InvalidRequest
           \/ \E c \in Client, i \in ClientOrderId :
                 \/ \E p \in BuyPrice, q \in Quantity : Add(c, i, "BUY", p, q)
                 \/ \E p \in SellPrice, q \in Quantity : Add(c, i, "SELL", p, q)
                 \/ Cancel(c, i)

\* A handler that began, up to its return.
Handler == Match \/ Filled \/ JoinLevel \/ NewLevel \/ Walk \/ Splice \/ Crash

Next == Request \/ Handler

Spec == Init /\ [][Next]_vars

----------------------------------------------------------------------------
(***************************************************************************)
(* Properties.                                                             *)
(***************************************************************************)

Pointer == Id \cup {Null}

OrderRecord == [client : Client \cup {Null}, coid : ClientOrderId \cup {Null}, side : Side,
                price : Int, qty : Nat, priority : Nat, prev : Pointer, next : Pointer,
                live : BOOLEAN]
LevelRecord == [side : Side, price : Int, first : Pointer, prev : Pointer, next : Pointer,
                live : BOOLEAN]
TakerRecord == [id : Pointer, client : Client \cup {Null}, coid : ClientOrderId \cup {Null},
                side : Side, price : Int, leaves : Nat]

\* Every pointer is null or leads into its pool.
TypeOK == /\ orders \in [Id -> OrderRecord]
          /\ levels \in [Id -> LevelRecord]
          /\ cid_oid_to_order \in [Client \X ClientOrderId -> Pointer]
          /\ price_orders_at_price \in [PriceIndex -> Pointer]
          /\ bids_by_price \in Pointer /\ asks_by_price \in Pointer
          /\ next_market_order_id \in 1 .. MaxOrders + 1
          /\ pc \in {"idle", "match", "walk", "crashed", "fatal"}
          /\ taker \in TakerRecord
          /\ target \in Pointer /\ add_after \in BOOLEAN
          /\ mislinked \in BOOLEAN

LevelsOf(side) == {l \in LiveLevels : levels[l].side = side}
QueueOf(l) == {o \in LiveOrders : orders[o].side = levels[l].side /\ orders[o].price = levels[l].price}

\* l is a level of S with the best price.
IsBest(side, S, l) == /\ l \in S
                      /\ \A k \in S : ~Better(side, levels[k].price, levels[l].price)

EntryIsBest(side) == IF LevelsOf(side) = {} THEN BestOrdersByPrice(side) = Null
                     ELSE IsBest(side, LevelsOf(side), BestOrdersByPrice(side))

\* bids_by_price_ "points to highest price level for bids", between two requests.
BestBid == pc = "idle" => EntryIsBest("BUY")

\* As long as no level or order was put in a wrong place, reading a side from its
\* entry gives every level of the side once, best price first, in both
\* directions (what toString() verifies when the book is destroyed), and the
\* price map leads to each level and to nothing else.
LevelsSorted ==
    ~mislinked /\ pc \in {"idle", "match"} =>
    /\ \A side \in Side :
         /\ EntryIsBest(side)
         /\ \A l \in LevelsOf(side) :
              LET worse == {k \in LevelsOf(side) : Worse(side, levels[k].price, levels[l].price)}
              IN  /\ IsBest(side, IF worse = {} THEN LevelsOf(side) ELSE worse, levels[l].next)
                  /\ levels[levels[l].next].prev = l
    /\ \A l \in LiveLevels : GetOrdersAtPrice(levels[l].price) = l
    /\ \A x \in PriceIndex : price_orders_at_price[x] \in LiveLevels \cup {Null}

\* Under the same condition, the orders of a level hang together from
\* first_me_order_ in the order of their arrival, with rising priorities, and
\* every live order is in the list of the level of its price.
QueuesInTimeOrder ==
    ~mislinked /\ pc \in {"idle", "match"} =>
    /\ \A o \in LiveOrders : \E l \in LiveLevels : o \in QueueOf(l)
    /\ \A l \in LiveLevels :
         /\ levels[l].first \in QueueOf(l)
         /\ \A o \in QueueOf(l) :
              LET n == orders[o].next
              IN  /\ levels[l].first <= o
                  /\ n \in QueueOf(l) /\ orders[n].prev = o
                  /\ IF n = levels[l].first THEN \A k \in QueueOf(l) : k <= o
                     ELSE /\ o < n /\ orders[o].priority < orders[n].priority
                          /\ \A k \in QueueOf(l) : k <= o \/ k >= n

\* The map of a client's orders never leads to a returned order or to one
\* that is not the client's own, whatever has happened to the lists: a cancel
\* takes out the order it names and no other.
ClientIndexSound ==
    \A c \in Client, i \in ClientOrderId :
       LET o == cid_oid_to_order[<<c, i>>]
       IN  o # Null => orders[o].live /\ orders[o].client = c /\ orders[o].coid = i

\* A client can cancel an order from the moment it rests ("client order id to
\* identify order on client side"), and loses that only to another order it
\* gave the same name: one that comes to rest overwrites the entry, one that
\* leaves the book erases it.
SameName(o, p) == orders'[o].client = orders'[p].client /\ orders'[o].coid = orders'[p].coid
ClientIndexKept ==
    [][\A o \in Id : orders'[o].live =>
         LET name == <<orders'[o].client, orders'[o].coid>>
             rests == pc # "idle" /\ pc' = "idle"
         IN  cid_oid_to_order[name] = o \/ (rests /\ o = taker.id) =>
               \/ cid_oid_to_order'[name] = o
               \/ \E p \in Id \ {o} : /\ SameName(o, p)
                                       /\ \/ rests /\ p = taker.id
                                          \/ orders[p].live /\ ~orders'[p].live]_vars

\* A handler that began ends the process only after a level or an order was put
\* in a wrong place, or when the order that comes to rest takes the last block
\* of one of the two pools: in a well linked book no null pointer is met, and
\* no ASSERT of a pool fails but the one for its space.
CrashOnlyIfMislinked ==
    pc = "crashed" => mislinked \/ LevelPoolFull \/ OrderPoolFull

\* A cancel always goes through: whatever has happened to the lists, to take
\* out an order that its client still finds meets no null pointer and fails
\* no ASSERT of the pools.
CancelAlwaysWorks ==
    pc = "idle" => \A k \in Client \X ClientOrderId :
                     cid_oid_to_order[k] # Null => Removable(cid_oid_to_order[k])

\* As long as every level is where it belongs, both loops of add() end: each
\* round of the matching loop leaves less to fill, and each round of the search
\* for the place of a new level that is not its last moves on to a strictly
\* worse level, of which there are finitely many.
LoopsAdvance ==
    [][~mislinked => /\ pc = "match" /\ pc' = "match" => taker'.leaves < taker.leaves
                     /\ Searching /\ Searching' =>
                          Worse(taker.side, levels[target'].price, levels[target].price)]_vars

\* The abstract book: live orders rest, but the one whose level is still
\* being placed, which is incoming like the one that is matched.
RestingOrders ==
    {[id |-> o, side |-> orders[o].side, price |-> orders[o].price, qty |-> orders[o].qty] :
        o \in {k \in LiveOrders : pc = "walk" => k # taker.id}}
IncomingOrder ==
    IF taker.leaves = 0 THEN {}
    ELSE {[id |-> taker.id, side |-> taker.side, price |-> taker.price, qty |-> taker.leaves]}

\* In a well linked book the market updates of a step are all that happened
\* to the book in it: who takes out what a CANCEL or a MODIFY names and puts
\* in what an ADD or a MODIFY says has the book after the step.  (The order
\* whose level is still being placed is not announced yet; a crash announces
\* nothing.  Past a misplaced level an order that left may be filled again.)
UpdatesTellTheBook ==
    [][~mislinked /\ pc' # "crashed" =>
       LET told == {updates'[k] : k \in DOMAIN updates'}
           out == {u.id : u \in {v \in told : v.type \in {"CANCEL", "MODIFY"}}}
           in == {[id |-> u.id, side |-> u.side, price |-> u.price, qty |-> u.qty] :
                    u \in {v \in told : v.type \in {"ADD", "MODIFY"}}}
       IN  RestingOrders' = {r \in RestingOrders : r.id \notin out} \cup in]_vars

\* In a well linked book the two clients of a trade stand on opposite sides,
\* hear of one price and one quantity, which the taker's limit allows, and
\* each is told as its rest what it has left after the step.
BothHearOfTheTrade ==
    [][\A t, r \in {responses'[k] : k \in DOMAIN responses'} :
         Matchable /\ pc' = "match" /\ ~mislinked /\ t.id = taker.id /\ r.id # t.id =>
            /\ t.side # r.side /\ t.price = r.price /\ t.exec = r.exec /\ t.exec > 0
            /\ ~Worse(t.side, taker.price, t.price)
            /\ t.leaves = taker'.leaves /\ t.leaves >= 0
            /\ r.leaves = IF orders'[r.id].live THEN orders'[r.id].qty ELSE 0]_vars

Promise == INSTANCE PriceTimeBook WITH resting <- RestingOrders, incoming <- IncomingOrder,
                                       nextId <- next_market_order_id,
                                       Price <- BuyPrice \cup SellPrice

\* Up to the first misplaced level, every step of the book is a step of the
\* price-time priority book or changes nothing of it: best price first,
\* earliest first, never crossed, nothing lost.
ActsAsPriceTimeBook == [][mislinked' \/ Promise!Next \/ UNCHANGED Promise!ptVars]_vars

=============================================================================
