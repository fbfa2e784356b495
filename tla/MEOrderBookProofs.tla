------------------------- MODULE MEOrderBookProofs -------------------------
(***************************************************************************)
(* TLAPS proofs about MEOrderBook, for all clients, prices, quantities,    *)
(* pool sizes and numbers of orders.  The invariant is built in three parts. *)
(*                                                                         *)
(* IInv holds also after a level was put in a wrong place.  TypeOK is not  *)
(* inductive: a step follows pointers, and what it reads is a record of the *)
(* pool only if the pointer is not null.  LinkInv says that every pointer  *)
(* to a level leads to a level that was once created (and so has a first   *)
(* order), and TakerInv where the order that add() works on stands.        *)
(*                                                                         *)
(* StructInv too holds whatever is asked of the book: the orders that share *)
(* an entry of the price map are a ring in the order of their arrival, and *)
(* the map and the live levels lead to each other.  So a cancel never      *)
(* fails, even when the levels are out of order.                           *)
(*                                                                         *)
(* ListInv holds until a level is put in a wrong place: every order is at a *)
(* level of its own price, the levels of a side are a ring from the best   *)
(* price to the worst, and the two sides do not cross.  From it follow the *)
(* order of levels and queues, that a crash is for want of pool space only, *)
(* that a fill takes the best and earliest order (the refinement of        *)
(* PriceTimeBook), and what clients and market are told.  PriceTimeBook    *)
(* itself is proved never crossed and fair, and the refinement carries     *)
(* that over to the pointers.                                              *)
(***************************************************************************)
EXTENDS MEOrderBook, TLAPS

\* Levels that were created; returned ones are among them.
Created == {l \in Id : levels[l].first # Null}
Link == Created \cup {Null}

LinkInv == /\ bids_by_price \in Link /\ asks_by_price \in Link /\ target \in Link
           /\ \A x \in PriceIndex : price_orders_at_price[x] \in Link
           /\ \A l \in Id : levels[l].prev \in Link /\ levels[l].next \in Link

TakerInv ==
    /\ pc \in {"match", "walk"} => /\ taker.id \in Id /\ taker.id < next_market_order_id
                                   /\ taker.client \in Client /\ taker.coid \in ClientOrderId
    /\ pc = "match" => ~orders[taker.id].live
    /\ pc = "walk" => /\ orders[taker.id].live
                      /\ orders[taker.id].client = taker.client
                      /\ orders[taker.id].coid = taker.coid
                      /\ taker.id \in Created
                      /\ BestOrdersByPrice(taker.side) # Null
                      /\ ~add_after => target # Null
    /\ \A o \in Id : o >= next_market_order_id => ~orders[o].live

IInv == TypeOK /\ LinkInv /\ TakerInv /\ ClientIndexSound

----------------------------------------------------------------------------

\* The empty book satisfies the invariant.
LEMMA InitInv == Init => IInv
<1> SUFFICES ASSUME Init PROVE IInv
  OBVIOUS
<1> USE SizeAssumption DEF Init
<1>1. NoOrder \in OrderRecord /\ NoLevel \in LevelRecord /\ NoTaker \in TakerRecord
  BY DEF NoOrder, NoLevel, NoTaker, OrderRecord, LevelRecord, TakerRecord, Pointer, Null, Side
<1>2. TypeOK
  <2>1. orders \in [Id -> OrderRecord] /\ levels \in [Id -> LevelRecord] /\ taker \in TakerRecord
    BY <1>1
  <2>2. /\ cid_oid_to_order \in [Client \X ClientOrderId -> Pointer]
        /\ price_orders_at_price \in [PriceIndex -> Pointer]
        /\ bids_by_price \in Pointer /\ asks_by_price \in Pointer /\ target \in Pointer
    BY DEF Pointer, Null
  <2>3. next_market_order_id \in 1 .. MaxOrders + 1
    OBVIOUS
  <2> QED BY <2>1, <2>2, <2>3 DEF TypeOK
<1>3. LinkInv
  BY DEF LinkInv, Link, NoLevel
<1>4. TakerInv
  BY DEF TakerInv, NoOrder
<1>5. ClientIndexSound
  BY DEF ClientIndexSound
<1> QED BY <1>2, <1>3, <1>4, <1>5 DEF IInv

\* A price's place in the map.
LEMMA IndexInRange == ASSUME NEW p \in Int PROVE PriceToIndex(p) \in PriceIndex
BY SizeAssumption DEF PriceToIndex, PriceIndex

\* The pointer updates of the code, one at a time.
WithNext(f, a, x) == [f EXCEPT ![a].next = x]
WithPrev(f, a, x) == [f EXCEPT ![a].prev = x]
WithQty(f, a, q) == [f EXCEPT ![a].qty = q]
Freed(f, a) == [f EXCEPT ![a].live = FALSE]

\* f is the map of levels with some links changed and some levels returned.
Relinked(f) == /\ f \in [Id -> LevelRecord]
               /\ \A l \in Id : /\ f[l].first = levels[l].first
                                /\ f[l].prev \in Link /\ f[l].next \in Link

\* Changing prev_entry_ and next_entry_ of levels keeps the invariant of the map.
LEMMA Relink ==
    ASSUME TypeOK, NEW f, Relinked(f), NEW a \in Id, NEW x \in Link
    PROVE  Relinked(WithNext(f, a, x)) /\ Relinked(WithPrev(f, a, x)) /\ Relinked(Freed(f, a))
<1>1. f \in [Id -> LevelRecord] /\ x \in Pointer
  BY DEF Relinked, Link, Created, Pointer
<1>2. Relinked(WithNext(f, a, x))
  BY <1>1 DEF Relinked, WithNext, LevelRecord
<1>3. Relinked(WithPrev(f, a, x))
  BY <1>1 DEF Relinked, WithPrev, LevelRecord
<1>4. Relinked(Freed(f, a))
  BY <1>1 DEF Relinked, Freed, LevelRecord
<1> QED BY <1>2, <1>3, <1>4

\* Two states of an order that are the same to the map of its client.
SameOwner(r, s) == r.live = s.live /\ r.client = s.client /\ r.coid = s.coid

\* What every step has to keep of the levels.
LevelsKept == /\ levels' \in [Id -> LevelRecord]
              /\ \A l \in Created : levels'[l].first # Null
              /\ \A l \in Id : levels'[l].prev \in Link' /\ levels'[l].next \in Link'

\* Taking a level out of its list and out of the map.
LEMMA RemoveLevel ==
    ASSUME TypeOK, LinkInv, NEW side \in Side, NEW price \in Int,
           GetOrdersAtPrice(price) # Null,
           levels[GetOrdersAtPrice(price)].next # GetOrdersAtPrice(price) =>
                /\ levels[GetOrdersAtPrice(price)].prev # Null
                /\ levels[GetOrdersAtPrice(price)].next # Null,
           RemoveOrdersAtPrice(side, price)
    PROVE  /\ LevelsKept /\ Created' = Created
           /\ bids_by_price' \in Link /\ asks_by_price' \in Link
           /\ price_orders_at_price' \in [PriceIndex -> Pointer]
           /\ \A x \in PriceIndex : price_orders_at_price'[x] \in Link
<1> DEFINE lvl == GetOrdersAtPrice(price)
           level == levels[lvl]
<1>1. lvl \in Created /\ lvl \in Id /\ PriceToIndex(price) \in PriceIndex
  BY IndexInRange DEF TypeOK, LinkInv, Link, GetOrdersAtPrice, Created
<1>2. level.prev \in Link /\ level.next \in Link /\ Link \subseteq Pointer /\ Null \in Link
  BY <1>1 DEF LinkInv, Link, Created, Pointer
<1>3. /\ price_orders_at_price' \in [PriceIndex -> Pointer]
      /\ \A x \in PriceIndex : price_orders_at_price'[x] \in Link
  BY <1>1, <1>2 DEF TypeOK, LinkInv, RemoveOrdersAtPrice, ForgetLevel
<1>4. bids_by_price' \in Link /\ asks_by_price' \in Link
  BY ZenonT(30), <1>2 DEF LinkInv, RemoveOrdersAtPrice, SetBest
<1>5. /\ levels' \in [Id -> LevelRecord]
      /\ \A l \in Id : /\ levels'[l].first = levels[l].first
                       /\ levels'[l].prev \in Link /\ levels'[l].next \in Link
  <2>1. CASE level.next = lvl
    <3>1. levels' = [levels EXCEPT ![lvl].live = FALSE]
      BY <2>1 DEF RemoveOrdersAtPrice
    <3>2. Relinked(levels)
      BY DEF TypeOK, LinkInv, Relinked
    <3>3. levels' = Freed(levels, lvl)
      BY <3>1 DEF Freed
    <3> QED BY <1>1, <1>2, <3>2, <3>3, Relink DEF Relinked
  <2>2. CASE level.next # lvl
    <3> DEFINE f1 == WithNext(levels, level.prev, level.next)
               f2 == WithPrev(f1, level.next, level.prev)
               f3 == WithPrev(f2, lvl, Null)
               f4 == WithNext(f3, lvl, Null)
               f5 == Freed(f4, lvl)
    <3>1. level.prev \in Id /\ level.next \in Id /\ level.prev \in Pointer /\ level.next \in Pointer
      BY <1>2, <2>2 DEF Link, Created, Pointer
    <3>2. levels' = f5
      BY ZenonT(30), <2>2 DEF RemoveOrdersAtPrice, WithNext, WithPrev, Freed
    <3>3. Relinked(levels)
      BY DEF TypeOK, LinkInv, Relinked
    <3> HIDE DEF level, lvl
    <3>4. Relinked(f1)
      BY <1>2, <3>1, <3>3, Relink
    <3> HIDE DEF f1
    <3>5. Relinked(f2)
      BY <1>2, <3>1, <3>4, Relink
    <3> HIDE DEF f2
    <3>6. Relinked(f3)
      BY <1>1, <1>2, <3>5, Relink
    <3> HIDE DEF f3
    <3>7. Relinked(f4)
      BY <1>1, <1>2, <3>6, Relink
    <3> HIDE DEF f4
    <3>8. Relinked(f5)
      BY <1>1, <1>2, <3>7, Relink
    <3> QED BY <3>2, <3>8 DEF Relinked
  <2> QED BY <2>1, <2>2
<1>6. Created' = Created
  BY <1>5 DEF Created
<1>7. LevelsKept
  BY <1>5, <1>6 DEF LevelsKept, Link, Created
<1> QED BY <1>3, <1>4, <1>6, <1>7

\* Taking the owner's entry out of the map keeps it sound when the order is
\* returned and every other order keeps its owner.
LEMMA IndexAfterRemoval ==
    ASSUME IInv, NEW o \in Id, ~orders'[o].live, orders[o].live,
           \A k \in Id : k # o => SameOwner(orders'[k], orders[k]),
           cid_oid_to_order' = Forget(orders[o].client, orders[o].coid)
    PROVE  ClientIndexSound' /\ cid_oid_to_order' \in [Client \X ClientOrderId -> Pointer]
<1>1. cid_oid_to_order \in [Client \X ClientOrderId -> Pointer] /\ Null \in Pointer
  BY DEF IInv, TypeOK, Pointer
<1>2. cid_oid_to_order' \in [Client \X ClientOrderId -> Pointer]
  BY <1>1 DEF Forget
<1>3. ASSUME NEW c \in Client, NEW i \in ClientOrderId, cid_oid_to_order'[<<c, i>>] # Null
      PROVE  LET k == cid_oid_to_order'[<<c, i>>]
             IN  orders'[k].live /\ orders'[k].client = c /\ orders'[k].coid = i
  <2> DEFINE k == cid_oid_to_order[<<c, i>>]
  <2>1. <<c, i>> # <<orders[o].client, orders[o].coid>> /\ cid_oid_to_order'[<<c, i>>] = k
    BY <1>1, <1>3 DEF Forget
  <2>2. k # Null /\ k \in Pointer
    BY <1>1, <1>3, <2>1
  <2>3. k \in Id /\ orders[k].live /\ orders[k].client = c /\ orders[k].coid = i
    BY <2>2 DEF IInv, ClientIndexSound, Pointer
  <2>4. k # o
    BY <2>1, <2>3
  <2> QED BY <2>1, <2>3, <2>4 DEF SameOwner
<1> QED BY <1>2, <1>3 DEF ClientIndexSound

\* f is the map of orders with links and quantities changed.
Reordered(f) == /\ f \in [Id -> OrderRecord]
                /\ \A k \in Id : SameOwner(f[k], orders[k])

\* Changing the links of orders keeps their owners.
LEMMA Reorder ==
    ASSUME TypeOK, NEW f, Reordered(f), NEW a \in Id, NEW x \in Pointer, NEW q \in Nat
    PROVE  Reordered(WithNext(f, a, x)) /\ Reordered(WithPrev(f, a, x)) /\ Reordered(WithQty(f, a, q))
<1>1. f \in [Id -> OrderRecord]
  BY DEF Reordered
<1>2. Reordered(WithNext(f, a, x))
  BY <1>1 DEF Reordered, SameOwner, WithNext, OrderRecord
<1>3. Reordered(WithPrev(f, a, x))
  BY <1>1 DEF Reordered, SameOwner, WithPrev, OrderRecord
<1>4. Reordered(WithQty(f, a, q))
  BY <1>1 DEF Reordered, SameOwner, WithQty, OrderRecord
<1> QED BY <1>2, <1>3, <1>4

\* A returned order names its client no more.
LEMMA FreedOrder ==
    ASSUME NEW f, Reordered(f), NEW a \in Id
    PROVE  /\ Freed(f, a) \in [Id -> OrderRecord] /\ ~Freed(f, a)[a].live
           /\ \A k \in Id : k # a => SameOwner(Freed(f, a)[k], orders[k])
BY DEF Reordered, SameOwner, Freed, OrderRecord

\* What removeOrder() does to the invariant, with the last fill or without.
LEMMA RemoveOrderEffect ==
    ASSUME IInv, NEW o \in Id, NEW os, Reordered(os),
           os[o].prev = orders[o].prev, os[o].next = orders[o].next,
           os[o].price = orders[o].price, Removable(o), RemoveOrder(os, o)
    PROVE  /\ LevelsKept /\ Created' = Created
           /\ bids_by_price' \in Link /\ asks_by_price' \in Link
           /\ price_orders_at_price' \in [PriceIndex -> Pointer]
           /\ \A x \in PriceIndex : price_orders_at_price'[x] \in Link
           /\ orders' \in [Id -> OrderRecord] /\ ~orders'[o].live
           /\ \A k \in Id : k # o => SameOwner(orders'[k], orders[k])
           /\ cid_oid_to_order' \in [Client \X ClientOrderId -> Pointer]
           /\ ClientIndexSound'
<1> DEFINE order == os[o]
           lvl == GetOrdersAtPrice(order.price)
<1>1. TypeOK /\ LinkInv /\ order \in OrderRecord
  BY DEF IInv, Reordered
<1>2. /\ order.price \in Int /\ order.side \in Side /\ order.prev \in Pointer /\ order.next \in Pointer
      /\ order.client = orders[o].client /\ order.coid = orders[o].coid /\ orders[o].live
  BY <1>1 DEF OrderRecord, Reordered, SameOwner, Removable
<1>3. lvl # Null /\ lvl \in Created /\ lvl \in Id
  BY <1>1, <1>2, IndexInRange DEF Removable, GetOrdersAtPrice, LinkInv, Link, Created
<1>4. cid_oid_to_order' = Forget(orders[o].client, orders[o].coid)
  BY ZenonT(30), <1>2 DEF RemoveOrder
<1>5. CASE order.prev = o
  <2>1. RemoveOrdersAtPrice(order.side, order.price) /\ orders' = Freed(os, o)
    BY <1>5 DEF RemoveOrder, Freed
  <2>2. levels[lvl].next # lvl => levels[lvl].prev # Null /\ levels[lvl].next # Null
    BY <1>5 DEF Removable
  <2>3. /\ LevelsKept /\ Created' = Created
        /\ bids_by_price' \in Link /\ asks_by_price' \in Link
        /\ price_orders_at_price' \in [PriceIndex -> Pointer]
        /\ \A x \in PriceIndex : price_orders_at_price'[x] \in Link
    BY <1>1, <1>2, <1>3, <2>1, <2>2, RemoveLevel
  <2>4. /\ orders' \in [Id -> OrderRecord] /\ ~orders'[o].live
        /\ \A k \in Id : k # o => SameOwner(orders'[k], orders[k])
    BY <2>1, FreedOrder
  <2> QED BY <1>2, <1>4, <2>3, <2>4, IndexAfterRemoval
<1>6. CASE order.prev # o
  <2>1. order.prev \in Id /\ order.next \in Id
    BY <1>2, <1>6 DEF Removable, Pointer
  <2>2. /\ levels' = [levels EXCEPT ![lvl].first = IF @ = o THEN order.next ELSE @]
        /\ UNCHANGED <<price_orders_at_price, bids_by_price, asks_by_price>>
    BY ZenonT(30), <1>6 DEF RemoveOrder
  <2>3. levels' \in [Id -> LevelRecord] /\ Created' = Created
        /\ \A l \in Id : levels'[l].prev = levels[l].prev /\ levels'[l].next = levels[l].next
    <3>1. levels \in [Id -> LevelRecord] /\ order.next \in Pointer /\ order.next # Null
      BY <1>1, <1>2, <1>6 DEF TypeOK, Removable
    <3> HIDE DEF order, lvl
    <3> QED BY <1>3, <2>2, <3>1 DEF LevelRecord, Created
  <2>4. LevelsKept
    BY <1>1, <2>3 DEF LevelsKept, LinkInv, Link, Created
  <2>5. /\ orders' \in [Id -> OrderRecord] /\ ~orders'[o].live
        /\ \A k \in Id : k # o => SameOwner(orders'[k], orders[k])
    <3> DEFINE f1 == WithNext(os, order.prev, order.next)
               f2 == WithPrev(f1, order.next, order.prev)
               f3 == WithPrev(f2, o, Null)
               f4 == WithNext(f3, o, Null)
    <3>1. orders' = Freed(f4, o)
      BY ZenonT(30), <1>6 DEF RemoveOrder, WithNext, WithPrev, Freed
    <3>2. Null \in Pointer /\ 0 \in Nat
      BY DEF Pointer
    <3> HIDE DEF order, lvl
    <3>3. Reordered(f1)
      BY <1>1, <1>2, <2>1, <3>2, Reorder
    <3> HIDE DEF f1
    <3>4. Reordered(f2)
      BY <1>1, <1>2, <2>1, <3>2, <3>3, Reorder
    <3> HIDE DEF f2
    <3>5. Reordered(f3)
      BY <1>1, <3>2, <3>4, Reorder
    <3> HIDE DEF f3
    <3>6. Reordered(f4)
      BY <1>1, <3>2, <3>5, Reorder
    <3> HIDE DEF f4
    <3> QED BY <3>1, <3>6, FreedOrder
  <2>6. /\ bids_by_price' \in Link /\ asks_by_price' \in Link
        /\ price_orders_at_price' \in [PriceIndex -> Pointer]
        /\ \A x \in PriceIndex : price_orders_at_price'[x] \in Link
    BY <1>1, <2>2 DEF TypeOK, LinkInv
  <2> QED BY ZenonT(30), <1>2, <1>4, <2>3, <2>4, <2>5, <2>6, IndexAfterRemoval
<1> QED BY <1>5, <1>6

\* Putting the taker's order into the map keeps it sound.
LEMMA IndexAfterRest ==
    ASSUME IInv, pc \in {"match", "walk"},
           \A k \in Id : k # taker.id => SameOwner(orders'[k], orders[k]),
           orders'[taker.id].live, orders'[taker.id].client = taker.client,
           orders'[taker.id].coid = taker.coid,
           cid_oid_to_order' = Remember(taker.client, taker.coid, taker.id)
    PROVE  ClientIndexSound' /\ cid_oid_to_order' \in [Client \X ClientOrderId -> Pointer]
<1>1. /\ cid_oid_to_order \in [Client \X ClientOrderId -> Pointer]
      /\ taker.id \in Id /\ taker.id \in Pointer
      /\ taker.client \in Client /\ taker.coid \in ClientOrderId
  BY DEF IInv, TypeOK, TakerInv, Pointer
<1>2. cid_oid_to_order' \in [Client \X ClientOrderId -> Pointer]
  BY <1>1 DEF Remember
<1>3. ASSUME NEW c \in Client, NEW i \in ClientOrderId, cid_oid_to_order'[<<c, i>>] # Null
      PROVE  LET k == cid_oid_to_order'[<<c, i>>]
             IN  orders'[k].live /\ orders'[k].client = c /\ orders'[k].coid = i
  <2> DEFINE k == cid_oid_to_order[<<c, i>>]
  <2>1. CASE <<c, i>> = <<taker.client, taker.coid>>
    BY <1>1, <2>1 DEF Remember
  <2>2. CASE <<c, i>> # <<taker.client, taker.coid>>
    <3>1. cid_oid_to_order'[<<c, i>>] = k
      BY <1>1, <2>2 DEF Remember
    <3>2. k \in Id /\ orders[k].live /\ orders[k].client = c /\ orders[k].coid = i
      BY <1>1, <1>3, <3>1 DEF IInv, ClientIndexSound, Pointer
    <3>3. k # taker.id
      BY <2>2, <3>2 DEF IInv, TakerInv
    <3> QED BY <3>1, <3>2, <3>3 DEF SameOwner
  <2> QED BY <2>1, <2>2
<1> QED BY <1>2, <1>3 DEF ClientIndexSound

\* The order checkForMatch() touches, and the parts of a fill.
LEMMA MatchParts ==
    ASSUME IInv, Matchable
    PROVE  /\ Touch \in Id /\ taker.leaves \in Nat /\ orders[Touch].qty \in Nat
           /\ FillQty(orders[Touch].qty, taker.leaves) \in Nat
           /\ orders[Touch].qty - FillQty(orders[Touch].qty, taker.leaves) \in Nat
           /\ taker.leaves - FillQty(orders[Touch].qty, taker.leaves) \in Nat
<1>1. BestOrdersByPrice(Opposite(taker.side)) \in Created
  BY DEF IInv, LinkInv, Link, Matchable, BestOrdersByPrice
<1>2. Touch \in Id
  BY <1>1 DEF Touch, Created, IInv, TypeOK, LevelRecord, Pointer
<1>3. taker.leaves \in Nat /\ orders[Touch].qty \in Nat
  BY <1>2 DEF IInv, TypeOK, TakerRecord, OrderRecord
<1> QED BY <1>2, <1>3 DEF FillQty

\* add() up to the matching preserves the invariant.
LEMMA AddStep ==
    ASSUME IInv, NEW c \in Client, NEW i \in ClientOrderId, NEW side \in Side,
           NEW price \in Int, NEW qty \in Nat, Add(c, i, side, price, qty)
    PROVE  IInv'
<1>1. next_market_order_id \in Id /\ next_market_order_id' \in 1 .. MaxOrders + 1
      /\ next_market_order_id' = next_market_order_id + 1
  BY SizeAssumption DEF IInv, TypeOK, Add, Id
<1>2. taker' \in TakerRecord /\ taker'.id = next_market_order_id /\ taker'.client = c /\ taker'.coid = i
  BY <1>1 DEF Add, TakerRecord, Pointer
<1>3. TypeOK'
  BY <1>1, <1>2 DEF IInv, TypeOK, Add, book, lists, walk
<1>4. LinkInv'
  BY DEF IInv, LinkInv, Link, Created, Add, book, lists, walk
<1>5. ~orders[next_market_order_id].live
  BY <1>1 DEF IInv, TakerInv, Id
<1>6. TakerInv'
  BY <1>1, <1>2, <1>5 DEF IInv, TakerInv, Add, book, Id
<1>7. ClientIndexSound'
  BY DEF IInv, ClientIndexSound, Add, book
<1> QED BY <1>3, <1>4, <1>6, <1>7 DEF IInv

\* match() preserves the invariant.
LEMMA MatchStep == ASSUME IInv, Match PROVE IInv'
<1> DEFINE itr == Touch
           fill == FillQty(orders[itr].qty, taker.leaves)
           left == orders[itr].qty - fill
           os == [orders EXCEPT ![itr].qty = left]
<1>1. /\ Matchable /\ itr \in Id /\ left \in Nat /\ taker.leaves - fill \in Nat
      /\ taker' = [taker EXCEPT !.leaves = @ - fill]
      /\ UNCHANGED <<next_market_order_id, pc, walk, mislinked>>
      /\ pc = "match" /\ TypeOK
  BY MatchParts DEF Match, Matchable, IInv
<1>2. /\ taker' \in TakerRecord /\ taker'.id = taker.id /\ taker'.client = taker.client
      /\ taker'.coid = taker.coid
  <2> HIDE DEF fill
  <2> QED BY <1>1 DEF TypeOK, TakerRecord
<1>3. /\ Reordered(os)
      /\ os[itr].prev = orders[itr].prev /\ os[itr].next = orders[itr].next
      /\ os[itr].price = orders[itr].price
  <2> HIDE DEF itr, left
  <2> QED BY <1>1 DEF TypeOK, Reordered, SameOwner, OrderRecord
<1>4. CASE left = 0
  <2>1. RemoveOrder(os, itr) /\ Removable(itr)
    BY <1>4 DEF Match
  <2> HIDE DEF itr, os
  <2>2. /\ LevelsKept /\ Created' = Created
        /\ bids_by_price' \in Link /\ asks_by_price' \in Link
        /\ price_orders_at_price' \in [PriceIndex -> Pointer]
        /\ \A x \in PriceIndex : price_orders_at_price'[x] \in Link
        /\ orders' \in [Id -> OrderRecord] /\ ~orders'[itr].live
        /\ \A k \in Id : k # itr => SameOwner(orders'[k], orders[k])
        /\ cid_oid_to_order' \in [Client \X ClientOrderId -> Pointer]
        /\ ClientIndexSound'
    BY <1>1, <1>3, <2>1, RemoveOrderEffect
  <2>3. Link' = Link /\ Link \subseteq Pointer
    BY <2>2 DEF Link, Created, Pointer
  <2>4. TypeOK'
    BY <1>1, <1>2, <2>2, <2>3 DEF TypeOK, walk, LevelsKept
  <2>5. LinkInv'
    BY <1>1, <2>2, <2>3 DEF IInv, LinkInv, walk, LevelsKept
  <2>6. TakerInv'
    <3>1. \A k \in Id : ~orders[k].live => ~orders'[k].live
      BY <2>2 DEF SameOwner
    <3> QED BY <1>1, <1>2, <3>1 DEF IInv, TakerInv
  <2> QED BY <2>2, <2>4, <2>5, <2>6 DEF IInv
<1>5. CASE left # 0
  <2>1. orders' = os /\ UNCHANGED <<cid_oid_to_order, lists>>
    BY <1>5 DEF Match
  <2> HIDE DEF itr, os
  <2>2. TypeOK' /\ LinkInv'
    BY <1>1, <1>2, <1>3, <2>1 DEF IInv, TypeOK, LinkInv, Link, Created, walk, lists, Reordered
  <2>3. \A k \in Id : SameOwner(orders'[k], orders[k])
    BY <1>3, <2>1 DEF Reordered
  <2>4. TakerInv'
    BY <1>1, <1>2, <2>3 DEF IInv, TakerInv, SameOwner
  <2>5. ClientIndexSound'
    <3>1. \A c \in Client, i \in ClientOrderId : cid_oid_to_order[<<c, i>>] \in Pointer
      BY <1>1 DEF TypeOK
    <3> QED BY <2>1, <2>3, <3>1 DEF IInv, ClientIndexSound, SameOwner, Pointer
  <2> QED BY <2>2, <2>4, <2>5 DEF IInv
<1> QED BY <1>4, <1>5

\* The order that comes to rest.
LEMMA NewOrderType ==
    ASSUME IInv, Resting, NEW p \in Nat, NEW a \in Pointer, NEW b \in Pointer
    PROVE  /\ NewOrder(p, a, b) \in OrderRecord /\ NewOrder(p, a, b).live
           /\ NewOrder(p, a, b).client = taker.client /\ NewOrder(p, a, b).coid = taker.coid
BY DEF IInv, TypeOK, TakerInv, TakerRecord, Resting, NewOrder, OrderRecord

\* An order that joins a level preserves the invariant.
LEMMA JoinLevelStep == ASSUME IInv, JoinLevel PROVE IInv'
<1> DEFINE lvl == GetOrdersAtPrice(taker.price)
           first == levels[lvl].first
           last == orders[first].prev
           new == NewOrder(NextPriority(lvl), last, first)
<1>1. /\ Resting /\ pc = "match" /\ lvl # Null /\ last # Null /\ Rested(NextPriority(lvl))
      /\ UNCHANGED <<lists, next_market_order_id>>
      /\ mislinked' = (mislinked \/ levels[lvl].price # taker.price)
      /\ orders' = [orders EXCEPT ![last].next = taker.id, ![first].prev = taker.id,
                                  ![taker.id] = new]
  <2>1. Resting => pc = "match"
    BY DEF Resting
  <2> QED BY ZenonT(30), <2>1 DEF JoinLevel
<1>2. TypeOK /\ taker.id \in Id /\ taker.id \in Pointer /\ taker.id < next_market_order_id
      /\ taker.price \in Int
  BY <1>1 DEF IInv, TypeOK, TakerInv, TakerRecord, Pointer
<1>3. lvl \in Created /\ first \in Id /\ last \in Id /\ NextPriority(lvl) \in Nat
  <2>1. lvl \in Created /\ first \in Id
    BY ZenonT(30), <1>1, <1>2, IndexInRange
       DEF IInv, LinkInv, Link, Created, TypeOK, LevelRecord, Pointer, GetOrdersAtPrice
  <2>2. last \in Id
    BY ZenonT(30), <1>1, <1>2, <2>1 DEF TypeOK, OrderRecord, Pointer
  <2>3. orders[last].priority \in Nat
    BY <1>2, <2>2 DEF TypeOK, OrderRecord
  <2>4. NextPriority(lvl) = orders[last].priority + 1
    BY ZenonT(30), <1>1 DEF NextPriority
  <2> QED BY <2>1, <2>2, <2>3, <2>4
<1>4. new \in OrderRecord /\ new.live /\ new.client = taker.client /\ new.coid = taker.coid
  <2>1. \A p \in Nat, a, b \in Pointer :
           /\ NewOrder(p, a, b) \in OrderRecord /\ NewOrder(p, a, b).live
           /\ NewOrder(p, a, b).client = taker.client /\ NewOrder(p, a, b).coid = taker.coid
    BY ZenonT(30), <1>1, NewOrderType
  <2>2. NextPriority(lvl) \in Nat /\ last \in Pointer /\ first \in Pointer
    BY <1>3 DEF Pointer
  <2> QED BY <2>1, <2>2
<1> DEFINE f1 == WithNext(orders, last, taker.id)
           f2 == WithPrev(f1, first, taker.id)
<1>5. orders' = [f2 EXCEPT ![taker.id] = new]
  BY ZenonT(30), <1>1 DEF WithNext, WithPrev
<1> HIDE DEF lvl, first, last, new
<1>6. Reordered(orders)
  BY <1>2 DEF TypeOK, Reordered, SameOwner
<1>7. Reordered(f1)
  BY <1>2, <1>3, <1>6, Reorder
<1> HIDE DEF f1
<1>8. Reordered(f2)
  BY <1>2, <1>3, <1>7, Reorder
<1> HIDE DEF f2
<1>9. /\ orders' \in [Id -> OrderRecord] /\ orders'[taker.id] = new
      /\ \A k \in Id : k # taker.id => SameOwner(orders'[k], orders[k])
  BY <1>2, <1>4, <1>5, <1>8 DEF Reordered
<1>10. ClientIndexSound' /\ cid_oid_to_order' \in [Client \X ClientOrderId -> Pointer]
  BY <1>1, <1>4, <1>9, IndexAfterRest DEF Rested
<1>11. NoTaker \in TakerRecord /\ Null \in Pointer
  BY DEF NoTaker, TakerRecord, Pointer, Side, Null
<1>12. TypeOK'
  <2>1. mislinked' \in BOOLEAN
    BY <1>1, <1>2, Zenon DEF TypeOK
  <2> QED BY <1>1, <1>2, <1>9, <1>10, <1>11, <2>1 DEF TypeOK, Rested, lists
<1>13. LinkInv'
  BY <1>1 DEF IInv, LinkInv, Link, Created, Rested, lists
<1>14. TakerInv'
  BY <1>1, <1>2, <1>9 DEF IInv, TakerInv, Rested, SameOwner, TypeOK, Id
<1> QED BY <1>10, <1>12, <1>13, <1>14 DEF IInv

\* The end of a filled add() preserves the invariant.
LEMMA FilledStep == ASSUME IInv, Filled PROVE IInv'
<1>1. NoTaker \in TakerRecord
  BY DEF NoTaker, TakerRecord, Pointer, Side, Null
<1>2. TypeOK' /\ LinkInv'
  BY <1>1 DEF IInv, TypeOK, LinkInv, Link, Created, Filled, book, lists, walk
<1>3. TakerInv' /\ ClientIndexSound'
  BY DEF IInv, TakerInv, ClientIndexSound, Filled, book
<1> QED BY <1>2, <1>3 DEF IInv

\* One iteration of the search preserves the invariant.
LEMMA WalkStep == ASSUME IInv, Walk PROVE IInv'
<1>1. target \in Created /\ target \in Id
  BY DEF IInv, LinkInv, Link, Created, Walk
<1>2. target' \in Link /\ target' \in Pointer /\ add_after' \in BOOLEAN
      /\ (~add_after' => target' # Null)
  <2>1. levels[target].next \in Link
    BY <1>1 DEF IInv, LinkInv
  <2>2. Link \subseteq Pointer
    BY DEF Link, Created, Pointer
  <2> QED BY <1>1, <2>1, <2>2 DEF Walk, Link, Worse
<1>3. UNCHANGED <<book, next_market_order_id, pc, taker, sent, mislinked>>
  BY DEF Walk
<1>4. TypeOK' /\ LinkInv'
  BY <1>2, <1>3 DEF IInv, TypeOK, LinkInv, Link, Created, book, lists
<1>5. TakerInv' /\ ClientIndexSound'
  BY <1>2, <1>3 DEF IInv, TakerInv, ClientIndexSound, book, lists, BestOrdersByPrice, Created
<1> QED BY <1>4, <1>5 DEF IInv

\* The end of the process changes nothing of the book.
LEMMA ExitStep == ASSUME IInv, Exit PROVE IInv'
<1>1. TypeOK' /\ LinkInv'
  BY DEF IInv, TypeOK, LinkInv, Link, Created, Exit, book, lists, walk
<1>2. TakerInv' /\ ClientIndexSound'
  BY DEF IInv, TakerInv, ClientIndexSound, Exit, book
<1> QED BY <1>1, <1>2 DEF IInv

\* Nor does the end of the process on a request of no type.
LEMMA InvalidStep == ASSUME IInv, InvalidRequest PROVE IInv'
<1>1. TypeOK' /\ LinkInv'
  BY DEF IInv, TypeOK, LinkInv, Link, Created, InvalidRequest, book, lists, walk
<1>2. TakerInv' /\ ClientIndexSound'
  BY DEF IInv, TakerInv, ClientIndexSound, InvalidRequest, book
<1> QED BY <1>1, <1>2 DEF IInv

\* cancel() preserves the invariant.
LEMMA CancelStep ==
    ASSUME IInv, NEW c \in Client, NEW i \in ClientOrderId, Cancel(c, i) PROVE IInv'
<1> DEFINE o == cid_oid_to_order[<<c, i>>]
<1>1. pc = "idle" /\ UNCHANGED <<next_market_order_id, pc, taker, walk, mislinked>> /\ TypeOK
  BY DEF Cancel, IInv
<1>2. CASE o = Null
  <2>1. UNCHANGED book
    BY <1>2 DEF Cancel
  <2>2. TypeOK' /\ LinkInv'
    BY <1>1, <2>1 DEF IInv, TypeOK, LinkInv, Link, Created, book, lists, walk
  <2>3. TakerInv' /\ ClientIndexSound'
    BY <1>1, <2>1 DEF IInv, TakerInv, ClientIndexSound, book
  <2> QED BY <2>2, <2>3 DEF IInv
<1>3. CASE o # Null
  <2>1. Removable(o) /\ RemoveOrder(orders, o)
    BY <1>3 DEF Cancel
  <2>2. o \in Id
    BY <1>1, <1>3 DEF TypeOK, Pointer
  <2>3. Reordered(orders)
    BY <1>1 DEF TypeOK, Reordered, SameOwner
  <2> HIDE DEF o
  <2>4. /\ LevelsKept /\ Created' = Created
        /\ bids_by_price' \in Link /\ asks_by_price' \in Link
        /\ price_orders_at_price' \in [PriceIndex -> Pointer]
        /\ \A x \in PriceIndex : price_orders_at_price'[x] \in Link
        /\ orders' \in [Id -> OrderRecord] /\ ~orders'[o].live
        /\ \A k \in Id : k # o => SameOwner(orders'[k], orders[k])
        /\ cid_oid_to_order' \in [Client \X ClientOrderId -> Pointer]
        /\ ClientIndexSound'
    BY <2>1, <2>2, <2>3, RemoveOrderEffect
  <2>5. Link' = Link /\ Link \subseteq Pointer
    BY <2>4 DEF Link, Created, Pointer
  <2>6. TypeOK' /\ LinkInv'
    BY <1>1, <2>4, <2>5 DEF IInv, TypeOK, LinkInv, walk, LevelsKept
  <2>7. TakerInv'
    <3>1. \A k \in Id : ~orders[k].live => ~orders'[k].live
      BY <2>4 DEF SameOwner
    <3> QED BY <1>1, <3>1 DEF IInv, TakerInv
  <2> QED BY <2>4, <2>6, <2>7 DEF IInv
<1> QED BY <1>2, <1>3

\* A new level, up to the search for its place, preserves the invariant.
LEMMA NewLevelStep == ASSUME IInv, NewLevel PROVE IInv'
<1> DEFINE new == taker.id
           best == BestOrdersByPrice(taker.side)
           after == Worse(taker.side, taker.price, levels[best].price)
           second == levels[best].next
           level(l) == [side |-> taker.side, price |-> taker.price, first |-> new,
                        prev |-> l, next |-> l, live |-> TRUE]
           record == NewOrder(1, new, new)
<1>1. /\ Resting /\ pc = "match" /\ TypeOK
      /\ orders' = [orders EXCEPT ![new] = record]
      /\ price_orders_at_price' =
            [price_orders_at_price EXCEPT ![PriceToIndex(taker.price)] = new]
      /\ UNCHANGED <<next_market_order_id, mislinked>>
  BY DEF NewLevel, Resting, IInv
<1>2. /\ new \in Id /\ new \in Pointer /\ new # Null /\ new < next_market_order_id
      /\ taker.price \in Int /\ taker.side \in Side
      /\ best \in Link /\ Link \subseteq Pointer /\ Null \in Pointer
  BY <1>1 DEF IInv, TypeOK, TakerInv, TakerRecord, Pointer, LinkInv, Link, Created,
              BestOrdersByPrice, Id, Null
<1>3. record \in OrderRecord /\ record.live /\ record.client = taker.client
      /\ record.coid = taker.coid
  BY <1>1, <1>2, NewOrderType
<1> HIDE DEF record
<1>4. /\ orders' \in [Id -> OrderRecord] /\ orders'[new] = record
      /\ \A k \in Id : k # new => orders'[k] = orders[k]
  BY <1>1, <1>2, <1>3 DEF TypeOK
<1>5. level(new) \in LevelRecord /\ level(Null) \in LevelRecord
  BY <1>2 DEF LevelRecord
<1>6. ASSUME NEW l \in {new, Null}, levels' = [levels EXCEPT ![new] = level(l)]
      PROVE  /\ levels' \in [Id -> LevelRecord] /\ new \in Created' /\ Link \subseteq Link'
             /\ \A k \in Id : levels'[k].prev \in Link' /\ levels'[k].next \in Link'
  <2>1. levels \in [Id -> LevelRecord]
    BY <1>1 DEF TypeOK
  <2>2. levels' \in [Id -> LevelRecord] /\ levels'[new] = level(l)
        /\ \A k \in Id : k # new => levels'[k] = levels[k]
    BY <1>2, <1>5, <1>6, <2>1
  <2>3. new \in Created' /\ Link \subseteq Link'
    BY <1>2, <2>2 DEF Link, Created
  <2>4. ASSUME NEW k \in Id PROVE levels'[k].prev \in Link' /\ levels'[k].next \in Link'
    <3>1. CASE k = new
      BY <2>2, <2>3, <3>1 DEF Link
    <3>2. CASE k # new
      BY <2>2, <2>3, <3>2 DEF IInv, LinkInv
    <3> QED BY <3>1, <3>2
  <2> QED BY <2>2, <2>3, <2>4
<1>7. /\ price_orders_at_price' \in [PriceIndex -> Pointer]
      /\ \A x \in PriceIndex : price_orders_at_price'[x] \in Link \cup {new}
  BY <1>1, <1>2, IndexInRange DEF IInv, TypeOK, LinkInv
<1>8. CASE best = Null
  <2>1. SetBest(taker.side, new) /\ levels' = [levels EXCEPT ![new] = level(new)] /\ Rested(1)
    BY <1>8 DEF NewLevel
  <2>2. /\ levels' \in [Id -> LevelRecord] /\ new \in Created' /\ Link \subseteq Link'
        /\ \A k \in Id : levels'[k].prev \in Link' /\ levels'[k].next \in Link'
    BY <1>6, <2>1
  <2>3. ClientIndexSound' /\ cid_oid_to_order' \in [Client \X ClientOrderId -> Pointer]
    BY <1>1, <1>3, <1>4, <2>1, IndexAfterRest DEF Rested, SameOwner
  <2>4. NoTaker \in TakerRecord
    BY DEF NoTaker, TakerRecord, Pointer, Side, Null
  <2>5. TypeOK'
    BY <1>1, <1>2, <1>4, <1>7, <2>1, <2>2, <2>3, <2>4 DEF TypeOK, Rested, SetBest
  <2>6. LinkInv'
    BY <1>7, <2>1, <2>2 DEF IInv, LinkInv, Rested, SetBest, Link
  <2>7. TakerInv'
    BY <1>1, <1>2, <1>4, <2>1 DEF IInv, TakerInv, Rested, TypeOK, Id
  <2> QED BY <2>3, <2>5, <2>6, <2>7 DEF IInv
<1>9. CASE best # Null
  <2>1. /\ after => second # Null
        /\ levels' = [levels EXCEPT ![new] = level(Null)]
        /\ target' = IF after THEN second ELSE best
        /\ add_after' = (after /\ Worse(taker.side, taker.price, levels[second].price))
        /\ pc' = "walk"
        /\ UNCHANGED <<bids_by_price, asks_by_price, cid_oid_to_order, taker>>
    BY <1>9 DEF NewLevel
  <2>2. /\ levels' \in [Id -> LevelRecord] /\ new \in Created' /\ Link \subseteq Link'
        /\ \A k \in Id : levels'[k].prev \in Link' /\ levels'[k].next \in Link'
    BY <1>6, <2>1
  <2>3. target' \in Link /\ target' # Null /\ add_after' \in BOOLEAN
    <3>1. best \in Id
      BY <1>2, <1>9 DEF Link, Created
    <3>2. second \in Link
      BY <3>1 DEF IInv, LinkInv
    <3> QED BY <1>2, <1>9, <2>1, <3>2 DEF Worse
  <2>4. TypeOK'
    BY <1>1, <1>2, <1>4, <1>7, <2>1, <2>2, <2>3 DEF TypeOK
  <2>5. LinkInv'
    BY <1>7, <2>1, <2>2, <2>3 DEF IInv, LinkInv, Link
  <2>6. TakerInv'
    BY <1>1, <1>2, <1>3, <1>4, <1>9, <2>1, <2>2, <2>3, SMTT(30)
       DEF IInv, TakerInv, BestOrdersByPrice, TypeOK, Id
  <2>7. ClientIndexSound'
    <3>1. \A c \in Client, i \in ClientOrderId : cid_oid_to_order[<<c, i>>] \in Pointer
      BY <1>1 DEF TypeOK
    <3>2. ~orders[new].live
      BY <1>1 DEF IInv, TakerInv
    <3> QED BY <1>4, <2>1, <3>1, <3>2 DEF IInv, ClientIndexSound, Pointer
  <2> QED BY <2>4, <2>5, <2>6, <2>7 DEF IInv
<1> QED BY <1>8, <1>9

\* Linking a level in, at either place, only changes links.
LEMMA LinkAfterRelinks ==
    ASSUME TypeOK, LinkInv, NEW new \in Created, NEW last \in Id,
           levels[last].next # Null, last \in Link, LinkAfter(new, last)
    PROVE  Relinked(levels')
<1> DEFINE first == levels[last].next
           f1 == WithPrev(levels, new, last)
           f2 == WithPrev(f1, first, new)
           f3 == WithNext(f2, new, first)
           f4 == WithNext(f3, last, new)
<1>1. levels' = f4
  BY DEF LinkAfter, WithNext, WithPrev
<1>2. first \in Id /\ first \in Link /\ new \in Id /\ new \in Link
  BY DEF LinkInv, Link, Created
<1>3. Relinked(levels)
  BY DEF TypeOK, LinkInv, Relinked
<1> HIDE DEF first
<1>4. Relinked(f1)
  BY <1>2, <1>3, Relink
<1> HIDE DEF f1
<1>5. Relinked(f2)
  BY <1>2, <1>4, Relink
<1> HIDE DEF f2
<1>6. Relinked(f3)
  BY <1>2, <1>5, Relink
<1> HIDE DEF f3
<1>7. Relinked(f4)
  BY <1>2, <1>6, Relink
<1> QED BY <1>1, <1>7

\* Linking a level in before the target only changes links.
LEMMA LinkBeforeRelinks ==
    ASSUME TypeOK, LinkInv, NEW new \in Created, NEW next \in Created,
           levels[next].prev # Null, LinkBefore(new, next)
    PROVE  /\ Relinked(levels') /\ mislinked' \in BOOLEAN
           /\ bids_by_price' \in Link /\ asks_by_price' \in Link
<1> DEFINE prev == levels[next].prev
           best == BestOrdersByPrice(taker.side)
           f1 == WithPrev(levels, new, prev)
           f2 == WithNext(f1, new, next)
           f3 == WithNext(f2, prev, new)
           f4 == WithPrev(f3, next, new)
           x == IF f4[next].next = best THEN new ELSE f4[next].next
           f5 == WithNext(f4, next, x)
<1>1. prev \in Id /\ prev \in Link /\ new \in Id /\ new \in Link /\ next \in Id /\ next \in Link
  BY DEF LinkInv, Link, Created
<1>2. levels' = f4 \/ levels' = f5
  <2>1. f4 = [levels EXCEPT ![new].prev = prev, ![new].next = next,
                            ![prev].next = new, ![next].prev = new]
    BY DEF WithNext, WithPrev
  <2>2. CASE Better(taker.side, taker.price, levels[next].price)
    <3>1. levels' = [f4 EXCEPT ![next].next = IF @ = best THEN new ELSE @]
      BY ZenonT(30), <2>1, <2>2 DEF LinkBefore
    <3> HIDE DEF f4
    <3> QED BY <3>1 DEF WithNext
  <2>3. CASE ~Better(taker.side, taker.price, levels[next].price)
    BY ZenonT(30), <2>1, <2>3 DEF LinkBefore
  <2> QED BY <2>2, <2>3
<1>3. Relinked(levels)
  BY DEF TypeOK, LinkInv, Relinked
<1>4. bids_by_price' \in Link /\ asks_by_price' \in Link /\ mislinked' \in BOOLEAN
  BY <1>1 DEF LinkBefore, LinkInv, TypeOK
<1> HIDE DEF prev, best
<1>5. Relinked(f1)
  BY <1>1, <1>3, Relink
<1> HIDE DEF f1
<1>6. Relinked(f2)
  BY <1>1, <1>5, Relink
<1> HIDE DEF f2
<1>7. Relinked(f3)
  BY <1>1, <1>6, Relink
<1> HIDE DEF f3
<1>8. Relinked(f4)
  BY <1>1, <1>7, Relink
<1> HIDE DEF f4
<1>9. x \in Link
  BY <1>1, <1>8 DEF Relinked
<1> HIDE DEF x
<1>10. Relinked(f5)
  BY <1>1, <1>8, <1>9, Relink
<1> QED BY <1>2, <1>4, <1>8, <1>10

\* Linking the new level in preserves the invariant.
LEMMA SpliceStep == ASSUME IInv, Splice PROVE IInv'
<1> DEFINE best == BestOrdersByPrice(taker.side)
           last == levels[best].prev
<1>1. /\ pc = "walk" /\ ~Searching /\ Rested(orders[taker.id].priority)
      /\ UNCHANGED <<orders, price_orders_at_price, next_market_order_id>>
      /\ TypeOK /\ LinkInv /\ taker.id \in Created /\ taker.id \in Id
      /\ taker.id < next_market_order_id /\ orders[taker.id].live
      /\ orders[taker.id].client = taker.client /\ orders[taker.id].coid = taker.coid
      /\ best # Null
  BY DEF Splice, IInv, TakerInv
<1>2. /\ Relinked(levels') /\ mislinked' \in BOOLEAN
      /\ bids_by_price' \in Link /\ asks_by_price' \in Link
  <2>1. CASE add_after
    <3>1. last # Null /\ levels[last].next # Null /\ LinkAfter(taker.id, last)
          /\ UNCHANGED <<bids_by_price, asks_by_price, mislinked>>
      BY <2>1 DEF Splice
    <3>2. best \in Id
      BY <1>1 DEF LinkInv, Link, Created, BestOrdersByPrice
    <3>3. last \in Link /\ last \in Id
      BY <1>1, <3>1, <3>2 DEF LinkInv, Link, Created
    <3> QED BY <1>1, <3>1, <3>3, LinkAfterRelinks DEF LinkInv, TypeOK
  <2>2. CASE ~add_after
    <3>1. levels[target].prev # Null /\ LinkBefore(taker.id, target)
      BY <2>2 DEF Splice
    <3>2. target \in Created
      BY <1>1, <2>2 DEF IInv, TakerInv, LinkInv, Link
    <3> QED BY <1>1, <3>1, <3>2, LinkBeforeRelinks
  <2> QED BY <2>1, <2>2
<1>3. Link' = Link /\ Link \subseteq Pointer /\ Null \in Pointer /\ Null \in Link
  BY <1>2 DEF Relinked, Link, Created, Pointer
<1>4. ClientIndexSound' /\ cid_oid_to_order' \in [Client \X ClientOrderId -> Pointer]
  BY <1>1, IndexAfterRest DEF Rested, SameOwner
<1>5. NoTaker \in TakerRecord
  BY DEF NoTaker, TakerRecord, Pointer, Side, Null
<1>6. TypeOK'
  BY <1>1, <1>2, <1>3, <1>4, <1>5 DEF TypeOK, Rested, Relinked
<1>7. LinkInv'
  BY <1>1, <1>2, <1>3 DEF LinkInv, Rested, Relinked
<1>8. TakerInv'
  BY <1>1 DEF IInv, TakerInv, Rested
<1> QED BY <1>4, <1>6, <1>7, <1>8 DEF IInv

----------------------------------------------------------------------------

\* Every step of the engine preserves the invariant.
LEMMA StepInv == ASSUME IInv, [Next]_vars PROVE IInv'
<1>1. ASSUME NEW c \in Client, NEW i \in ClientOrderId, NEW p \in BuyPrice, NEW q \in Quantity,
             Add(c, i, "BUY", p, q)
      PROVE  IInv'
  BY <1>1, AddStep, PriceAssumption, QuantityAssumption DEF Side
<1>2. ASSUME NEW c \in Client, NEW i \in ClientOrderId, NEW p \in SellPrice, NEW q \in Quantity,
             Add(c, i, "SELL", p, q)
      PROVE  IInv'
  BY <1>2, AddStep, PriceAssumption, QuantityAssumption DEF Side
<1>3. ASSUME NEW c \in Client, NEW i \in ClientOrderId, Cancel(c, i) PROVE IInv'
  BY <1>3, CancelStep
<1>4. CASE Match
  BY <1>4, MatchStep
<1>5. CASE Filled
  BY <1>5, FilledStep
<1>6. CASE JoinLevel
  BY <1>6, JoinLevelStep
<1>7. CASE NewLevel
  BY <1>7, NewLevelStep
<1>8. CASE Walk
  BY <1>8, WalkStep
<1>9. CASE Splice
  BY <1>9, SpliceStep
<1>10. CASE Crash
  BY <1>10, ExitStep DEF Crash
<1>11. CASE UNCHANGED vars
  <2>1. TypeOK' /\ LinkInv'
    BY <1>11 DEF IInv, TypeOK, LinkInv, Link, Created, vars, book, lists, walk
  <2>2. TakerInv' /\ ClientIndexSound'
    BY <1>11 DEF IInv, TakerInv, ClientIndexSound, vars, book, lists, walk, Created,
                 BestOrdersByPrice
  <2> QED BY <2>1, <2>2 DEF IInv
<1>12. CASE InvalidRequest
  BY <1>12, InvalidStep
<1> QED BY <1>1, <1>2, <1>3, <1>4, <1>5, <1>6, <1>7, <1>8, <1>9, <1>10, <1>11, <1>12
        DEF Next, Request, Handler

\* The inductive invariant holds in every reachable state.
THEOREM BookInvariant == Spec => []IInv
<1>1. IInv /\ [Next]_vars => IInv'
  BY StepInv
<1> QED BY <1>1, InitInv, PTL DEF Spec

\* The book's variables keep their types whatever is asked of it, also when a
\* level was put in a wrong place: quantities never go below zero, and no
\* pointer is followed out of its pool.
THEOREM TypeCorrect == Spec => []TypeOK
<1>1. IInv => TypeOK
  BY DEF IInv
<1> QED BY <1>1, BookInvariant, PTL

\* A cancel finds a live order of its own client or none, whatever happened
\* to the lists and however clients choose their ids.
THEOREM IndexSound == Spec => []ClientIndexSound
<1>1. IInv => ClientIndexSound
  BY DEF IInv
<1> QED BY <1>1, BookInvariant, PTL

----------------------------------------------------------------------------
(***************************************************************************)
(* Rings: elements that point to each other both ways, as the orders of a  *)
(* level and the levels of a side do.                                      *)
(***************************************************************************)

\* n follows l in S: it is the next by key, or the first when l is the last.
Follows(S, key, l, n) ==
    \A k \in S : IF key[l] < key[n] THEN key[k] <= key[l] \/ key[n] <= key[k]
                                    ELSE key[n] <= key[k] /\ key[k] <= key[l]

\* The elements of S hang together both ways by the pointers of f, in the order
\* of their keys, the last before the first.
Ring(S, f, key) ==
    \A l \in S : /\ f[l].next \in S /\ f[f[l].next].prev = l
                 /\ f[l].prev \in S /\ f[f[l].prev].next = l
                 /\ Follows(S, key, l, f[l].next)

IsFirst(S, key, l) == l \in S /\ \A k \in S : key[l] <= key[k]
IsLast(S, key, l) == l \in S /\ \A k \in S : key[k] <= key[l]

Keys(S, key) == /\ \A l \in S : key[l] \in Int
                /\ \A k, l \in S : key[k] = key[l] => k = l

\* A ring in which an element comes before itself is that element.
LEMMA RingOfOne ==
    ASSUME NEW S, NEW f, NEW key, Keys(S, key), Ring(S, f, key), NEW o \in S,
           f[o].prev = o \/ f[o].next = o
    PROVE  S = {o} /\ f[o].prev = o /\ f[o].next = o
<1>1. f[o].next = o /\ f[o].prev = o
  BY DEF Ring
<1>2. \A k \in S : key[k] = key[o]
  BY <1>1 DEF Ring, Follows, Keys
<1> QED BY <1>1, <1>2 DEF Keys

\* What comes before the first is the last.
LEMMA BeforeFirst ==
    ASSUME NEW S, NEW f, NEW key, Keys(S, key), Ring(S, f, key), NEW b, IsFirst(S, key, b)
    PROVE  IsLast(S, key, f[b].prev)
<1> DEFINE l == f[b].prev
<1>1. l \in S /\ f[l].next = b /\ Follows(S, key, l, b) /\ b \in S
  BY DEF IsFirst, Ring
<1>2. key[b] <= key[l] /\ key[l] \in Int /\ key[b] \in Int
  BY <1>1 DEF IsFirst, Keys
<1> HIDE DEF l
<1>3. \A k \in S : key[k] <= key[l]
  BY <1>1, <1>2 DEF Follows, IsFirst
<1> QED BY <1>1, <1>3 DEF IsLast, l

\* g is f without the element x.
Unlinked(S, f, x, g) ==
    \A l \in S \ {x} : /\ g[l].next = IF l = f[x].prev THEN f[x].next ELSE f[l].next
                       /\ g[l].prev = IF l = f[x].next THEN f[x].prev ELSE f[l].prev

\* Taking an element out of a ring leaves a ring, and if it was the first then
\* the one after it is.
LEMMA RingRemove ==
    ASSUME NEW S, NEW f, NEW key, Keys(S, key), Ring(S, f, key), NEW x \in S, f[x].next # x,
           NEW g, Unlinked(S, f, x, g)
    PROVE  /\ Ring(S \ {x}, g, key)
           /\ IsFirst(S, key, x) => IsFirst(S \ {x}, key, f[x].next)
<1> DEFINE T == S \ {x}
           p == f[x].prev
           n == f[x].next
<1>1. p \in T /\ n \in T /\ f[p].next = x /\ f[n].prev = x
  BY DEF Ring
<1>2. ASSUME NEW l \in T
      PROVE  /\ g[l].next \in T /\ g[g[l].next].prev = l
             /\ g[l].prev \in T /\ g[g[l].prev].next = l
  <2>1. g[l].next \in T /\ g[g[l].next].prev = l
    <3>1. CASE l = p
      BY <1>1, <3>1 DEF Ring, Unlinked
    <3>2. CASE l # p
      <4>1. g[l].next = f[l].next /\ f[l].next \in S /\ f[f[l].next].prev = l
        BY <3>2 DEF Ring, Unlinked
      <4>2. f[l].next # x /\ f[l].next # n
        BY <1>1, <3>2, <4>1
      <4> QED BY <4>1, <4>2 DEF Unlinked
    <3> QED BY <3>1, <3>2
  <2>2. g[l].prev \in T /\ g[g[l].prev].next = l
    <3>1. CASE l = n
      BY <1>1, <3>1 DEF Ring, Unlinked
    <3>2. CASE l # n
      <4>1. g[l].prev = f[l].prev /\ f[l].prev \in S /\ f[f[l].prev].next = l
        BY <3>2 DEF Ring, Unlinked
      <4>2. f[l].prev # x /\ f[l].prev # p
        BY <1>1, <3>2, <4>1
      <4> QED BY <4>1, <4>2 DEF Unlinked
    <3> QED BY <3>1, <3>2
  <2> QED BY <2>1, <2>2
<1>3. ASSUME NEW l \in T PROVE Follows(T, key, l, g[l].next)
  <2>1. CASE l # p
    BY <2>1 DEF Ring, Unlinked, Follows
  <2>2. CASE l = p
    <3>1. g[l].next = n
      BY <2>2 DEF Unlinked
    <3>2. Follows(S, key, p, x) /\ Follows(S, key, x, n)
      BY <1>1 DEF Ring
    <3>3. key[p] \in Int /\ key[x] \in Int /\ key[n] \in Int /\ key[p] # key[x] /\ key[x] # key[n]
      BY <1>1 DEF Keys
    <3> HIDE DEF p, n
    <3>4. ASSUME NEW k \in T
          PROVE  IF key[p] < key[n] THEN key[k] <= key[p] \/ key[n] <= key[k]
                                    ELSE key[n] <= key[k] /\ key[k] <= key[p]
      <4>1. key[k] \in Int /\ key[k] # key[x] /\ k \in S
        BY DEF Keys
      <4>2. /\ IF key[p] < key[x] THEN key[k] <= key[p] \/ key[x] <= key[k]
                                  ELSE key[x] <= key[k] /\ key[k] <= key[p]
            /\ IF key[x] < key[n] THEN key[k] <= key[x] \/ key[n] <= key[k]
                                  ELSE key[n] <= key[k] /\ key[k] <= key[x]
            /\ IF key[p] < key[x] THEN key[n] <= key[p] \/ key[x] <= key[n]
                                  ELSE key[x] <= key[n] /\ key[n] <= key[p]
            /\ IF key[x] < key[n] THEN key[p] <= key[x] \/ key[n] <= key[p]
                                  ELSE key[n] <= key[p] /\ key[p] <= key[x]
        BY <1>1, <3>2, <4>1 DEF Follows
      <4> QED BY <3>3, <4>1, <4>2
    <3> QED BY <2>2, <3>1, <3>4 DEF Follows
  <2> QED BY <2>1, <2>2
<1>4. ASSUME IsFirst(S, key, x) PROVE IsFirst(T, key, n)
  <2>1. Follows(S, key, x, n) /\ key[x] < key[n]
    BY <1>1, <1>4 DEF Ring, IsFirst, Keys
  <2> QED BY <1>1, <1>4, <2>1 DEF Follows, IsFirst, Keys
<1> QED BY <1>2, <1>3, <1>4 DEF Ring

\* g is f with the element x between b and the one before b.
LinkedIn(S, f, x, b, g) ==
    /\ g[x].next = b /\ g[x].prev = f[b].prev
    /\ \A l \in S : /\ g[l].next = IF l = f[b].prev THEN x ELSE f[l].next
                    /\ g[l].prev = IF l = b THEN x ELSE f[l].prev

\* Putting an element between the last and the first of a ring leaves a ring if
\* it comes after all of them or before all of them.
LEMMA RingInsert ==
    ASSUME NEW S, NEW f, NEW key, NEW x, x \notin S, Keys(S \cup {x}, key), Ring(S, f, key),
           NEW b, IsFirst(S, key, b),
           IsLast(S \cup {x}, key, x) \/ IsFirst(S \cup {x}, key, x),
           NEW g, LinkedIn(S, f, x, b, g)
    PROVE  Ring(S \cup {x}, g, key)
<1> DEFINE T == S \cup {x}
           p == f[b].prev
<1>0. Keys(S, key)
  BY DEF Keys
<1>1. p \in S /\ b \in S /\ f[p].next = b /\ IsLast(S, key, p)
  BY <1>0, BeforeFirst DEF Ring, IsFirst
<1>2. ASSUME NEW l \in T
      PROVE  /\ g[l].next \in T /\ g[g[l].next].prev = l
             /\ g[l].prev \in T /\ g[g[l].prev].next = l
  <2>1. CASE l = x
    BY <1>1, <2>1 DEF LinkedIn
  <2>2. CASE l \in S
    <3>1. g[l].next \in T /\ g[g[l].next].prev = l
      <4>1. CASE l = p
        BY <1>1, <4>1 DEF LinkedIn
      <4>2. CASE l # p
        <5>1. g[l].next = f[l].next /\ f[l].next \in S /\ f[f[l].next].prev = l
          BY <2>2, <4>2 DEF Ring, LinkedIn
        <5>2. f[l].next # b
          BY <4>2, <5>1
        <5> QED BY <5>1, <5>2 DEF LinkedIn
      <4> QED BY <4>1, <4>2
    <3>2. g[l].prev \in T /\ g[g[l].prev].next = l
      <4>1. CASE l = b
        BY <1>1, <4>1 DEF LinkedIn
      <4>2. CASE l # b
        <5>1. g[l].prev = f[l].prev /\ f[l].prev \in S /\ f[f[l].prev].next = l
          BY <2>2, <4>2 DEF Ring, LinkedIn
        <5>2. f[l].prev # p
          BY <1>1, <4>2, <5>1
        <5> QED BY <5>1, <5>2 DEF LinkedIn
      <4> QED BY <4>1, <4>2
    <3> QED BY <3>1, <3>2
  <2> QED BY <2>1, <2>2
<1>3. ASSUME NEW l \in T PROVE Follows(T, key, l, g[l].next)
  <2>1. /\ key[x] \in Int /\ \A k \in S : key[k] \in Int /\ key[b] <= key[k] /\ key[k] <= key[p]
        /\ \A k \in S : key[k] # key[x]
        /\ (\A k \in S : key[k] < key[x]) \/ (\A k \in S : key[x] < key[k])
    BY <1>1 DEF Keys, IsFirst, IsLast
  <2>2. CASE l = x
    <3>1. g[l].next = b
      BY <2>2 DEF LinkedIn
    <3> QED BY <1>1, <2>1, <2>2, <3>1 DEF Follows
  <2>3. CASE l = p
    <3>1. g[l].next = x
      BY <1>1, <2>3 DEF LinkedIn
    <3> QED BY <1>1, <2>1, <2>3, <3>1 DEF Follows
  <2>4. CASE l \in S /\ l # p
    <3>1. g[l].next = f[l].next /\ f[l].next \in S /\ Follows(S, key, l, f[l].next)
      BY <2>4 DEF LinkedIn, Ring
    <3>2. f[l].next # b
      BY <1>1, <2>4 DEF Ring
    <3>3. key[l] < key[f[l].next]
      BY <1>1, <2>1, <2>4, <3>1, <3>2, <1>0 DEF Follows, Keys
    <3> QED BY <2>1, <2>4, <3>1, <3>3 DEF Follows
  <2> QED BY <2>2, <2>3, <2>4
<1> QED BY <1>2, <1>3 DEF Ring

----------------------------------------------------------------------------
(***************************************************************************)
(* What holds of the lists whatever is asked of the book.                  *)
(***************************************************************************)

Index(o) == PriceToIndex(orders[o].price)

\* The live orders that share an entry of the price map.
AtIndex(x) == {o \in LiveOrders : Index(o) = x}
Arrival == [o \in Id |-> o]

\* Live levels that are linked in: not the one whose place is searched.
Placed == IF pc = "walk" THEN LiveLevels \ {taker.id} ELSE LiveLevels

\* The price map and the live levels lead to each other, and from an entry the
\* earliest of its orders is reached.
MapInv == /\ \A l \in LiveLevels : GetOrdersAtPrice(levels[l].price) = l
          /\ \A x \in PriceIndex :
               LET l == price_orders_at_price[x]
               IN  IF l = Null THEN AtIndex(x) = {}
                   ELSE /\ levels[l].live /\ PriceToIndex(levels[l].price) = x
                        /\ IsFirst(AtIndex(x), Arrival, levels[l].first)

\* The orders of an entry hang together in the order of their arrival, with
\* rising priorities.
QueueInv ==
    \A x \in PriceIndex :
       /\ Ring(AtIndex(x), orders, Arrival)
       /\ \A o, k \in AtIndex(x) : o < k => orders[o].priority < orders[k].priority

\* What the order that is worked on has to do with the book.
FreshInv ==
    /\ \A o \in Id : orders[o].live \/ levels[o].live => o < next_market_order_id
    /\ pc \in {"match", "walk"} => taker.id + 1 = next_market_order_id
    /\ pc = "match" => ~levels[taker.id].live
    /\ pc = "walk" => /\ levels[taker.id].live /\ levels[taker.id].side = taker.side
                      /\ levels[taker.id].price = taker.price
                      /\ orders[taker.id].side = taker.side
                      /\ orders[taker.id].price = taker.price
                      /\ orders[taker.id].qty = taker.leaves

\* No link of a placed level is null.
LinkedInv == pc # "crashed" => \A l \in Placed : levels[l].prev # Null /\ levels[l].next # Null

QtyInv == \A o \in LiveOrders : orders[o].qty > 0

StructInv == MapInv /\ QueueInv /\ FreshInv /\ LinkedInv /\ QtyInv

----------------------------------------------------------------------------

\* Two states of an order, or of a level, that differ in links only.
SameOrder(r, s) == /\ r.client = s.client /\ r.coid = s.coid /\ r.side = s.side
                   /\ r.price = s.price /\ r.qty = s.qty /\ r.priority = s.priority
SameLevel(r, s) == r.side = s.side /\ r.price = s.price

\* g is f, a pool of orders or of levels, with one pointer changed, or with
\* no pointer changed.
NextSet(g, f, a, x) == \A k \in Id : /\ g[k].next = IF k = a THEN x ELSE f[k].next
                                     /\ g[k].prev = f[k].prev
PrevSet(g, f, a, x) == \A k \in Id : /\ g[k].prev = IF k = a THEN x ELSE f[k].prev
                                     /\ g[k].next = f[k].next
LinksKept(g, f) == \A k \in Id : g[k].next = f[k].next /\ g[k].prev = f[k].prev

\* g is f but for its links, and with one order or level returned.
OrdersAlike(g, f) == \A k \in Id : SameOrder(g[k], f[k]) /\ g[k].live = f[k].live
OrderReturned(g, f, a) == \A k \in Id : SameOrder(g[k], f[k]) /\ g[k].live = (f[k].live /\ k # a)
LevelsAlike(g, f) == \A k \in Id : /\ SameLevel(g[k], f[k]) /\ g[k].first = f[k].first
                                  /\ g[k].live = f[k].live
LevelReturned(g, f, a) == \A k \in Id : /\ SameLevel(g[k], f[k]) /\ g[k].first = f[k].first
                                       /\ g[k].live = (f[k].live /\ k # a)

\* One pointer of an order is changed, or the order returned.
LEMMA OrderUpdate ==
    ASSUME NEW f \in [Id -> OrderRecord], NEW a \in Id, NEW x \in Pointer
    PROVE  /\ WithNext(f, a, x) \in [Id -> OrderRecord]
           /\ OrdersAlike(WithNext(f, a, x), f) /\ NextSet(WithNext(f, a, x), f, a, x)
           /\ WithPrev(f, a, x) \in [Id -> OrderRecord]
           /\ OrdersAlike(WithPrev(f, a, x), f) /\ PrevSet(WithPrev(f, a, x), f, a, x)
           /\ Freed(f, a) \in [Id -> OrderRecord]
           /\ OrderReturned(Freed(f, a), f, a) /\ LinksKept(Freed(f, a), f)
<1>1. \A k \in Id : f[k] \in OrderRecord
  OBVIOUS
<1>2. /\ WithNext(f, a, x) \in [Id -> OrderRecord]
      /\ OrdersAlike(WithNext(f, a, x), f) /\ NextSet(WithNext(f, a, x), f, a, x)
  BY <1>1 DEF WithNext, SameOrder, OrdersAlike, NextSet, OrderRecord
<1>3. /\ WithPrev(f, a, x) \in [Id -> OrderRecord]
      /\ OrdersAlike(WithPrev(f, a, x), f) /\ PrevSet(WithPrev(f, a, x), f, a, x)
  BY <1>1 DEF WithPrev, SameOrder, OrdersAlike, PrevSet, OrderRecord
<1>4. /\ Freed(f, a) \in [Id -> OrderRecord]
      /\ OrderReturned(Freed(f, a), f, a) /\ LinksKept(Freed(f, a), f)
  BY <1>1 DEF Freed, SameOrder, OrderReturned, LinksKept, OrderRecord
<1> QED BY <1>2, <1>3, <1>4

\* The same of a level.
LEMMA LevelUpdate ==
    ASSUME NEW f \in [Id -> LevelRecord], NEW a \in Id, NEW x \in Pointer
    PROVE  /\ WithNext(f, a, x) \in [Id -> LevelRecord]
           /\ LevelsAlike(WithNext(f, a, x), f) /\ NextSet(WithNext(f, a, x), f, a, x)
           /\ WithPrev(f, a, x) \in [Id -> LevelRecord]
           /\ LevelsAlike(WithPrev(f, a, x), f) /\ PrevSet(WithPrev(f, a, x), f, a, x)
           /\ Freed(f, a) \in [Id -> LevelRecord]
           /\ LevelReturned(Freed(f, a), f, a) /\ LinksKept(Freed(f, a), f)
<1>1. \A k \in Id : f[k] \in LevelRecord
  OBVIOUS
<1>2. /\ WithNext(f, a, x) \in [Id -> LevelRecord]
      /\ LevelsAlike(WithNext(f, a, x), f) /\ NextSet(WithNext(f, a, x), f, a, x)
  BY <1>1 DEF WithNext, SameLevel, LevelsAlike, NextSet, LevelRecord
<1>3. /\ WithPrev(f, a, x) \in [Id -> LevelRecord]
      /\ LevelsAlike(WithPrev(f, a, x), f) /\ PrevSet(WithPrev(f, a, x), f, a, x)
  BY <1>1 DEF WithPrev, SameLevel, LevelsAlike, PrevSet, LevelRecord
<1>4. /\ Freed(f, a) \in [Id -> LevelRecord]
      /\ LevelReturned(Freed(f, a), f, a) /\ LinksKept(Freed(f, a), f)
  BY <1>1 DEF Freed, SameLevel, LevelReturned, LinksKept, LevelRecord
<1> QED BY <1>2, <1>3, <1>4

\* What two changes of links keep, both keep.
LEMMA AlikeTwice ==
    ASSUME NEW f, NEW g, NEW h
    PROVE  /\ OrdersAlike(g, f) /\ OrdersAlike(h, g) => OrdersAlike(h, f)
           /\ LevelsAlike(g, f) /\ LevelsAlike(h, g) => LevelsAlike(h, f)
           /\ \A a : OrdersAlike(g, f) /\ OrderReturned(h, g, a) => OrderReturned(h, f, a)
           /\ \A a : LevelsAlike(g, f) /\ LevelReturned(h, g, a) => LevelReturned(h, f, a)
BY DEF OrdersAlike, LevelsAlike, OrderReturned, LevelReturned, SameOrder, SameLevel

----------------------------------------------------------------------------

\* The keys of a queue are its orders.
LEMMA ArrivalKeys == ASSUME NEW x PROVE Keys(AtIndex(x), Arrival)
BY DEF Keys, Arrival, AtIndex, LiveOrders, Id

\* A live order is in the queue of its entry, and that has a level.
LEMMA QueueOfOrder ==
    ASSUME TypeOK, MapInv, NEW o \in LiveOrders
    PROVE  LET lvl == price_orders_at_price[Index(o)]
           IN  /\ Index(o) \in PriceIndex /\ o \in AtIndex(Index(o))
               /\ lvl \in Id /\ lvl \in LiveLevels /\ PriceToIndex(levels[lvl].price) = Index(o)
               /\ IsFirst(AtIndex(Index(o)), Arrival, levels[lvl].first)
<1>1. orders[o].price \in Int /\ o \in Id
  BY DEF TypeOK, OrderRecord, LiveOrders
<1>2. Index(o) \in PriceIndex /\ o \in AtIndex(Index(o))
  BY <1>1, IndexInRange DEF Index, AtIndex
<1>3. price_orders_at_price[Index(o)] # Null /\ price_orders_at_price[Index(o)] \in Pointer
  BY <1>2 DEF MapInv, TypeOK
<1> QED BY <1>2, <1>3 DEF MapInv, LiveLevels, Pointer

\* os is the memory of the orders, with the last fill of o or as it is.
LastFill(os, o) ==
    /\ os \in [Id -> OrderRecord]
    /\ \A k \in Id : /\ os[k].next = orders[k].next /\ os[k].prev = orders[k].prev
                     /\ os[k].live = orders[k].live
                     /\ SameOrder(os[k], [orders[k] EXCEPT !.qty = os[k].qty])
                     /\ k # o => os[k].qty = orders[k].qty

\* Every other order stays as it was but for its links, and the entry of the
\* client's name for the order is erased.
OneGone(o) ==
    /\ \A k \in Id : /\ orders'[k].live = (orders[k].live /\ k # o)
                     /\ k # o => SameOrder(orders'[k], orders[k])
                     /\ orders'[k].client = orders[k].client /\ orders'[k].coid = orders[k].coid
    /\ cid_oid_to_order' = Forget(orders[o].client, orders[o].coid)

\* The only order of an entry leaves, and its level with it.
LevelGoes(o) ==
    LET lvl == price_orders_at_price[Index(o)]
    IN  /\ AtIndex(Index(o)) = {o}
        /\ \A k \in Id \ {o} : orders'[k].next = orders[k].next /\ orders'[k].prev = orders[k].prev
        /\ price_orders_at_price' = [price_orders_at_price EXCEPT ![Index(o)] = Null]
        /\ LevelReturned(levels', levels, lvl)
        /\ IF levels[lvl].next = lvl
           THEN SetBest(orders[o].side, Null) /\ LinksKept(levels', levels)
           ELSE /\ IF lvl = BestOrdersByPrice(orders[o].side)
                   THEN SetBest(orders[o].side, levels[lvl].next)
                   ELSE UNCHANGED <<bids_by_price, asks_by_price>>
                /\ levels[lvl].next \in Id /\ levels[lvl].prev \in Id
                /\ Unlinked(Id, levels, lvl, levels')

\* One order of several leaves its entry.
QueueShrinks(o) ==
    LET lvl == price_orders_at_price[Index(o)]
    IN  /\ orders[o].next # o
        /\ Unlinked(Id, orders, o, orders')
        /\ \A l \in Id : /\ SameLevel(levels'[l], levels[l]) /\ levels'[l].live = levels[l].live
                         /\ levels'[l].next = levels[l].next /\ levels'[l].prev = levels[l].prev
                         /\ levels'[l].first = IF l = lvl /\ levels[l].first = o
                                               THEN orders[o].next ELSE levels[l].first
        /\ UNCHANGED <<price_orders_at_price, bids_by_price, asks_by_price>>

\* What removeOrdersAtPrice() does to the levels.
LEMMA RemoveLevelLinks ==
    ASSUME TypeOK, NEW side \in Side, NEW price \in Int, NEW lvl \in Id,
           lvl = GetOrdersAtPrice(price),
           levels[lvl].next # lvl => levels[lvl].prev # Null /\ levels[lvl].next # Null,
           RemoveOrdersAtPrice(side, price)
    PROVE  /\ LevelReturned(levels', levels, lvl)
           /\ price_orders_at_price' = [price_orders_at_price EXCEPT ![PriceToIndex(price)] = Null]
           /\ IF levels[lvl].next = lvl
              THEN SetBest(side, Null) /\ LinksKept(levels', levels)
              ELSE /\ IF lvl = BestOrdersByPrice(side)
                      THEN SetBest(side, levels[lvl].next)
                      ELSE UNCHANGED <<bids_by_price, asks_by_price>>
                   /\ levels[lvl].next \in Id /\ levels[lvl].prev \in Id
                   /\ Unlinked(Id, levels, lvl, levels')
<1> DEFINE level == levels[lvl]
<1>1. levels \in [Id -> LevelRecord] /\ Null \in Pointer /\ Id \subseteq Pointer
      /\ level.prev \in Pointer /\ level.next \in Pointer
  BY DEF TypeOK, Pointer, LevelRecord
<1>2. price_orders_at_price' = [price_orders_at_price EXCEPT ![PriceToIndex(price)] = Null]
  BY ZenonT(30) DEF RemoveOrdersAtPrice, ForgetLevel
<1>3. CASE level.next = lvl
  <2>1. levels' = Freed(levels, lvl) /\ SetBest(side, Null)
    BY <1>3 DEF RemoveOrdersAtPrice, Freed
  <2> QED BY <1>1, <1>2, <1>3, <2>1, LevelUpdate
<1>4. CASE level.next # lvl
  <2> DEFINE f1 == WithNext(levels, level.prev, level.next)
             f2 == WithPrev(f1, level.next, level.prev)
             f3 == WithPrev(f2, lvl, Null)
             f4 == WithNext(f3, lvl, Null)
             f5 == Freed(f4, lvl)
  <2>1. level.prev \in Id /\ level.next \in Id
    BY <1>1, <1>4 DEF Pointer
  <2>2. levels' = f5
    BY ZenonT(30), <1>4 DEF RemoveOrdersAtPrice, WithNext, WithPrev, Freed
  <2>3. IF lvl = BestOrdersByPrice(side) THEN SetBest(side, levels[lvl].next)
        ELSE UNCHANGED <<bids_by_price, asks_by_price>>
    BY ZenonT(30), <1>4 DEF RemoveOrdersAtPrice
  <2> HIDE DEF level
  <2>4. f1 \in [Id -> LevelRecord] /\ LevelsAlike(f1, levels)
        /\ NextSet(f1, levels, level.prev, level.next)
    BY <1>1, <2>1, LevelUpdate
  <2> HIDE DEF f1
  <2>5. f2 \in [Id -> LevelRecord] /\ LevelsAlike(f2, f1)
        /\ PrevSet(f2, f1, level.next, level.prev)
    BY <1>1, <2>1, <2>4, LevelUpdate
  <2> HIDE DEF f2
  <2>6. f3 \in [Id -> LevelRecord] /\ LevelsAlike(f3, f2) /\ PrevSet(f3, f2, lvl, Null)
    BY <1>1, <2>5, LevelUpdate
  <2> HIDE DEF f3
  <2>7. f4 \in [Id -> LevelRecord] /\ LevelsAlike(f4, f3) /\ NextSet(f4, f3, lvl, Null)
    BY <1>1, <2>6, LevelUpdate
  <2> HIDE DEF f4
  <2>8. LevelReturned(f5, f4, lvl) /\ LinksKept(f5, f4)
    BY <1>1, <2>7, LevelUpdate
  <2> HIDE DEF f5
  <2>9. LevelReturned(levels', levels, lvl)
    BY <2>2, <2>4, <2>5, <2>6, <2>7, <2>8, AlikeTwice
  <2>10. Unlinked(Id, levels, lvl, levels')
    BY <2>2, <2>4, <2>5, <2>6, <2>7, <2>8 DEF NextSet, PrevSet, LinksKept, Unlinked, level
  <2> QED BY <1>2, <1>4, <2>1, <2>3, <2>9, <2>10 DEF level
<1> QED BY <1>3, <1>4

\* What removeOrder() does to the lists.
LEMMA RemoveOrderLinks ==
    ASSUME IInv, MapInv, QueueInv, NEW o \in Id, NEW os, LastFill(os, o),
           Removable(o), RemoveOrder(os, o)
    PROVE  OneGone(o) /\ (LevelGoes(o) \/ QueueShrinks(o))
<1> DEFINE x == Index(o)
           lvl == price_orders_at_price[x]
           order == orders[o]
<1>1. TypeOK /\ o \in LiveOrders /\ order \in OrderRecord
  BY DEF IInv, Removable, LiveOrders, TypeOK
<1>2. x \in PriceIndex /\ o \in AtIndex(x) /\ lvl \in Id /\ lvl \in LiveLevels
  BY <1>1, QueueOfOrder
<1>3. Ring(AtIndex(x), orders, Arrival) /\ Keys(AtIndex(x), Arrival)
  BY <1>2, ArrivalKeys DEF QueueInv
<1>4. order.next \in Id /\ order.prev \in Id /\ order.side \in Side /\ order.price \in Int
      /\ Id \subseteq Pointer /\ Null \in Pointer
  BY <1>1, <1>2, <1>3 DEF Ring, AtIndex, LiveOrders, OrderRecord, Pointer
<1>5. /\ os[o].prev = order.prev /\ os[o].next = order.next /\ os[o].price = order.price
      /\ os[o].side = order.side /\ os[o].client = order.client /\ os[o].coid = order.coid
  BY <1>1 DEF LastFill, SameOrder, OrderRecord
<1>6. /\ GetOrdersAtPrice(os[o].price) = lvl
      /\ \A k \in Id : k # o => SameOrder(os[k], orders[k])
      /\ \A k \in Id : os[k].client = orders[k].client /\ os[k].coid = orders[k].coid
      /\ \A k \in Id : os[k].live = orders[k].live /\ os[k].next = orders[k].next
                       /\ os[k].prev = orders[k].prev
      /\ os \in [Id -> OrderRecord]
  <2>1. \A k \in Id : orders[k] \in OrderRecord
    BY <1>1 DEF TypeOK
  <2> QED BY <1>5, <2>1 DEF LastFill, SameOrder, OrderRecord, GetOrdersAtPrice, Index
<1>7. cid_oid_to_order' = Forget(orders[o].client, orders[o].coid)
  BY ZenonT(30), <1>5 DEF RemoveOrder
<1>8. CASE order.prev = o
  <2>1. RemoveOrdersAtPrice(order.side, order.price) /\ orders' = Freed(os, o)
    BY <1>5, <1>8 DEF RemoveOrder, Freed
  <2>2. OrderReturned(orders', os, o) /\ LinksKept(orders', os)
    BY <1>4, <1>6, <2>1, OrderUpdate
  <2>3. OneGone(o)
    BY <1>6, <1>7, <2>2 DEF OneGone, OrderReturned, SameOrder
  <2>4. AtIndex(x) = {o}
    BY <1>2, <1>3, <1>8, RingOfOne
  <2>5. lvl = GetOrdersAtPrice(order.price) /\ PriceToIndex(order.price) = x
    BY DEF GetOrdersAtPrice, Index
  <2>6. levels[lvl].next # lvl => levels[lvl].prev # Null /\ levels[lvl].next # Null
    BY <1>8, <2>5 DEF Removable
  <2> HIDE DEF x, lvl, order
  <2>7. /\ LevelReturned(levels', levels, lvl)
        /\ price_orders_at_price' = [price_orders_at_price EXCEPT ![x] = Null]
        /\ IF levels[lvl].next = lvl
           THEN SetBest(order.side, Null) /\ LinksKept(levels', levels)
           ELSE /\ IF lvl = BestOrdersByPrice(order.side)
                   THEN SetBest(order.side, levels[lvl].next)
                   ELSE UNCHANGED <<bids_by_price, asks_by_price>>
                /\ levels[lvl].next \in Id /\ levels[lvl].prev \in Id
                /\ Unlinked(Id, levels, lvl, levels')
    BY <1>1, <1>2, <1>4, <2>1, <2>5, <2>6, RemoveLevelLinks
  <2>8. \A k \in Id \ {o} : orders'[k].next = orders[k].next /\ orders'[k].prev = orders[k].prev
    BY <1>6, <2>2 DEF LinksKept
  <2>9. LevelGoes(o)
    BY <2>4, <2>7, <2>8 DEF LevelGoes, x, lvl, order
  <2> QED BY <2>3, <2>9
<1>9. CASE order.prev # o
  <2> DEFINE f1 == WithNext(os, order.prev, order.next)
             f2 == WithPrev(f1, order.next, order.prev)
             f3 == WithPrev(f2, o, Null)
             f4 == WithNext(f3, o, Null)
             f5 == Freed(f4, o)
  <2>1. orders' = f5
    BY ZenonT(30), <1>5, <1>9 DEF RemoveOrder, WithNext, WithPrev, Freed
  <2>2. /\ levels' = [levels EXCEPT ![lvl].first = IF @ = o THEN order.next ELSE @]
        /\ UNCHANGED <<price_orders_at_price, bids_by_price, asks_by_price>>
    BY ZenonT(30), <1>5, <1>6, <1>9 DEF RemoveOrder
  <2>3. order.next # o
    BY <1>2, <1>3, <1>9, RingOfOne
  <2> HIDE DEF order, lvl, x
  <2>4. f1 \in [Id -> OrderRecord] /\ OrdersAlike(f1, os) /\ NextSet(f1, os, order.prev, order.next)
    BY <1>4, <1>6, OrderUpdate
  <2> HIDE DEF f1
  <2>5. f2 \in [Id -> OrderRecord] /\ OrdersAlike(f2, f1) /\ PrevSet(f2, f1, order.next, order.prev)
    BY <1>4, <2>4, OrderUpdate
  <2> HIDE DEF f2
  <2>6. f3 \in [Id -> OrderRecord] /\ OrdersAlike(f3, f2) /\ PrevSet(f3, f2, o, Null)
    BY <1>4, <2>5, OrderUpdate
  <2> HIDE DEF f3
  <2>7. f4 \in [Id -> OrderRecord] /\ OrdersAlike(f4, f3) /\ NextSet(f4, f3, o, Null)
    BY <1>4, <2>6, OrderUpdate
  <2> HIDE DEF f4
  <2>8. OrderReturned(f5, f4, o) /\ LinksKept(f5, f4)
    BY <1>4, <2>7, OrderUpdate
  <2> HIDE DEF f5
  <2>9. OneGone(o)
    <3>1. OrderReturned(orders', os, o)
      BY <2>1, <2>4, <2>5, <2>6, <2>7, <2>8, AlikeTwice
    <3> QED BY <1>6, <1>7, <3>1 DEF OneGone, OrderReturned, SameOrder
  <2>10. Unlinked(Id, orders, o, orders')
    <3>1. Unlinked(Id, os, o, orders')
      BY <1>5, <2>1, <2>4, <2>5, <2>6, <2>7, <2>8 DEF NextSet, PrevSet, LinksKept, Unlinked
    <3> QED BY <1>6, <3>1 DEF Unlinked
  <2>11. \A l \in Id : /\ SameLevel(levels'[l], levels[l]) /\ levels'[l].live = levels[l].live
                       /\ levels'[l].next = levels[l].next /\ levels'[l].prev = levels[l].prev
                       /\ levels'[l].first = IF l = lvl /\ levels[l].first = o
                                             THEN order.next ELSE levels[l].first
    <3>1. levels \in [Id -> LevelRecord]
      BY <1>1 DEF TypeOK
    <3> QED BY <1>2, <2>2, <3>1 DEF SameLevel, LevelRecord
  <2>12. QueueShrinks(o)
    BY <2>2, <2>3, <2>10, <2>11 DEF QueueShrinks, order, lvl, x
  <2> QED BY <2>9, <2>12
<1> QED BY <1>8, <1>9

\* Taking an order out keeps the lists as they have to be.
LEMMA RemovalKeeps ==
    ASSUME IInv, StructInv, pc \in {"idle", "match"}, NEW o \in LiveOrders,
           NEW x, x = Index(o),
           OneGone(o), LevelGoes(o) \/ QueueShrinks(o),
           UNCHANGED <<pc, next_market_order_id>>, taker'.id = taker.id
    PROVE  StructInv'
<1> DEFINE lvl == price_orders_at_price[x]
<1>1. /\ x \in PriceIndex /\ o \in AtIndex(x) /\ lvl \in Id /\ lvl \in LiveLevels
      /\ PriceToIndex(levels[lvl].price) = x
      /\ IsFirst(AtIndex(x), Arrival, levels[lvl].first)
  BY QueueOfOrder DEF IInv, StructInv
<1>2. Ring(AtIndex(x), orders, Arrival) /\ Keys(AtIndex(x), Arrival)
  BY <1>1, ArrivalKeys DEF StructInv, QueueInv
<1>3. /\ LiveOrders' = LiveOrders \ {o}
      /\ \A k \in LiveOrders' : SameOrder(orders'[k], orders[k])
      /\ o \in Id
  BY DEF OneGone, LiveOrders
<1>4. \A y : AtIndex(y)' = AtIndex(y) \ {o}
  BY <1>3 DEF AtIndex, Index, SameOrder
<1>5. \A y : y # x => AtIndex(y)' = AtIndex(y)
  BY <1>4 DEF AtIndex
<1>6. \A l \in Id : /\ levels'[l].side = levels[l].side /\ levels'[l].price = levels[l].price
                    /\ levels'[l].live => levels[l].live
  BY DEF LevelGoes, QueueShrinks, LevelReturned, SameLevel
<1>7. FreshInv' /\ QtyInv'
  <2>1. FreshInv'
    BY <1>3, <1>6 DEF IInv, TakerInv, StructInv, FreshInv, LiveOrders
  <2>2. QtyInv'
    BY <1>3 DEF StructInv, QtyInv, SameOrder
  <2> QED BY <2>1, <2>2
<1>8. \A y \in PriceIndex, l \in LiveLevels :
         price_orders_at_price[y] = l <=> PriceToIndex(levels[l].price) = y
  BY DEF StructInv, MapInv, GetOrdersAtPrice, LiveLevels, Id, Null
<1>9. Placed = LiveLevels /\ Placed' = LiveLevels' /\ pc # "crashed"
  BY DEF Placed
<1>10. CASE LevelGoes(o)
  <2>1. /\ AtIndex(x) = {o} /\ AtIndex(x)' = {}
        /\ price_orders_at_price' = [price_orders_at_price EXCEPT ![x] = Null]
        /\ \A k \in Id \ {o} : orders'[k].next = orders[k].next /\ orders'[k].prev = orders[k].prev
        /\ LiveLevels' = LiveLevels \ {lvl}
        /\ \A l \in Id : levels'[l].first = levels[l].first
    <3>1. AtIndex(x) = {o} /\ \A l \in Id : levels'[l].live = (levels[l].live /\ l # lvl)
      BY <1>10 DEF LevelGoes, LevelReturned
    <3>2. LiveLevels' = LiveLevels \ {lvl}
      BY <3>1 DEF LiveLevels
    <3>3. AtIndex(x)' = {}
      BY <1>4, <3>1
    <3> QED BY <1>10, <3>1, <3>2, <3>3 DEF LevelGoes, LevelReturned
  <2>2. MapInv'
    <3>1. ASSUME NEW l \in LiveLevels' PROVE GetOrdersAtPrice(levels[l].price)' = l
      <4>1. l \in LiveLevels /\ l # lvl /\ l \in Id
        BY <2>1 DEF LiveLevels
      <4>2. GetOrdersAtPrice(levels[l].price) = l
        BY <4>1 DEF StructInv, MapInv
      <4>3. PriceToIndex(levels[l].price) # x /\ PriceToIndex(levels[l].price) \in PriceIndex
        BY <1>1, <1>8, <4>1, IndexInRange DEF IInv, TypeOK, LevelRecord
      <4>4. levels'[l].price = levels[l].price
        BY <1>6, <4>1
      <4> QED BY <2>1, <4>2, <4>3, <4>4 DEF GetOrdersAtPrice, IInv, TypeOK
    <3>2. ASSUME NEW y \in PriceIndex
          PROVE  LET l == price_orders_at_price'[y]
                 IN  IF l = Null THEN AtIndex(y)' = {}
                     ELSE /\ levels'[l].live /\ PriceToIndex(levels'[l].price) = y
                          /\ IsFirst(AtIndex(y)', Arrival, levels'[l].first)
      <4>1. CASE y = x
        BY <2>1, <4>1, <1>1 DEF IInv, TypeOK
      <4>2. CASE y # x
        <5> DEFINE l == price_orders_at_price[y]
        <5>1. price_orders_at_price'[y] = l /\ AtIndex(y)' = AtIndex(y)
          BY <1>5, <2>1, <4>2 DEF IInv, TypeOK
        <5>2. CASE l = Null
          BY <5>1, <5>2 DEF StructInv, MapInv
        <5>3. CASE l # Null
          <6>1. l \in Id /\ levels[l].live /\ PriceToIndex(levels[l].price) = y
                /\ IsFirst(AtIndex(y), Arrival, levels[l].first)
            BY <5>3 DEF StructInv, MapInv, IInv, TypeOK, Pointer
          <6>2. l # lvl
            BY <1>1, <4>2, <6>1
          <6>3. levels'[l].live /\ levels'[l].first = levels[l].first /\ levels'[l].price = levels[l].price
            BY <1>6, <2>1, <6>1, <6>2 DEF LiveLevels
          <6> QED BY <5>1, <5>3, <6>1, <6>3
        <5> QED BY <5>2, <5>3
      <4> QED BY <4>1, <4>2
    <3> QED BY <3>1, <3>2 DEF MapInv, Arrival, IsFirst
  <2>3. QueueInv'
    <3> SUFFICES ASSUME NEW y \in PriceIndex
                 PROVE  /\ Ring(AtIndex(y)', orders', Arrival)
                        /\ \A j, k \in AtIndex(y)' : j < k => orders'[j].priority < orders'[k].priority
      BY DEF QueueInv, Ring, Follows, Arrival
    <3>1. CASE y = x
      BY <2>1, <3>1 DEF Ring
    <3>2. CASE y # x
      <4>1. AtIndex(y)' = AtIndex(y) /\ AtIndex(y) \subseteq LiveOrders'
        BY <1>5, <3>2 DEF AtIndex
      <4>2. Ring(AtIndex(y), orders, Arrival)
            /\ \A j, k \in AtIndex(y) : j < k => orders[j].priority < orders[k].priority
        BY DEF StructInv, QueueInv
      <4>3. \A k \in AtIndex(y) : /\ orders'[k].next = orders[k].next
                                  /\ orders'[k].prev = orders[k].prev
                                  /\ orders'[k].priority = orders[k].priority
        BY <1>3, <2>1, <4>1 DEF LiveOrders, SameOrder
      <4> QED BY <4>1, <4>2, <4>3 DEF Ring
    <3> QED BY <3>1, <3>2
  <2>4. LinkedInv'
    <3> SUFFICES ASSUME NEW l \in LiveLevels'
                 PROVE  levels'[l].prev # Null /\ levels'[l].next # Null
      BY <1>9 DEF LinkedInv
    <3>1. l \in LiveLevels /\ l \in Id /\ l # lvl /\ levels[l].prev # Null /\ levels[l].next # Null
      BY <1>9, <2>1 DEF StructInv, LinkedInv, LiveLevels
    <3>2. \A k \in Id : k # Null
      BY DEF Id, Null
    <3> QED BY <1>10, <3>1, <3>2 DEF LevelGoes, LinksKept, Unlinked
  <2> QED BY <1>7, <2>2, <2>3, <2>4 DEF StructInv
<1>11. CASE QueueShrinks(o)
  <2>1. /\ orders[o].next # o /\ Unlinked(Id, orders, o, orders')
        /\ \A l \in Id : /\ levels'[l].live = levels[l].live
                         /\ levels'[l].next = levels[l].next /\ levels'[l].prev = levels[l].prev
                         /\ levels'[l].first = IF l = lvl /\ levels[l].first = o
                                               THEN orders[o].next ELSE levels[l].first
        /\ price_orders_at_price' = price_orders_at_price
        /\ LiveLevels' = LiveLevels
    BY <1>11 DEF QueueShrinks, LiveLevels
  <2>2. /\ Ring(AtIndex(x)', orders', Arrival)
        /\ IsFirst(AtIndex(x), Arrival, o) => IsFirst(AtIndex(x)', Arrival, orders[o].next)
    <3>1. AtIndex(x) \subseteq Id
      BY DEF AtIndex, LiveOrders
    <3>2. Unlinked(AtIndex(x), orders, o, orders')
      BY <2>1, <3>1 DEF Unlinked
    <3> QED BY <1>1, <1>2, <1>4, <2>1, <3>2, RingRemove
  <2>3. MapInv'
    <3>1. ASSUME NEW l \in LiveLevels' PROVE GetOrdersAtPrice(levels[l].price)' = l
      BY <1>6, <2>1 DEF StructInv, MapInv, GetOrdersAtPrice, LiveLevels
    <3>2. ASSUME NEW y \in PriceIndex
          PROVE  LET l == price_orders_at_price'[y]
                 IN  IF l = Null THEN AtIndex(y)' = {}
                     ELSE /\ levels'[l].live /\ PriceToIndex(levels'[l].price) = y
                          /\ IsFirst(AtIndex(y)', Arrival, levels'[l].first)
      <4> DEFINE l == price_orders_at_price[y]
      <4>1. CASE l = Null
        BY <1>4, <2>1, <4>1 DEF StructInv, MapInv
      <4>2. CASE l # Null
        <5>1. l \in Id /\ levels[l].live /\ PriceToIndex(levels[l].price) = y
              /\ IsFirst(AtIndex(y), Arrival, levels[l].first)
          BY <4>2 DEF StructInv, MapInv, IInv, TypeOK, Pointer
        <5>2. levels'[l].live /\ PriceToIndex(levels'[l].price) = y
          BY <1>6, <2>1, <5>1
        <5>3. IsFirst(AtIndex(y)', Arrival, levels'[l].first)
          <6>1. CASE y = x
            <7>1. l = lvl
              BY <6>1
            <7>2. CASE levels[l].first = o
              BY <2>1, <2>2, <5>1, <6>1, <7>1, <7>2
            <7>3. CASE levels[l].first # o
              BY <1>4, <2>1, <5>1, <7>3 DEF IsFirst
            <7> QED BY <7>2, <7>3
          <6>2. CASE y # x
            <7>1. l # lvl
              BY <1>1, <5>1, <6>2
            <7> QED BY <1>5, <2>1, <5>1, <6>2, <7>1
          <6> QED BY <6>1, <6>2
        <5> QED BY <2>1, <4>2, <5>2, <5>3
      <4> QED BY <4>1, <4>2
    <3> QED BY <3>1, <3>2 DEF MapInv, Arrival, IsFirst
  <2>4. QueueInv'
    <3> SUFFICES ASSUME NEW y \in PriceIndex
                 PROVE  /\ Ring(AtIndex(y)', orders', Arrival)
                        /\ \A j, k \in AtIndex(y)' : j < k => orders'[j].priority < orders'[k].priority
      BY DEF QueueInv, Ring, Follows, Arrival
    <3>1. \A j, k \in AtIndex(y)' : j < k => orders'[j].priority < orders'[k].priority
      <4>1. \A k \in AtIndex(y)' : k \in AtIndex(y) /\ orders'[k].priority = orders[k].priority
        BY <1>3, <1>4 DEF SameOrder, AtIndex
      <4> QED BY <4>1 DEF StructInv, QueueInv
    <3>2. CASE y = x
      BY <2>2, <3>1, <3>2
    <3>3. CASE y # x
      <4>1. AtIndex(y)' = AtIndex(y) /\ AtIndex(y) \subseteq Id \ {o}
        BY <1>5, <3>3 DEF AtIndex, LiveOrders
      <4>2. Ring(AtIndex(y), orders, Arrival)
        BY DEF StructInv, QueueInv
      <4>3. orders[o].prev \notin AtIndex(y) /\ orders[o].next \notin AtIndex(y)
        BY <1>1, <1>2, <3>3 DEF Ring, AtIndex
      <4>4. \A k \in AtIndex(y) : orders'[k].next = orders[k].next /\ orders'[k].prev = orders[k].prev
        BY <2>1, <4>1, <4>3 DEF Unlinked
      <4>5. Ring(AtIndex(y), orders', Arrival)
        BY <4>2, <4>4 DEF Ring
      <4> QED BY <3>1, <4>1, <4>5
    <3> QED BY <3>2, <3>3
  <2>5. LinkedInv'
    BY <1>9, <2>1 DEF StructInv, LinkedInv, LiveLevels
  <2> QED BY <1>7, <2>3, <2>4, <2>5 DEF StructInv
<1> QED BY <1>10, <1>11

\* Steps that leave the queues and the map alone.
QueuesAlike ==
    /\ \A k \in Id : /\ orders'[k].live = orders[k].live /\ orders'[k].price = orders[k].price
                     /\ orders'[k].next = orders[k].next /\ orders'[k].prev = orders[k].prev
                     /\ orders'[k].priority = orders[k].priority
    /\ \A l \in Id : /\ levels'[l].live = levels[l].live /\ levels'[l].price = levels[l].price
                     /\ levels'[l].first = levels[l].first
    /\ price_orders_at_price' = price_orders_at_price

\* A step that leaves the queues and the map alone keeps what holds of them.
LEMMA AlikeKeeps == ASSUME TypeOK, MapInv, QueueInv, QueuesAlike PROVE MapInv' /\ QueueInv'
<1>1. LiveOrders' = LiveOrders /\ LiveLevels' = LiveLevels
  BY DEF QueuesAlike, LiveOrders, LiveLevels
<1>2. ASSUME NEW y PROVE AtIndex(y)' = AtIndex(y)
  BY <1>1 DEF QueuesAlike, AtIndex, Index, LiveOrders
<1>3. MapInv'
  <2>1. ASSUME NEW l \in LiveLevels' PROVE GetOrdersAtPrice(levels[l].price)' = l
    BY <1>1 DEF QueuesAlike, MapInv, GetOrdersAtPrice, LiveLevels
  <2>2. ASSUME NEW y \in PriceIndex
        PROVE  LET l == price_orders_at_price'[y]
               IN  IF l = Null THEN AtIndex(y)' = {}
                   ELSE /\ levels'[l].live /\ PriceToIndex(levels'[l].price) = y
                        /\ IsFirst(AtIndex(y)', Arrival, levels'[l].first)
    <3> DEFINE l == price_orders_at_price[y]
    <3>1. l \in Id \/ l = Null
      BY DEF TypeOK, Pointer
    <3>2. price_orders_at_price'[y] = l
      BY DEF QueuesAlike
    <3>3. CASE l = Null
      BY <1>2, <3>2, <3>3 DEF MapInv
    <3>4. CASE l # Null
      <4>1. levels[l].live /\ PriceToIndex(levels[l].price) = y
            /\ IsFirst(AtIndex(y), Arrival, levels[l].first)
        BY <3>4 DEF MapInv
      <4>2. /\ levels'[l].live = levels[l].live /\ levels'[l].price = levels[l].price
            /\ levels'[l].first = levels[l].first
        BY <3>1, <3>4 DEF QueuesAlike
      <4> QED BY <1>2, <3>2, <3>4, <4>1, <4>2
    <3> QED BY <3>3, <3>4
  <2> QED BY <2>1, <2>2 DEF MapInv, Arrival, IsFirst
<1>4. QueueInv'
  <2> SUFFICES ASSUME NEW y \in PriceIndex
               PROVE  /\ Ring(AtIndex(y)', orders', Arrival)
                      /\ \A j, k \in AtIndex(y)' : j < k => orders'[j].priority < orders'[k].priority
    BY DEF QueueInv, Ring, Follows, Arrival
  <2>1. Ring(AtIndex(y), orders, Arrival)
        /\ \A j, k \in AtIndex(y) : j < k => orders[j].priority < orders[k].priority
    BY DEF QueueInv
  <2>2. \A k \in AtIndex(y) : /\ orders'[k].next = orders[k].next
                              /\ orders'[k].prev = orders[k].prev
                              /\ orders'[k].priority = orders[k].priority
    BY DEF QueuesAlike, AtIndex, LiveOrders
  <2>3. AtIndex(y)' = AtIndex(y)
    BY <1>2
  <2> QED BY <2>1, <2>2, <2>3 DEF Ring
<1> QED BY <1>3, <1>4

\* The empty book.
LEMMA StructInit == Init => StructInv
<1> SUFFICES ASSUME Init PROVE StructInv
  OBVIOUS
<1>1. LiveOrders = {} /\ LiveLevels = {} /\ pc = "idle"
  BY DEF Init, LiveOrders, LiveLevels, NoOrder, NoLevel
<1>2. \A y : AtIndex(y) = {}
  BY <1>1 DEF AtIndex
<1>3. MapInv
  BY <1>1, <1>2 DEF Init, MapInv
<1>4. QueueInv
  BY <1>2 DEF QueueInv, Ring
<1>5. FreshInv
  BY <1>1 DEF FreshInv, LiveOrders, LiveLevels
<1>6. LinkedInv /\ QtyInv
  BY <1>1 DEF LinkedInv, Placed, QtyInv
<1> QED BY <1>3, <1>4, <1>5, <1>6 DEF StructInv

\* add() up to the matching.
LEMMA StructAdd ==
    ASSUME IInv, StructInv, NEW c, NEW i, NEW side, NEW price, NEW qty, Add(c, i, side, price, qty)
    PROVE  StructInv'
<1>1. /\ UNCHANGED <<orders, levels, price_orders_at_price>>
      /\ pc = "idle" /\ pc' = "match" /\ taker'.id = next_market_order_id
      /\ next_market_order_id' = next_market_order_id + 1
      /\ next_market_order_id \in Id /\ TypeOK
  BY DEF Add, book, lists, IInv, TypeOK, Id
<1>2. MapInv' /\ QueueInv'
  BY <1>1, AlikeKeeps DEF StructInv, QueuesAlike
<1>3. FreshInv'
  <2>1. \A o \in Id : (orders[o].live \/ levels[o].live) => o < next_market_order_id
    BY DEF StructInv, FreshInv
  <2> QED BY <1>1, <2>1 DEF FreshInv, Id
<1>4. LinkedInv' /\ QtyInv'
  BY <1>1 DEF StructInv, LinkedInv, Placed, QtyInv, LiveLevels, LiveOrders
<1> QED BY <1>2, <1>3, <1>4 DEF StructInv

\* A fill that leaves something of the touched order.
LEMMA StructPartialFill ==
    ASSUME IInv, StructInv, pc = "match", NEW o \in Id, NEW left \in Nat \ {0},
           orders' = [orders EXCEPT ![o].qty = left],
           UNCHANGED <<levels, price_orders_at_price, pc, next_market_order_id>>,
           taker'.id = taker.id
    PROVE  StructInv'
<1>1. TypeOK /\ \A k \in Id : orders[k] \in OrderRecord
  BY DEF IInv, TypeOK
<1>2. \A k \in Id : /\ SameOrder(orders'[k], [orders[k] EXCEPT !.qty = orders'[k].qty])
                    /\ orders'[k].live = orders[k].live /\ orders'[k].price = orders[k].price
                    /\ orders'[k].next = orders[k].next /\ orders'[k].prev = orders[k].prev
                    /\ orders'[k].priority = orders[k].priority
                    /\ orders'[k].qty = IF k = o THEN left ELSE orders[k].qty
  BY <1>1 DEF SameOrder, OrderRecord, TypeOK
<1>3. MapInv' /\ QueueInv'
  BY <1>1, <1>2, AlikeKeeps DEF StructInv, QueuesAlike
<1>4. FreshInv'
  BY <1>2 DEF StructInv, FreshInv
<1>5. LinkedInv'
  BY DEF StructInv, LinkedInv, Placed, LiveLevels
<1>6. QtyInv'
  BY <1>2 DEF StructInv, QtyInv, LiveOrders
<1> QED BY <1>3, <1>4, <1>5, <1>6 DEF StructInv

\* Steps that change nothing of the lists and leave add() or stay where they are.
LEMMA StructIdle ==
    ASSUME IInv, StructInv, UNCHANGED <<orders, levels, price_orders_at_price, next_market_order_id>>,
           \/ UNCHANGED <<pc, taker>>
           \/ pc = "match" /\ pc' = "idle"
           \/ pc = "idle" /\ pc' = "fatal"
           \/ pc' = "crashed"
    PROVE  StructInv'
<1>1. TypeOK /\ MapInv' /\ QueueInv'
  BY AlikeKeeps DEF IInv, StructInv, QueuesAlike
<1>2. FreshInv'
  BY DEF StructInv, FreshInv
<1>3. LinkedInv' /\ QtyInv'
  BY DEF StructInv, LinkedInv, Placed, QtyInv, LiveLevels, LiveOrders
<1> QED BY <1>1, <1>2, <1>3 DEF StructInv

\* What an order that joins a level does to the lists: it goes between the last
\* and the first of the entry.
JoinsQueue(x) ==
    LET first == levels[price_orders_at_price[x]].first
        last == orders[first].prev
    IN  /\ price_orders_at_price[x] \in LiveLevels
        /\ IsFirst(AtIndex(x), Arrival, first) /\ IsLast(AtIndex(x), Arrival, last)
        /\ LinkedIn(Id \ {taker.id}, orders, taker.id, first, orders')
        /\ \A k \in Id \ {taker.id} : /\ SameOrder(orders'[k], orders[k])
                                      /\ orders'[k].live = orders[k].live
        /\ orders'[taker.id].priority = orders[last].priority + 1

\* The order that came to rest has what the taker brought.
TakerRests == /\ orders'[taker.id].live
              /\ orders'[taker.id].side = taker.side /\ orders'[taker.id].price = taker.price
              /\ orders'[taker.id].qty = taker.leaves
              /\ orders'[taker.id].client = taker.client /\ orders'[taker.id].coid = taker.coid

\* add() on a price that has a level puts the order behind the last of it.
LEMMA JoinLinks ==
    ASSUME IInv, StructInv, JoinLevel, NEW x, x = PriceToIndex(taker.price)
    PROVE  x \in PriceIndex /\ JoinsQueue(x) /\ TakerRests
<1> DEFINE lvl == price_orders_at_price[x]
           first == levels[lvl].first
           last == orders[first].prev
           new == NewOrder(NextPriority(lvl), last, first)
           f1 == WithNext(orders, last, taker.id)
           f2 == WithPrev(f1, first, taker.id)
<1>1. /\ TypeOK /\ taker.id \in Id /\ taker.id \in Pointer /\ taker.price \in Int
      /\ pc = "match" /\ ~orders[taker.id].live /\ lvl # Null
  BY ZenonT(30) DEF IInv, TypeOK, TakerInv, TakerRecord, JoinLevel, Resting, Pointer, GetOrdersAtPrice
<1>2. x \in PriceIndex
  BY <1>1, IndexInRange
<1>3. lvl \in Id /\ lvl \in LiveLevels /\ IsFirst(AtIndex(x), Arrival, first)
  BY <1>1, <1>2 DEF StructInv, MapInv, LiveLevels, TypeOK, Pointer
<1>4. Ring(AtIndex(x), orders, Arrival) /\ Keys(AtIndex(x), Arrival)
  BY <1>2, ArrivalKeys DEF StructInv, QueueInv
<1>5. IsLast(AtIndex(x), Arrival, last)
  BY <1>3, <1>4, BeforeFirst
<1>6. first \in Id /\ last \in Id /\ last # taker.id /\ first # taker.id
  BY <1>1, <1>3, <1>5 DEF IsFirst, IsLast, AtIndex, LiveOrders
<1>7. orders' = [f2 EXCEPT ![taker.id] = new]
  BY ZenonT(30) DEF JoinLevel, GetOrdersAtPrice, WithNext, WithPrev
<1>8. /\ new.next = first /\ new.prev = last /\ new.priority = NextPriority(lvl) /\ new.live
      /\ new.side = taker.side /\ new.price = taker.price /\ new.qty = taker.leaves
      /\ new.client = taker.client /\ new.coid = taker.coid
  BY DEF NewOrder
<1>9. NextPriority(lvl) = orders[last].priority + 1
  BY <1>1 DEF NextPriority
<1> HIDE DEF lvl, first, last, new
<1>10. f1 \in [Id -> OrderRecord] /\ OrdersAlike(f1, orders) /\ NextSet(f1, orders, last, taker.id)
  <2>1. orders \in [Id -> OrderRecord]
    BY <1>1 DEF TypeOK
  <2> QED BY <1>1, <1>6, <2>1, OrderUpdate
<1> HIDE DEF f1
<1>11. f2 \in [Id -> OrderRecord] /\ OrdersAlike(f2, f1) /\ PrevSet(f2, f1, first, taker.id)
  BY <1>1, <1>6, <1>10, OrderUpdate
<1> HIDE DEF f2
<1>12. orders'[taker.id] = new /\ \A k \in Id \ {taker.id} : orders'[k] = f2[k]
  BY <1>1, <1>7, <1>11
<1>13. \A k \in Id \ {taker.id} :
         /\ SameOrder(orders'[k], orders[k]) /\ orders'[k].live = orders[k].live
         /\ orders'[k].next = IF k = last THEN taker.id ELSE orders[k].next
         /\ orders'[k].prev = IF k = first THEN taker.id ELSE orders[k].prev
  BY <1>10, <1>11, <1>12 DEF OrdersAlike, NextSet, PrevSet, SameOrder
<1>14. LinkedIn(Id \ {taker.id}, orders, taker.id, first, orders')
  BY <1>8, <1>12, <1>13 DEF LinkedIn, last
<1>15. TakerRests
  BY <1>8, <1>12 DEF TakerRests
<1> QED BY ZenonT(30), <1>2, <1>3, <1>5, <1>8, <1>9, <1>12, <1>13, <1>14, <1>15 DEF JoinsQueue, last, first, lvl

\* The order that is worked on came after all that rest.
LEMMA TakerIsLatest ==
    ASSUME IInv, StructInv, pc \in {"match", "walk"}
    PROVE  /\ taker.id \in Id
           /\ \A o \in Id : orders[o].live /\ o # taker.id => o < taker.id
           /\ \A l \in Id : levels[l].live /\ l # taker.id => l < taker.id
BY DEF IInv, TakerInv, StructInv, FreshInv, Id

\* An order joins the queue of its entry.
LEMMA StructJoin == ASSUME IInv, StructInv, JoinLevel PROVE StructInv'
<1>0. PICK x : x = PriceToIndex(taker.price)
  OBVIOUS
<1> DEFINE lvl == price_orders_at_price[x]
           first == levels[lvl].first
           last == orders[first].prev
<1>1. x \in PriceIndex /\ JoinsQueue(x) /\ TakerRests
  BY <1>0, JoinLinks
<1>2. PICK new : new = taker.id
  OBVIOUS
<1>3. /\ TypeOK /\ new \in Id /\ pc = "match" /\ pc' = "idle" /\ ~orders[new].live
      /\ UNCHANGED <<levels, price_orders_at_price, next_market_order_id>>
      /\ taker.leaves > 0
  BY ZenonT(30), <1>2 DEF IInv, TakerInv, JoinLevel, Resting, Rested, lists
<1>4. /\ LinkedIn(Id \ {new}, orders, new, first, orders')
      /\ \A k \in Id \ {new} : SameOrder(orders'[k], orders[k]) /\ orders'[k].live = orders[k].live
      /\ orders'[new].live /\ orders'[new].price = taker.price /\ orders'[new].qty = taker.leaves
      /\ orders'[new].priority = orders[last].priority + 1
      /\ IsFirst(AtIndex(x), Arrival, first) /\ IsLast(AtIndex(x), Arrival, last)
      /\ lvl \in LiveLevels
  BY <1>1, <1>2 DEF JoinsQueue, TakerRests
<1>5. LiveOrders' = LiveOrders \cup {new} /\ new \notin LiveOrders
  BY <1>3, <1>4 DEF LiveOrders
<1>6. AtIndex(x)' = AtIndex(x) \cup {new} /\ new \notin AtIndex(x)
      /\ \A y : y # x => AtIndex(y)' = AtIndex(y)
  <2>1. \A k \in LiveOrders : orders'[k].price = orders[k].price
    BY <1>4, <1>5 DEF SameOrder, LiveOrders
  <2>2. orders'[new].price = taker.price
    BY <1>4
  <2> HIDE DEF first, last, lvl
  <2>3. ASSUME NEW y
        PROVE  AtIndex(y)' = {o \in LiveOrders \cup {new} : PriceToIndex(orders'[o].price) = y}
    BY <1>5 DEF AtIndex, Index
  <2>4. \A y : AtIndex(y) = {o \in LiveOrders : PriceToIndex(orders[o].price) = y}
    BY DEF AtIndex, Index
  <2>5. AtIndex(x)' = AtIndex(x) \cup {new}
    BY <1>0, <2>1, <2>2, <2>3, <2>4
  <2>6. ASSUME NEW y, y # x PROVE AtIndex(y)' = AtIndex(y)
    BY <1>0, <2>1, <2>2, <2>3, <2>4, <2>6
  <2>7. new \notin AtIndex(x)
    BY <1>5, <2>4
  <2> QED BY <2>5, <2>6, <2>7
<1>8. \A o \in LiveOrders : o < new /\ o \in Int
  BY <1>2, <1>3, TakerIsLatest DEF LiveOrders, Id
<1>9. /\ Ring(AtIndex(x) \cup {new}, orders', Arrival)
      /\ IsFirst(AtIndex(x) \cup {new}, Arrival, first)
  <2>1. IsLast(AtIndex(x) \cup {new}, Arrival, new)
    BY <1>3, <1>8 DEF IsLast, Arrival, AtIndex, LiveOrders, Id
  <2>2. IsFirst(AtIndex(x) \cup {new}, Arrival, first)
    <3> HIDE DEF first
    <3>1. IsFirst(AtIndex(x), Arrival, first)
      BY <1>4
    <3>2. \A o \in AtIndex(x) : o \in Id /\ o < new
      BY <1>8 DEF AtIndex, LiveOrders
    <3>3. Arrival[new] = new /\ \A o \in AtIndex(x) : Arrival[o] = o /\ o \in Int
      BY <1>3, <3>2 DEF Arrival, Id
    <3> QED BY <3>1, <3>2, <3>3, <1>3 DEF IsFirst, Id
  <2>3. Keys(AtIndex(x) \cup {new}, Arrival)
    BY <1>3 DEF Keys, Arrival, AtIndex, LiveOrders, Id
  <2>4. LinkedIn(AtIndex(x), orders, new, first, orders')
    BY <1>4, <1>6 DEF LinkedIn, AtIndex, LiveOrders
  <2>5. Ring(AtIndex(x), orders, Arrival)
    BY <1>1 DEF StructInv, QueueInv
  <2> HIDE DEF first
  <2> QED BY <1>4, <1>6, <2>1, <2>2, <2>3, <2>4, <2>5, RingInsert
<1>10. MapInv'
  <2>1. ASSUME NEW l \in LiveLevels' PROVE GetOrdersAtPrice(levels[l].price)' = l
    BY <1>3 DEF StructInv, MapInv, GetOrdersAtPrice, LiveLevels
  <2>2. ASSUME NEW y \in PriceIndex
        PROVE  LET l == price_orders_at_price'[y]
               IN  IF l = Null THEN AtIndex(y)' = {}
                   ELSE /\ levels'[l].live /\ PriceToIndex(levels'[l].price) = y
                        /\ IsFirst(AtIndex(y)', Arrival, levels'[l].first)
    <3>1. CASE y = x
      <4>1. lvl # Null
        BY <1>4 DEF LiveLevels, Id, Null
      <4>2. levels[lvl].live /\ PriceToIndex(levels[lvl].price) = x
        BY <1>1, <4>1 DEF StructInv, MapInv
      <4>3. IsFirst(AtIndex(x)', Arrival, first)
        BY <1>6, <1>9
      <4> QED BY <1>3, <3>1, <4>1, <4>2, <4>3
    <3>2. CASE y # x
      BY <1>3, <1>6, <3>2 DEF StructInv, MapInv
    <3> QED BY <3>1, <3>2
  <2> QED BY <2>1, <2>2 DEF MapInv, Arrival, IsFirst
<1>11. QueueInv'
  <2> SUFFICES ASSUME NEW y \in PriceIndex
               PROVE  /\ Ring(AtIndex(y)', orders', Arrival)
                      /\ \A j, k \in AtIndex(y)' : j < k => orders'[j].priority < orders'[k].priority
    BY DEF QueueInv, Ring, Follows, Arrival
  <2>1. \A j, k \in AtIndex(y) : j < k => orders[j].priority < orders[k].priority
    BY DEF StructInv, QueueInv
  <2>2. \A k \in AtIndex(y) : orders'[k].priority = orders[k].priority /\ orders[k].priority \in Nat
    BY <1>3, <1>4 DEF AtIndex, LiveOrders, SameOrder, TypeOK, OrderRecord
  <2>3. CASE y = x
    <3>1. last \in AtIndex(x) /\ \A k \in AtIndex(x) : k <= last
      BY <1>4 DEF IsLast, Arrival, AtIndex, LiveOrders
    <3>2. \A k \in AtIndex(x) : orders[k].priority <= orders[last].priority
      BY <2>1, <2>2, <2>3, <3>1 DEF AtIndex, LiveOrders, Id
    <3>3. \A k \in AtIndex(x) : orders'[k].priority < orders'[new].priority /\ k < new
      <4>1. orders'[new].priority = orders[last].priority + 1 /\ orders[last].priority \in Nat
        BY <1>4, <2>2, <2>3, <3>1
      <4>2. \A k \in AtIndex(x) : orders'[k].priority = orders[k].priority /\ orders[k].priority \in Nat
        BY <2>2, <2>3
      <4>3. \A k \in AtIndex(x) : k < new
        BY <1>8 DEF AtIndex
      <4> HIDE DEF last
      <4> QED BY <3>2, <4>1, <4>2, <4>3
    <3>4. \A j, k \in AtIndex(x) \cup {new} : j < k => orders'[j].priority < orders'[k].priority
      BY <1>3, <2>1, <2>2, <2>3, <3>3 DEF AtIndex, LiveOrders, Id
    <3> QED BY <1>6, <1>9, <2>3, <3>4
  <2>4. CASE y # x
    <3>1. AtIndex(y)' = AtIndex(y) /\ AtIndex(y) \subseteq Id \ {new}
      BY <1>6, <1>5, <2>4 DEF AtIndex, LiveOrders
    <3>2. Ring(AtIndex(y), orders, Arrival)
      BY DEF StructInv, QueueInv
    <3>3. first \notin AtIndex(y) /\ last \notin AtIndex(y)
      BY <1>4, <2>4 DEF IsFirst, IsLast, AtIndex
    <3>4. \A k \in AtIndex(y) : orders'[k].next = orders[k].next /\ orders'[k].prev = orders[k].prev
      BY <1>4, <3>1, <3>3 DEF LinkedIn
    <3>5. Ring(AtIndex(y), orders', Arrival)
      BY <3>2, <3>4 DEF Ring
    <3> QED BY <2>1, <2>2, <3>1, <3>5
  <2> QED BY <2>3, <2>4
<1>12. FreshInv'
  BY <1>2, <1>3, <1>5 DEF StructInv, FreshInv, IInv, TakerInv, LiveOrders
<1>13. LinkedInv'
  BY <1>3 DEF StructInv, LinkedInv, Placed, LiveLevels
<1>14. QtyInv'
  BY <1>3, <1>4, <1>5 DEF StructInv, QtyInv, SameOrder, LiveOrders
<1> QED BY <1>10, <1>11, <1>12, <1>13, <1>14 DEF StructInv

\* What a new level and its first order do to the book.
OpensLevel(x) ==
    /\ AtIndex(x) = {} /\ price_orders_at_price[x] = Null
    /\ TakerRests /\ orders'[taker.id].next = taker.id /\ orders'[taker.id].prev = taker.id
    /\ \A k \in Id \ {taker.id} : orders'[k] = orders[k]
    /\ price_orders_at_price' = [price_orders_at_price EXCEPT ![x] = taker.id]
    /\ levels'[taker.id].live /\ levels'[taker.id].first = taker.id
    /\ levels'[taker.id].side = taker.side /\ levels'[taker.id].price = taker.price
    /\ \A l \in Id \ {taker.id} : levels'[l] = levels[l]

\* add() on a price without a level opens one for the order.
LEMMA NewLevelLinks ==
    ASSUME IInv, StructInv, NewLevel, NEW x, x = PriceToIndex(taker.price)
    PROVE  x \in PriceIndex /\ OpensLevel(x)
<1> DEFINE new == taker.id
           record == NewOrder(1, new, new)
           level(l) == [side |-> taker.side, price |-> taker.price, first |-> new,
                        prev |-> l, next |-> l, live |-> TRUE]
<1>1. /\ TypeOK /\ new \in Id /\ taker.price \in Int
      /\ GetOrdersAtPrice(taker.price) = Null
      /\ orders' = [orders EXCEPT ![new] = record]
      /\ price_orders_at_price' = [price_orders_at_price EXCEPT ![x] = new]
  BY DEF IInv, TypeOK, TakerInv, TakerRecord, NewLevel, Resting
<1>2. \E l : levels' = [levels EXCEPT ![new] = level(l)]
  BY DEF NewLevel
<1>3. levels'[new].live /\ levels'[new].first = new /\ levels'[new].side = taker.side
      /\ levels'[new].price = taker.price /\ \A l \in Id \ {new} : levels'[l] = levels[l]
  BY <1>1, <1>2 DEF TypeOK
<1>4. /\ record.next = new /\ record.prev = new /\ record.live
      /\ record.side = taker.side /\ record.price = taker.price /\ record.qty = taker.leaves
      /\ record.client = taker.client /\ record.coid = taker.coid
  BY DEF NewOrder
<1>5. x \in PriceIndex /\ price_orders_at_price[x] = Null /\ AtIndex(x) = {}
  BY <1>1, IndexInRange DEF GetOrdersAtPrice, StructInv, MapInv
<1> HIDE DEF record
<1>6. orders'[new] = record /\ \A k \in Id \ {new} : orders'[k] = orders[k]
  BY <1>1 DEF TypeOK
<1> QED BY <1>1, <1>3, <1>4, <1>5, <1>6 DEF OpensLevel, TakerRests

\* A new level is in the map, with its first order.
LEMMA StructNewLevel == ASSUME IInv, StructInv, NewLevel PROVE StructInv'
<1>0. PICK x : x = PriceToIndex(taker.price)
  OBVIOUS
<1>1. x \in PriceIndex /\ OpensLevel(x)
  BY <1>0, NewLevelLinks
<1>2. PICK new : new = taker.id
  OBVIOUS
<1>3. /\ TypeOK /\ new \in Id /\ pc = "match" /\ ~orders[new].live /\ ~levels[new].live
      /\ next_market_order_id' = next_market_order_id /\ taker.leaves > 0
      /\ new < next_market_order_id
  BY <1>2 DEF IInv, TakerInv, StructInv, FreshInv, NewLevel, Resting
<1>4. /\ AtIndex(x) = {} /\ price_orders_at_price[x] = Null
      /\ orders'[new].live /\ orders'[new].price = taker.price /\ orders'[new].qty = taker.leaves
      /\ orders'[new].side = taker.side
      /\ orders'[new].next = new /\ orders'[new].prev = new
      /\ \A k \in Id \ {new} : orders'[k] = orders[k]
      /\ price_orders_at_price' = [price_orders_at_price EXCEPT ![x] = new]
      /\ levels'[new].live /\ levels'[new].first = new
      /\ levels'[new].side = taker.side /\ levels'[new].price = taker.price
      /\ \A l \in Id \ {new} : levels'[l] = levels[l]
  BY <1>1, <1>2 DEF OpensLevel, TakerRests
<1>5. LiveOrders' = LiveOrders \cup {new} /\ new \notin LiveOrders
      /\ LiveLevels' = LiveLevels \cup {new} /\ new \notin LiveLevels
  BY <1>3, <1>4 DEF LiveOrders, LiveLevels
<1>6. AtIndex(x)' = {new} /\ \A y : y # x => AtIndex(y)' = AtIndex(y)
  <2>1. \A k \in LiveOrders : orders'[k].price = orders[k].price
    BY <1>4, <1>5 DEF LiveOrders
  <2>2. ASSUME NEW y
        PROVE  AtIndex(y)' = {o \in LiveOrders \cup {new} : PriceToIndex(orders'[o].price) = y}
    BY <1>5 DEF AtIndex, Index
  <2>3. \A y : AtIndex(y) = {o \in LiveOrders : PriceToIndex(orders[o].price) = y}
    BY DEF AtIndex, Index
  <2>4. AtIndex(x)' = {new}
    BY <1>0, <1>4, <2>1, <2>2, <2>3
  <2>5. ASSUME NEW y, y # x PROVE AtIndex(y)' = AtIndex(y)
    BY <1>0, <1>4, <2>1, <2>2, <2>3, <2>5
  <2> QED BY <2>4, <2>5
<1>7. MapInv'
  <2>1. ASSUME NEW l \in LiveLevels' PROVE GetOrdersAtPrice(levels[l].price)' = l
    <3>1. CASE l = new
      BY <1>0, <1>1, <1>3, <1>4, <3>1 DEF GetOrdersAtPrice, TypeOK
    <3>2. CASE l # new
      <4>1. l \in LiveLevels /\ l \in Id /\ levels'[l].price = levels[l].price /\ l # Null
        BY <1>4, <1>5, <3>2 DEF LiveLevels, Id, Null
      <4>2. GetOrdersAtPrice(levels[l].price) = l /\ levels[l].price \in Int
        BY <1>3, <4>1 DEF StructInv, MapInv, TypeOK, LevelRecord
      <4>3. PriceToIndex(levels[l].price) \in PriceIndex /\ PriceToIndex(levels[l].price) # x
        BY <1>4, <4>1, <4>2, IndexInRange DEF GetOrdersAtPrice
      <4> QED BY <1>3, <1>4, <4>1, <4>2, <4>3 DEF GetOrdersAtPrice, TypeOK
    <3> QED BY <3>1, <3>2
  <2>2. ASSUME NEW y \in PriceIndex
        PROVE  LET l == price_orders_at_price'[y]
               IN  IF l = Null THEN AtIndex(y)' = {}
                   ELSE /\ levels'[l].live /\ PriceToIndex(levels'[l].price) = y
                        /\ IsFirst(AtIndex(y)', Arrival, levels'[l].first)
    <3>1. CASE y = x
      <4>1. price_orders_at_price'[y] = new /\ new # Null
        BY <1>1, <1>3, <1>4, <3>1 DEF TypeOK, Id, Null
      <4>2. IsFirst({new}, Arrival, new)
        BY <1>3 DEF IsFirst, Arrival, Id
      <4> QED BY <1>0, <1>4, <1>6, <3>1, <4>1, <4>2
    <3>2. CASE y # x
      <4> DEFINE l == price_orders_at_price[y]
      <4>1. price_orders_at_price'[y] = l /\ AtIndex(y)' = AtIndex(y) /\ (l \in Id \/ l = Null)
        BY <1>3, <1>4, <1>6, <3>2 DEF TypeOK, Pointer
      <4>2. CASE l = Null
        BY <4>1, <4>2 DEF StructInv, MapInv
      <4>3. CASE l # Null
        <5>1. levels[l].live /\ PriceToIndex(levels[l].price) = y
              /\ IsFirst(AtIndex(y), Arrival, levels[l].first) /\ l \in Id
          BY <4>1, <4>3 DEF StructInv, MapInv
        <5>2. levels'[l] = levels[l]
          BY <1>3, <1>4, <5>1
        <5> QED BY <4>1, <4>3, <5>1, <5>2
      <4> QED BY <4>2, <4>3
    <3> QED BY <3>1, <3>2
  <2> QED BY <2>1, <2>2 DEF MapInv, Arrival, IsFirst
<1>8. QueueInv'
  <2> SUFFICES ASSUME NEW y \in PriceIndex
               PROVE  /\ Ring(AtIndex(y)', orders', Arrival)
                      /\ \A j, k \in AtIndex(y)' : j < k => orders'[j].priority < orders'[k].priority
    BY DEF QueueInv, Ring, Follows, Arrival
  <2>1. CASE y = x
    <3>1. Ring({new}, orders', Arrival)
      BY <1>3, <1>4 DEF Ring, Follows, Arrival, Id
    <3> QED BY <1>3, <1>6, <2>1, <3>1 DEF Id
  <2>2. CASE y # x
    <3>1. AtIndex(y)' = AtIndex(y) /\ \A k \in AtIndex(y) : orders'[k] = orders[k]
      BY <1>4, <1>5, <1>6, <2>2 DEF AtIndex, LiveOrders
    <3>2. Ring(AtIndex(y), orders, Arrival)
          /\ \A j, k \in AtIndex(y) : j < k => orders[j].priority < orders[k].priority
      BY DEF StructInv, QueueInv
    <3> QED BY <3>1, <3>2 DEF Ring
  <2> QED BY <2>1, <2>2
<1>9. FreshInv' /\ LinkedInv'
  <2>1. CASE pc' = "idle"
    <3>1. BestOrdersByPrice(taker.side) = Null /\ levels'[new].prev = new /\ levels'[new].next = new
      BY <1>2, <1>3, <2>1 DEF NewLevel, TypeOK
    <3>2. LinkedInv'
      BY <1>3, <1>4, <1>5, <2>1, <3>1 DEF StructInv, LinkedInv, Placed, LiveLevels, Id, Null
    <3>3. FreshInv'
      BY <1>3, <1>4, <1>5, <2>1 DEF StructInv, FreshInv, LiveOrders, LiveLevels
    <3> QED BY <3>2, <3>3
  <2>2. CASE pc' = "walk"
    <3>1. taker' = taker
      BY <2>2 DEF NewLevel, Rested
    <3>2. LinkedInv'
      BY <1>2, <1>3, <1>4, <1>5, <2>2, <3>1 DEF StructInv, LinkedInv, Placed, LiveLevels
    <3>3. FreshInv'
      BY <1>2, <1>3, <1>4, <1>5, <2>2, <3>1 DEF StructInv, FreshInv, LiveOrders, LiveLevels
    <3> QED BY <3>2, <3>3
  <2> QED BY <2>1, <2>2 DEF NewLevel, Rested
<1>10. QtyInv'
  BY <1>3, <1>4, <1>5 DEF StructInv, QtyInv, LiveOrders
<1> QED BY <1>7, <1>8, <1>9, <1>10 DEF StructInv

\* What linking a level in after the last one does.
LEMMA LinkAfterLinks ==
    ASSUME TypeOK, NEW new \in Id, NEW last \in Id, levels[last].next # Null, LinkAfter(new, last)
    PROVE  LET first == levels[last].next
           IN  /\ first \in Id /\ LevelsAlike(levels', levels)
               /\ \A l \in Id :
                    /\ levels'[l].next = IF l = last THEN new
                                         ELSE IF l = new THEN first ELSE levels[l].next
                    /\ levels'[l].prev = IF l = first THEN new
                                         ELSE IF l = new THEN last ELSE levels[l].prev
<1> DEFINE first == levels[last].next
           f1 == WithPrev(levels, new, last)
           f2 == WithPrev(f1, first, new)
           f3 == WithNext(f2, new, first)
           f4 == WithNext(f3, last, new)
<1>1. levels \in [Id -> LevelRecord] /\ first \in Id /\ Id \subseteq Pointer
  BY DEF TypeOK, LevelRecord, Pointer
<1>2. levels' = f4
  BY DEF LinkAfter, WithNext, WithPrev
<1> HIDE DEF first
<1>3. f1 \in [Id -> LevelRecord] /\ LevelsAlike(f1, levels) /\ PrevSet(f1, levels, new, last)
  BY <1>1, LevelUpdate
<1> HIDE DEF f1
<1>4. f2 \in [Id -> LevelRecord] /\ LevelsAlike(f2, f1) /\ PrevSet(f2, f1, first, new)
  BY <1>1, <1>3, LevelUpdate
<1> HIDE DEF f2
<1>5. f3 \in [Id -> LevelRecord] /\ LevelsAlike(f3, f2) /\ NextSet(f3, f2, new, first)
  BY <1>1, <1>4, LevelUpdate
<1> HIDE DEF f3
<1>6. LevelsAlike(f4, f3) /\ NextSet(f4, f3, last, new)
  BY <1>1, <1>5, LevelUpdate
<1> HIDE DEF f4
<1>7. LevelsAlike(levels', levels)
  BY <1>2, <1>3, <1>4, <1>5, <1>6, AlikeTwice
<1>8. \A l \in Id : /\ levels'[l].next = IF l = last THEN new
                                         ELSE IF l = new THEN first ELSE levels[l].next
                    /\ levels'[l].prev = IF l = first THEN new
                                         ELSE IF l = new THEN last ELSE levels[l].prev
  BY <1>2, <1>3, <1>4, <1>5, <1>6 DEF NextSet, PrevSet
<1> QED BY <1>1, <1>7, <1>8 DEF first

\* The link to the level that follows l, before the entry of the book is looked at.
NextOf(l, new, next) == IF l = levels[next].prev THEN new
                        ELSE IF l = new THEN next ELSE levels[l].next

\* What linking a level in before another does.
LEMMA LinkBeforeLinks ==
    ASSUME TypeOK, NEW new \in Id, NEW next \in Id, levels[next].prev # Null, LinkBefore(new, next)
    PROVE  LET prev == levels[next].prev
               best == BestOrdersByPrice(taker.side)
               becomesBest == Better(taker.side, taker.price, levels[next].price)
           IN  /\ prev \in Id /\ LevelsAlike(levels', levels)
               /\ \A l \in Id :
                    /\ levels'[l].next = IF becomesBest /\ l = next /\ NextOf(l, new, next) = best
                                         THEN new ELSE NextOf(l, new, next)
                    /\ levels'[l].prev = IF l = next THEN new
                                         ELSE IF l = new THEN prev ELSE levels[l].prev
<1> DEFINE prev == levels[next].prev
           best == BestOrdersByPrice(taker.side)
           becomesBest == Better(taker.side, taker.price, levels[next].price)
           f1 == WithPrev(levels, new, prev)
           f2 == WithNext(f1, new, next)
           f3 == WithNext(f2, prev, new)
           f4 == WithPrev(f3, next, new)
           x == IF f4[next].next = best THEN new ELSE f4[next].next
           f5 == WithNext(f4, next, x)
<1>1. levels \in [Id -> LevelRecord] /\ prev \in Id /\ Id \subseteq Pointer
  BY DEF TypeOK, LevelRecord, Pointer
<1>2. levels' = IF becomesBest THEN f5 ELSE f4
  <2>1. f4 = [levels EXCEPT ![new].prev = prev, ![new].next = next,
                            ![prev].next = new, ![next].prev = new]
    BY DEF WithNext, WithPrev
  <2>2. CASE becomesBest
    <3>1. levels' = [f4 EXCEPT ![next].next = IF @ = best THEN new ELSE @]
      BY ZenonT(30), <2>1, <2>2 DEF LinkBefore
    <3> HIDE DEF f4
    <3> QED BY <2>2, <3>1 DEF WithNext
  <2>3. CASE ~becomesBest
    BY <2>1, <2>3 DEF LinkBefore
  <2> QED BY <2>2, <2>3
<1> HIDE DEF prev, best, becomesBest
<1>3. f1 \in [Id -> LevelRecord] /\ LevelsAlike(f1, levels) /\ PrevSet(f1, levels, new, prev)
  BY <1>1, LevelUpdate
<1> HIDE DEF f1
<1>4. f2 \in [Id -> LevelRecord] /\ LevelsAlike(f2, f1) /\ NextSet(f2, f1, new, next)
  BY <1>1, <1>3, LevelUpdate
<1> HIDE DEF f2
<1>5. f3 \in [Id -> LevelRecord] /\ LevelsAlike(f3, f2) /\ NextSet(f3, f2, prev, new)
  BY <1>1, <1>4, LevelUpdate
<1> HIDE DEF f3
<1>6. f4 \in [Id -> LevelRecord] /\ LevelsAlike(f4, f3) /\ PrevSet(f4, f3, next, new)
  BY <1>1, <1>5, LevelUpdate
<1> HIDE DEF f4
<1>7. LevelsAlike(f4, levels)
  BY <1>3, <1>4, <1>5, <1>6, AlikeTwice
<1>8. \A l \in Id :
        /\ f4[l].next = NextOf(l, new, next)
        /\ f4[l].prev = IF l = next THEN new ELSE IF l = new THEN prev ELSE levels[l].prev
  BY <1>3, <1>4, <1>5, <1>6 DEF NextSet, PrevSet, NextOf, prev
<1>9. x \in Pointer
  BY <1>1, <1>6 DEF LevelRecord
<1> HIDE DEF x
<1>10. LevelsAlike(f5, f4) /\ NextSet(f5, f4, next, x)
  BY <1>1, <1>6, <1>9, LevelUpdate
<1> HIDE DEF f5
<1>11. LevelsAlike(levels', levels)
  BY <1>2, <1>7, <1>10, AlikeTwice
<1>12. CASE becomesBest
  BY <1>1, <1>2, <1>8, <1>10, <1>11, <1>12 DEF NextSet, x, prev, best, becomesBest
<1>13. CASE ~becomesBest
  BY <1>1, <1>2, <1>8, <1>11, <1>13 DEF prev, best, becomesBest
<1> QED BY <1>12, <1>13

\* Linking the new level in only changes links of levels, and leaves none null.
LEMMA StructSplice == ASSUME IInv, StructInv, Splice PROVE StructInv'
<1> DEFINE best == BestOrdersByPrice(taker.side)
           last == levels[best].prev
<1>1. /\ pc = "walk" /\ pc' = "idle" /\ taker.id \in Id /\ best \in Id /\ TypeOK
      /\ UNCHANGED <<orders, price_orders_at_price, next_market_order_id>>
  BY DEF Splice, Rested, IInv, TakerInv, TypeOK, BestOrdersByPrice, Pointer
<1>2. \A l \in Id : l # Null
  BY DEF Id, Null
<1>3. /\ LevelsAlike(levels', levels)
      /\ \A l \in Id :
                    /\ levels[l].prev # Null \/ l = taker.id => levels'[l].prev # Null
                    /\ levels[l].next # Null \/ l = taker.id => levels'[l].next # Null
  <2>1. CASE add_after
    <3>1. last # Null /\ levels[last].next # Null /\ LinkAfter(taker.id, last)
      BY <2>1 DEF Splice
    <3>2. last \in Id
      BY <1>1, <3>1 DEF TypeOK, LevelRecord, Pointer
    <3> HIDE DEF last
    <3> QED BY <1>1, <1>2, <3>1, <3>2, LinkAfterLinks
  <2>2. CASE ~add_after
    <3>1. levels[target].prev # Null /\ LinkBefore(taker.id, target)
      BY <2>2 DEF Splice
    <3>2. target \in Id
      BY <1>1, <2>2 DEF IInv, TakerInv, TypeOK, Pointer
    <3>3. LET prev == levels[target].prev
              becomesBest == Better(taker.side, taker.price, levels[target].price)
          IN  /\ prev \in Id /\ LevelsAlike(levels', levels)
              /\ \A l \in Id :
                   /\ levels'[l].next = IF becomesBest /\ l = target /\ NextOf(l, taker.id, target) = best
                                        THEN taker.id ELSE NextOf(l, taker.id, target)
                   /\ levels'[l].prev = IF l = target THEN taker.id
                                        ELSE IF l = taker.id THEN prev ELSE levels[l].prev
      BY <1>1, <3>1, <3>2, LinkBeforeLinks
    <3> QED BY <1>1, <1>2, <3>2, <3>3 DEF NextOf
  <2> QED BY <2>1, <2>2
<1>4. MapInv' /\ QueueInv'
  BY <1>1, <1>3, AlikeKeeps DEF StructInv, QueuesAlike, LevelsAlike, SameLevel
<1>5. FreshInv'
  BY <1>1, <1>3 DEF StructInv, FreshInv, LevelsAlike, SameLevel
<1>6. LinkedInv'
  BY <1>1, <1>3 DEF StructInv, LinkedInv, Placed, LiveLevels, LevelsAlike
<1>7. QtyInv'
  BY <1>1 DEF StructInv, QtyInv, LiveOrders
<1> QED BY <1>4, <1>5, <1>6, <1>7 DEF StructInv

\* What is left of the touched order.
LeftOfTouch == orders[Touch].qty - FillQty(orders[Touch].qty, taker.leaves)

\* A fill takes the touched order out, or leaves it where it is with less.
LEMMA MatchLinks ==
    ASSUME IInv, StructInv, Match
    PROVE  /\ Touch \in Id /\ LeftOfTouch \in Nat
           /\ IF LeftOfTouch = 0
              THEN /\ Touch \in LiveOrders /\ OneGone(Touch)
                   /\ LevelGoes(Touch) \/ QueueShrinks(Touch)
              ELSE /\ orders' = [orders EXCEPT ![Touch].qty = LeftOfTouch]
                   /\ UNCHANGED <<cid_oid_to_order, lists>>
           /\ UNCHANGED <<next_market_order_id, pc, walk, mislinked>>
           /\ taker'.id = taker.id /\ pc = "match"
<1> DEFINE o == Touch
           left == LeftOfTouch
           os == [orders EXCEPT ![o].qty = left]
<1>1. Matchable /\ pc = "match" /\ TypeOK /\ taker \in TakerRecord
  BY DEF Match, Matchable, IInv, TypeOK
<1>2. o \in Id /\ left \in Nat
  BY <1>1, MatchParts DEF LeftOfTouch
<1>3. /\ left = 0 => Removable(o)
      /\ IF left = 0 THEN RemoveOrder(os, o)
         ELSE orders' = os /\ UNCHANGED <<cid_oid_to_order, lists>>
      /\ UNCHANGED <<next_market_order_id, pc, walk, mislinked>>
      /\ taker'.id = taker.id
  BY <1>1 DEF Match, LeftOfTouch, TakerRecord
<1>4. LastFill(os, o)
  <2>1. \A k \in Id : orders[k] \in OrderRecord
    BY <1>1 DEF TypeOK
  <2> HIDE DEF left, o
  <2> QED BY <1>1, <1>2, <2>1 DEF LastFill, SameOrder, OrderRecord, TypeOK
<1>5. ASSUME left = 0
      PROVE  o \in LiveOrders /\ OneGone(o) /\ (LevelGoes(o) \/ QueueShrinks(o))
  <2>1. Removable(o) /\ RemoveOrder(os, o)
    BY <1>3, <1>5
  <2> HIDE DEF o, os
  <2> QED BY <1>2, <1>4, <2>1, RemoveOrderLinks DEF StructInv, Removable, LiveOrders
<1> QED BY <1>1, <1>2, <1>3, <1>5

\* A fill keeps the lists.
LEMMA StructMatch == ASSUME IInv, StructInv, Match PROVE StructInv'
<1>1. PICK o, left : o = Touch /\ left = LeftOfTouch
  OBVIOUS
<1>2. o \in Id /\ left \in Nat /\ pc = "match"
      /\ UNCHANGED <<pc, next_market_order_id>> /\ taker'.id = taker.id
  BY <1>1, MatchLinks
<1>3. CASE left = 0
  <2>1. o \in LiveOrders /\ OneGone(o) /\ (LevelGoes(o) \/ QueueShrinks(o))
    BY <1>1, <1>3, MatchLinks
  <2> QED BY <1>2, <2>1, RemovalKeeps
<1>4. CASE left # 0
  <2>1. orders' = [orders EXCEPT ![o].qty = left] /\ UNCHANGED <<levels, price_orders_at_price>>
    BY <1>1, <1>4, MatchLinks DEF lists
  <2> QED BY <1>2, <1>4, <2>1, StructPartialFill
<1> QED BY <1>3, <1>4

\* A cancel that finds an order takes it out.
LEMMA CancelLinks ==
    ASSUME IInv, StructInv, NEW c, NEW i, Cancel(c, i), NEW o, o = cid_oid_to_order[<<c, i>>],
           o # Null, c \in Client, i \in ClientOrderId
    PROVE  o \in LiveOrders /\ OneGone(o) /\ (LevelGoes(o) \/ QueueShrinks(o))
<1>1. TypeOK /\ o \in Id /\ Removable(o) /\ RemoveOrder(orders, o)
  BY DEF IInv, TypeOK, Pointer, Cancel
<1>2. LastFill(orders, o)
  BY <1>1 DEF LastFill, TypeOK, SameOrder, OrderRecord
<1> QED BY <1>1, <1>2, RemoveOrderLinks DEF StructInv, Removable, LiveOrders

\* A cancel keeps the lists.
LEMMA StructCancel ==
    ASSUME IInv, StructInv, NEW c \in Client, NEW i \in ClientOrderId, Cancel(c, i)
    PROVE  StructInv'
<1>1. PICK o : o = cid_oid_to_order[<<c, i>>]
  OBVIOUS
<1>2. pc = "idle" /\ UNCHANGED <<pc, taker, next_market_order_id>>
  BY DEF Cancel
<1>3. CASE o = Null
  BY <1>1, <1>2, <1>3, StructIdle DEF Cancel, book, lists
<1>4. CASE o # Null
  <2>1. o \in LiveOrders /\ OneGone(o) /\ (LevelGoes(o) \/ QueueShrinks(o))
    BY <1>1, <1>4, CancelLinks
  <2> QED BY <1>2, <2>1, RemovalKeeps
<1> QED BY <1>3, <1>4

\* Every step keeps the lists, whether or not a level was put in a wrong place.
LEMMA StructStep == ASSUME IInv, StructInv, [Next]_vars PROVE StructInv'
<1>1. ASSUME NEW c \in Client, NEW i \in ClientOrderId, NEW side, NEW p, NEW q, Add(c, i, side, p, q)
      PROVE  StructInv'
  BY <1>1, StructAdd
<1>2. ASSUME NEW c \in Client, NEW i \in ClientOrderId, Cancel(c, i) PROVE StructInv'
  BY <1>2, StructCancel
<1>3. CASE Match
  BY <1>3, StructMatch
<1>4. CASE JoinLevel
  BY <1>4, StructJoin
<1>5. CASE NewLevel
  BY <1>5, StructNewLevel
<1>6. CASE Splice
  BY <1>6, StructSplice
<1>7. CASE Filled \/ Walk \/ Crash \/ InvalidRequest \/ UNCHANGED vars
  BY <1>7, StructIdle DEF Filled, Walk, Crash, Exit, InvalidRequest, vars, book, lists
<1> QED BY <1>1, <1>2, <1>3, <1>4, <1>5, <1>6, <1>7 DEF Next, Request, Handler

\* The lists of the book hang together in every reachable state.
THEOREM BookHangsTogether == Spec => []StructInv
<1>1. Init => IInv /\ StructInv
  BY InitInv, StructInit
<1>2. IInv /\ StructInv /\ [Next]_vars => (IInv /\ StructInv)'
  BY StepInv, StructStep
<1> QED BY <1>1, <1>2, PTL DEF Spec

\* To take out an order that rests meets no null pointer and fails no ASSERT.
LEMMA LiveIsRemovable ==
    ASSUME TypeOK, StructInv, pc \in {"idle", "match"}, NEW o \in LiveOrders
    PROVE  Removable(o)
<1> DEFINE x == Index(o)
           lvl == price_orders_at_price[x]
<1>1. x \in PriceIndex /\ o \in AtIndex(x) /\ lvl \in Id /\ lvl \in LiveLevels
  BY QueueOfOrder DEF StructInv
<1>2. lvl = GetOrdersAtPrice(orders[o].price) /\ levels[lvl].live /\ orders[o].live
  BY <1>1 DEF GetOrdersAtPrice, Index, LiveLevels, LiveOrders
<1>3. levels[lvl].prev # Null /\ levels[lvl].next # Null
  BY <1>1 DEF StructInv, LinkedInv, Placed
<1>4. orders[o].prev \in Id /\ orders[o].next \in Id
  BY <1>1 DEF StructInv, QueueInv, Ring, AtIndex, LiveOrders
<1>5. \A k \in Id : k # Null
  BY DEF Id, Null
<1> QED BY <1>1, <1>2, <1>3, <1>4, <1>5 DEF Removable

\* A cancel always goes through: whatever has happened to the lists, taking out
\* an order its client still finds meets no null pointer and fails no ASSERT.
THEOREM CancelWorks == Spec => []CancelAlwaysWorks
<1>1. ASSUME IInv, StructInv PROVE CancelAlwaysWorks
  <2> SUFFICES ASSUME pc = "idle", NEW c \in Client, NEW i \in ClientOrderId,
                      cid_oid_to_order[<<c, i>>] # Null
               PROVE  Removable(cid_oid_to_order[<<c, i>>])
    BY DEF CancelAlwaysWorks
  <2>1. cid_oid_to_order[<<c, i>>] \in LiveOrders /\ TypeOK
    BY <1>1 DEF IInv, TypeOK, ClientIndexSound, LiveOrders, Pointer
  <2> QED BY <1>1, <2>1, LiveIsRemovable
<1> QED BY <1>1, BookInvariant, BookHangsTogether, PTL

----------------------------------------------------------------------------
(***************************************************************************)
(* What holds as long as every level and order is where it belongs.        *)
(***************************************************************************)

\* The better the price, the lower.
Rank == [l \in Id |-> IF levels[l].side = "BUY" THEN -levels[l].price ELSE levels[l].price]

PlacedOf(side) == {l \in Placed : levels[l].side = side}

\* An entry of the price map leads an order to the level of its price and side.
HomeInv == \A o \in LiveOrders :
              LET l == price_orders_at_price[Index(o)]
              IN  levels[l].price = orders[o].price /\ levels[l].side = orders[o].side

\* The levels of a side hang together best price first, entered at the best.
SideInv == \A side \in Side :
              /\ Ring(PlacedOf(side), levels, Rank)
              /\ IF PlacedOf(side) = {} THEN BestOrdersByPrice(side) = Null
                 ELSE IsFirst(PlacedOf(side), Rank, BestOrdersByPrice(side))

\* The sides do not cross.
ApartInv == \A b \in LevelsOf("BUY"), s \in LevelsOf("SELL") : levels[b].price < levels[s].price

\* The search for the place of a new level has only worse levels before it.
WalkInv == pc = "walk" =>
              /\ target \in PlacedOf(taker.side)
              /\ IF add_after THEN Worse(taker.side, taker.price, levels[levels[target].prev].price)
                              ELSE ~Worse(taker.side, taker.price, levels[target].price)

OrderedInv == HomeInv /\ SideInv /\ ApartInv /\ WalkInv

ListInv == ~mislinked /\ pc # "crashed" => OrderedInv

----------------------------------------------------------------------------

\* No two levels of a side have one price.
LEMMA SideKeys == ASSUME TypeOK, MapInv, NEW side PROVE Keys(LevelsOf(side), Rank)
<1>1. \A l \in LiveLevels : /\ l \in Id /\ levels[l].price \in Int
                            /\ price_orders_at_price[PriceToIndex(levels[l].price)] = l
  BY DEF TypeOK, LevelRecord, LiveLevels, MapInv, GetOrdersAtPrice
<1>2. \A l \in LevelsOf(side) : l \in LiveLevels /\ levels[l].side = side
  BY DEF LevelsOf
<1>3. \A l \in LevelsOf(side) :
         /\ Rank[l] = IF side = "BUY" THEN -levels[l].price ELSE levels[l].price
         /\ Rank[l] \in Int
  BY <1>1, <1>2 DEF Rank
<1>4. ASSUME NEW k \in LevelsOf(side), NEW l \in LevelsOf(side), Rank[k] = Rank[l] PROVE k = l
  <2>1. levels[k].price = levels[l].price
    BY <1>1, <1>2, <1>3, <1>4
  <2> QED BY <1>1, <1>2, <2>1
<1> QED BY <1>3, <1>4 DEF Keys

\* To compare prices of a side is to compare ranks.
LEMMA WorseIsHigher ==
    ASSUME TypeOK, NEW side \in Side, NEW k \in LevelsOf(side), NEW l \in LevelsOf(side)
    PROVE  /\ Rank[k] \in Int /\ Rank[l] \in Int
           /\ Worse(side, levels[k].price, levels[l].price) <=> Rank[l] < Rank[k]
           /\ Better(side, levels[k].price, levels[l].price) <=> Rank[k] < Rank[l]
<1>1. /\ k \in Id /\ l \in Id /\ levels[k].side = side /\ levels[l].side = side
      /\ levels[k].price \in Int /\ levels[l].price \in Int
  BY DEF LevelsOf, LiveLevels, TypeOK, LevelRecord
<1>2. /\ Rank[k] = IF side = "BUY" THEN -levels[k].price ELSE levels[k].price
      /\ Rank[l] = IF side = "BUY" THEN -levels[l].price ELSE levels[l].price
  BY <1>1 DEF Rank
<1> QED BY <1>1, <1>2 DEF Worse, Better, Side

\* The placed levels are all but the one whose place is searched.
LEMMA PlacedLevels ==
    ASSUME TypeOK, MapInv, NEW side
    PROVE  /\ Keys(PlacedOf(side), Rank)
           /\ PlacedOf(side) \subseteq LevelsOf(side) /\ LevelsOf(side) \subseteq Id
           /\ pc # "walk" => PlacedOf(side) = LevelsOf(side)
           /\ pc = "walk" => PlacedOf(side) = LevelsOf(side) \ {taker.id}
<1>1. PlacedOf(side) \subseteq LevelsOf(side) /\ LevelsOf(side) \subseteq Id
  BY DEF PlacedOf, Placed, LevelsOf, LiveLevels
<1>2. Keys(PlacedOf(side), Rank)
  BY <1>1, SideKeys DEF Keys
<1>3. /\ pc # "walk" => PlacedOf(side) = LevelsOf(side)
      /\ pc = "walk" => PlacedOf(side) = LevelsOf(side) \ {taker.id}
  BY DEF PlacedOf, Placed, LevelsOf
<1> QED BY <1>1, <1>2, <1>3

\* The best level of the other side has its best price, and the touched order
\* rests there at that price.
LEMMA TouchIsBest ==
    ASSUME IInv, StructInv, OrderedInv, pc = "match",
           NEW best, best = BestOrdersByPrice(Opposite(taker.side)), best # Null
    PROVE  /\ Touch \in LiveOrders /\ orders[Touch].qty > 0
           /\ orders[Touch].side = Opposite(taker.side)
           /\ orders[Touch].price = levels[best].price
           /\ IsFirst(LevelsOf(Opposite(taker.side)), Rank, best)
<1> DEFINE side == Opposite(taker.side)
           y == PriceToIndex(levels[best].price)
<1>1. side \in Side /\ TypeOK /\ MapInv
  BY DEF Opposite, Side, IInv, StructInv
<1>2. PlacedOf(side) = LevelsOf(side)
  BY <1>1, PlacedLevels
<1>3. IsFirst(LevelsOf(side), Rank, best)
  BY <1>1, <1>2 DEF OrderedInv, SideInv
<1>4. best \in LiveLevels /\ best \in Id /\ levels[best].side = side
  BY <1>3 DEF IsFirst, LevelsOf, LiveLevels
<1>5. y \in PriceIndex /\ price_orders_at_price[y] = best
  BY <1>1, <1>4, IndexInRange DEF MapInv, GetOrdersAtPrice, TypeOK, LevelRecord
<1>6. IsFirst(AtIndex(y), Arrival, levels[best].first)
  BY <1>1, <1>4, <1>5 DEF MapInv
<1>7. Touch = levels[best].first
  BY DEF Touch
<1>8. Touch \in LiveOrders /\ Index(Touch) = y
  BY <1>6, <1>7 DEF IsFirst, AtIndex
<1>9. orders[Touch].price = levels[best].price /\ orders[Touch].side = side
  BY <1>4, <1>5, <1>8 DEF OrderedInv, HomeInv
<1> QED BY <1>3, <1>8, <1>9 DEF StructInv, QtyInv

\* An order comes to rest when all of the other side is out of its reach.
LEMMA RestingApart ==
    ASSUME IInv, StructInv, OrderedInv, Resting, NEW l \in LevelsOf(Opposite(taker.side))
    PROVE  Worse(taker.side, taker.price, levels[l].price)
<1> DEFINE side == Opposite(taker.side)
           best == BestOrdersByPrice(side)
<1>1. /\ side \in Side /\ TypeOK /\ MapInv /\ pc = "match" /\ taker.leaves > 0 /\ ~Matchable
      /\ taker.side \in Side /\ taker.price \in Int
  BY DEF Opposite, Side, IInv, StructInv, Resting, TypeOK, TakerRecord
<1>2. best # Null
  <2>1. PlacedOf(side) = LevelsOf(side) /\ LevelsOf(side) \subseteq Id
    BY <1>1, PlacedLevels
  <2>2. best \in Id
    BY <1>1, <2>1 DEF OrderedInv, SideInv, IsFirst
  <2> QED BY <2>2 DEF Id, Null
<1>3. /\ orders[Touch].price = levels[best].price
      /\ IsFirst(LevelsOf(side), Rank, best)
  BY <1>1, <1>2, TouchIsBest
<1>4. Worse(taker.side, taker.price, levels[best].price)
  BY <1>1, <1>2, <1>3 DEF Matchable
<1>5. best \in LevelsOf(side) /\ Rank[best] <= Rank[l]
  BY <1>3 DEF IsFirst
<1>6. ~Better(side, levels[l].price, levels[best].price)
  BY <1>1, <1>5, WorseIsHigher
<1>7. levels[best].price \in Int /\ levels[l].price \in Int
  BY <1>1, <1>5 DEF LevelsOf, LiveLevels, TypeOK, LevelRecord
<1> HIDE DEF best
<1> QED BY <1>1, <1>4, <1>6, <1>7 DEF Worse, Better, Opposite, Side

----------------------------------------------------------------------------

\* Steps that leave the levels alone.
LEMMA LevelsStay ==
    ASSUME SideInv, ApartInv, UNCHANGED <<levels, bids_by_price, asks_by_price>>, Placed' = Placed
    PROVE  SideInv' /\ ApartInv'
<1>1. Rank' = Rank /\ \A side : LevelsOf(side)' = LevelsOf(side)
  BY DEF Rank, LevelsOf, LiveLevels
<1>2. \A side : PlacedOf(side)' = PlacedOf(side) /\ BestOrdersByPrice(side)' = BestOrdersByPrice(side)
  BY DEF PlacedOf, BestOrdersByPrice
<1>3. SideInv'
  <2> SUFFICES ASSUME NEW side \in Side
               PROVE  /\ Ring(PlacedOf(side)', levels', Rank')
                      /\ IF PlacedOf(side)' = {} THEN BestOrdersByPrice(side)' = Null
                         ELSE IsFirst(PlacedOf(side)', Rank', BestOrdersByPrice(side)')
    BY DEF SideInv, Ring, Follows, IsFirst
  <2> QED BY <1>1, <1>2 DEF SideInv
<1>4. ApartInv'
  BY <1>1 DEF ApartInv
<1> QED BY <1>3, <1>4

\* Steps that change nothing of the lists and are not of the search.
LEMMA OrderedIdle ==
    ASSUME OrderedInv, UNCHANGED lists, pc \in {"idle", "match"}, pc' \in {"idle", "match", "fatal"},
           \A k \in Id : /\ orders'[k].live = orders[k].live /\ orders'[k].price = orders[k].price
                         /\ orders'[k].side = orders[k].side
    PROVE  OrderedInv'
<1>1. LiveLevels' = LiveLevels /\ Placed' = Placed /\ LiveOrders' = LiveOrders
  BY DEF lists, LiveLevels, Placed, LiveOrders
<1>2. SideInv' /\ ApartInv'
  BY <1>1, LevelsStay DEF OrderedInv, lists
<1>3. \A o \in LiveOrders : Index(o)' = Index(o)
  BY DEF Index, LiveOrders
<1>4. HomeInv'
  BY <1>1, <1>3 DEF OrderedInv, HomeInv, lists, LiveOrders
<1>5. WalkInv'
  BY DEF WalkInv
<1> QED BY <1>2, <1>4, <1>5 DEF OrderedInv

\* Entries of a side after SetBest.
LEMMA BestAfter ==
    ASSUME NEW side \in Side, NEW level, SetBest(side, level)
    PROVE  \A s \in Side : BestOrdersByPrice(s)' = IF s = side THEN level ELSE BestOrdersByPrice(s)
BY DEF SetBest, BestOrdersByPrice, Side

\* Taking an order out keeps the book in order.
LEMMA OrderedRemoval ==
    ASSUME IInv, StructInv, OrderedInv, pc \in {"idle", "match"}, NEW o \in LiveOrders,
           NEW x, x = Index(o),
           OneGone(o), LevelGoes(o) \/ QueueShrinks(o), UNCHANGED pc
    PROVE  OrderedInv'
<1> DEFINE lvl == price_orders_at_price[x]
<1>1. /\ TypeOK /\ MapInv /\ x \in PriceIndex /\ o \in AtIndex(x) /\ lvl \in Id /\ lvl \in LiveLevels
      /\ PriceToIndex(levels[lvl].price) = x
  BY QueueOfOrder DEF IInv, StructInv
<1>2. /\ LiveOrders' = LiveOrders \ {o}
      /\ \A k \in LiveOrders' : /\ orders'[k].price = orders[k].price /\ orders'[k].side = orders[k].side
                                /\ Index(k)' = Index(k) /\ Index(k) \in PriceIndex
  <2>1. LiveOrders' = LiveOrders \ {o} /\ \A k \in LiveOrders' : SameOrder(orders'[k], orders[k])
    BY DEF OneGone, LiveOrders
  <2>2. \A k \in LiveOrders : Index(k) \in PriceIndex
    BY <1>1, IndexInRange DEF Index, LiveOrders, TypeOK, OrderRecord
  <2> QED BY <2>1, <2>2 DEF SameOrder, Index
<1>3. \A l \in Id : levels'[l].side = levels[l].side /\ levels'[l].price = levels[l].price
  BY DEF LevelGoes, QueueShrinks, LevelReturned, SameLevel
<1>4. Rank' = Rank
  BY <1>3 DEF Rank
<1>5. Placed = LiveLevels /\ Placed' = LiveLevels' /\ WalkInv'
  BY DEF Placed, WalkInv
<1>6. HomeInv /\ SideInv /\ ApartInv
  BY DEF OrderedInv
<1>7. CASE LevelGoes(o)
  <2>1. /\ AtIndex(x) = {o}
        /\ price_orders_at_price' = [price_orders_at_price EXCEPT ![x] = Null]
        /\ LiveLevels' = LiveLevels \ {lvl}
    BY <1>7 DEF LevelGoes, LevelReturned, LiveLevels
  <2>2. HomeInv'
    <3> SUFFICES ASSUME NEW k \in LiveOrders'
                 PROVE  LET l == price_orders_at_price'[Index(k)']
                        IN  levels'[l].price = orders'[k].price /\ levels'[l].side = orders'[k].side
      BY DEF HomeInv
    <3>1. k \in LiveOrders /\ k # o /\ Index(k) # x
      BY <1>2, <2>1 DEF AtIndex
    <3>2. price_orders_at_price'[Index(k)'] = price_orders_at_price[Index(k)]
          /\ price_orders_at_price[Index(k)] \in Id
      BY <1>1, <1>2, <2>1, <3>1, QueueOfOrder DEF TypeOK
    <3> QED BY <1>2, <1>3, <1>6, <3>1, <3>2 DEF HomeInv
  <2>3. levels[lvl].side = orders[o].side /\ orders[o].side \in Side
    BY <1>1, <1>6 DEF HomeInv, TypeOK, LiveOrders, OrderRecord
  <2>4. PICK own : own = orders[o].side
    OBVIOUS
  <2>5. \A side : /\ PlacedOf(side)' = PlacedOf(side) \ {lvl}
                  /\ LevelsOf(side)' = LevelsOf(side) \ {lvl}
    BY <1>3, <1>5, <2>1 DEF PlacedOf, LevelsOf, LiveLevels
  <2>6. lvl \in PlacedOf(own) /\ \A side \in Side : side # own => lvl \notin PlacedOf(side)
    BY <1>1, <1>5, <2>3, <2>4, <2>4 DEF PlacedOf
  <2>7. \A side \in Side : /\ Keys(PlacedOf(side), Rank) /\ PlacedOf(side) \subseteq Id
                           /\ Ring(PlacedOf(side), levels, Rank)
                           /\ IF PlacedOf(side) = {} THEN BestOrdersByPrice(side) = Null
                              ELSE IsFirst(PlacedOf(side), Rank, BestOrdersByPrice(side))
    BY <1>1, <1>6, PlacedLevels DEF SideInv
  <2>8. ApartInv'
    <3>1. /\ LevelsOf("BUY")' \subseteq LevelsOf("BUY") /\ LevelsOf("BUY") \subseteq Id
          /\ LevelsOf("SELL")' \subseteq LevelsOf("SELL") /\ LevelsOf("SELL") \subseteq Id
      BY <2>5 DEF LevelsOf, LiveLevels
    <3> QED BY <1>3, <1>6, <3>1 DEF ApartInv
  <2>9. ASSUME NEW side \in Side
        PROVE  /\ Ring(PlacedOf(side)', levels', Rank')
               /\ IF PlacedOf(side)' = {} THEN BestOrdersByPrice(side)' = Null
                  ELSE IsFirst(PlacedOf(side)', Rank', BestOrdersByPrice(side)')
    <3>1. CASE levels[lvl].next = lvl
      <4>1. SetBest(own, Null) /\ LinksKept(levels', levels)
        BY <1>7, <2>4, <3>1 DEF LevelGoes
      <4>2. PlacedOf(own) = {lvl}
        BY <2>3, <2>4, <2>6, <2>7, <3>1, RingOfOne
      <4>3. BestOrdersByPrice(side)' = IF side = own THEN Null ELSE BestOrdersByPrice(side)
        BY <2>3, <2>4, <4>1, BestAfter
      <4>4. CASE side = own
        BY <2>5, <4>2, <4>3, <4>4 DEF Ring
      <4>5. CASE side # own
        <5>1. PlacedOf(side)' = PlacedOf(side)
          BY <2>5, <2>6, <4>5
        <5>2. \A l \in PlacedOf(side) : levels'[l].next = levels[l].next /\ levels'[l].prev = levels[l].prev
          BY <2>7, <4>1 DEF LinksKept
        <5> QED BY <1>4, <2>7, <4>3, <4>5, <5>1, <5>2 DEF Ring
      <4> QED BY <4>4, <4>5
    <3>2. CASE levels[lvl].next # lvl
      <4>1. /\ Unlinked(Id, levels, lvl, levels')
            /\ IF lvl = BestOrdersByPrice(own) THEN SetBest(own, levels[lvl].next)
               ELSE UNCHANGED <<bids_by_price, asks_by_price>>
        BY <1>7, <2>4, <3>2 DEF LevelGoes
      <4>2. /\ BestOrdersByPrice(own)' = IF lvl = BestOrdersByPrice(own) THEN levels[lvl].next
                                         ELSE BestOrdersByPrice(own)
            /\ side # own => BestOrdersByPrice(side)' = BestOrdersByPrice(side)
        BY <2>3, <2>4, <4>1, BestAfter DEF BestOrdersByPrice
      <4>3. levels[lvl].next \in PlacedOf(own) /\ levels[lvl].prev \in PlacedOf(own)
        BY <2>3, <2>4, <2>6, <2>7 DEF Ring
      <4>4. CASE side = own
        <5> DEFINE S == PlacedOf(own)
        <5>1. Unlinked(S, levels, lvl, levels')
          BY <2>3, <2>4, <2>7, <4>1 DEF Unlinked
        <5>2. /\ Ring(S \ {lvl}, levels', Rank)
              /\ IsFirst(S, Rank, lvl) => IsFirst(S \ {lvl}, Rank, levels[lvl].next)
          BY <2>3, <2>4, <2>6, <2>7, <3>2, <5>1, RingRemove
        <5>3. IsFirst(S, Rank, BestOrdersByPrice(own)) /\ S \ {lvl} # {}
          BY <2>3, <2>4, <2>6, <2>7, <3>2, <4>3
        <5>4. IsFirst(S \ {lvl}, Rank, BestOrdersByPrice(own)')
          BY <4>2, <5>2, <5>3 DEF IsFirst
        <5> QED BY <1>4, <2>5, <4>4, <5>2, <5>3, <5>4
      <4>5. CASE side # own
        <5>1. PlacedOf(side)' = PlacedOf(side) /\ \A l \in PlacedOf(side) : l \notin PlacedOf(own)
          BY <2>5, <2>6, <4>5 DEF PlacedOf
        <5>2. \A l \in PlacedOf(side) : levels'[l].next = levels[l].next /\ levels'[l].prev = levels[l].prev
          BY <2>7, <2>6, <4>1, <4>3, <5>1 DEF Unlinked
        <5> QED BY <1>4, <2>7, <4>2, <4>5, <5>1, <5>2 DEF Ring
      <4> QED BY <4>4, <4>5
    <3> QED BY <3>1, <3>2
  <2>10. SideInv'
    BY <2>9 DEF SideInv, Ring, Follows, IsFirst
  <2> QED BY <1>5, <2>2, <2>8, <2>10 DEF OrderedInv
<1>8. CASE QueueShrinks(o)
  <2>1. /\ UNCHANGED <<price_orders_at_price, bids_by_price, asks_by_price>>
        /\ \A l \in Id : /\ levels'[l].live = levels[l].live
                         /\ levels'[l].next = levels[l].next /\ levels'[l].prev = levels[l].prev
    BY <1>8 DEF QueueShrinks
  <2>2. \A side : /\ PlacedOf(side)' = PlacedOf(side) /\ LevelsOf(side)' = LevelsOf(side)
                  /\ BestOrdersByPrice(side)' = BestOrdersByPrice(side)
    BY <1>3, <1>5, <2>1 DEF PlacedOf, LevelsOf, LiveLevels, BestOrdersByPrice
  <2>3. HomeInv'
    <3> SUFFICES ASSUME NEW k \in LiveOrders'
                 PROVE  LET l == price_orders_at_price'[Index(k)']
                        IN  levels'[l].price = orders'[k].price /\ levels'[l].side = orders'[k].side
      BY DEF HomeInv
    <3>1. k \in LiveOrders /\ price_orders_at_price[Index(k)] \in Id
      BY <1>1, <1>2, QueueOfOrder
    <3> QED BY <1>2, <1>3, <1>6, <2>1, <3>1 DEF HomeInv
  <2>4. ASSUME NEW side \in Side
        PROVE  /\ Ring(PlacedOf(side)', levels', Rank')
               /\ IF PlacedOf(side)' = {} THEN BestOrdersByPrice(side)' = Null
                  ELSE IsFirst(PlacedOf(side)', Rank', BestOrdersByPrice(side)')
    <3>1. \A l \in PlacedOf(side) : levels'[l].next = levels[l].next /\ levels'[l].prev = levels[l].prev
      BY <2>1 DEF PlacedOf, Placed, LiveLevels
    <3>2. Ring(PlacedOf(side), levels, Rank)
      BY <1>6 DEF SideInv
    <3> QED BY <1>4, <1>6, <2>2, <3>1, <3>2 DEF SideInv, Ring
  <2>5. SideInv'
    BY <2>4 DEF SideInv, Ring, Follows, IsFirst
  <2>6. ApartInv'
    BY <1>3, <1>6, <2>2 DEF ApartInv, LevelsOf, LiveLevels
  <2> QED BY <1>5, <2>3, <2>5, <2>6 DEF OrderedInv
<1> QED BY <1>7, <1>8

\* An order that joins a queue finds a level of its price on its own side.
LEMMA OrderedJoin == ASSUME IInv, StructInv, OrderedInv, JoinLevel, ~mislinked' PROVE OrderedInv'
<1>0. PICK x : x = PriceToIndex(taker.price)
  OBVIOUS
<1>1. PICK new : new = taker.id
  OBVIOUS
<1>2. PICK lvl : lvl = price_orders_at_price[x]
  OBVIOUS
<1>3. x \in PriceIndex /\ JoinsQueue(x) /\ TakerRests
  BY <1>0, JoinLinks
<1>4. /\ TypeOK /\ MapInv /\ Resting /\ pc = "match" /\ pc' = "idle"
      /\ lvl = GetOrdersAtPrice(taker.price) /\ levels[lvl].price = taker.price
      /\ UNCHANGED lists /\ taker.side \in Side /\ taker.price \in Int /\ new \in Id
      /\ ~orders[new].live
  BY ZenonT(30), <1>0, <1>1, <1>2 DEF IInv, TakerInv, StructInv, TypeOK, TakerRecord, JoinLevel, Rested, Resting,
     GetOrdersAtPrice
<1>5. lvl \in LiveLevels /\ levels[lvl].side \in Side /\ lvl \in Id
  BY <1>2, <1>3, <1>4 DEF JoinsQueue, TypeOK, LevelRecord, LiveLevels
<1>6. levels[lvl].side = taker.side
  <2> SUFFICES ASSUME levels[lvl].side = Opposite(taker.side) PROVE FALSE
    BY <1>4, <1>5 DEF Opposite, Side
  <2>1. lvl \in LevelsOf(Opposite(taker.side))
    BY <1>5 DEF LevelsOf
  <2>2. Worse(taker.side, taker.price, levels[lvl].price)
    BY <1>4, <2>1, RestingApart
  <2> QED BY <1>4, <2>2 DEF Worse
<1>7. /\ \A k \in Id \ {new} : SameOrder(orders'[k], orders[k]) /\ orders'[k].live = orders[k].live
      /\ orders'[new].live /\ orders'[new].price = taker.price /\ orders'[new].side = taker.side
  BY <1>1, <1>3 DEF JoinsQueue, TakerRests
<1>8. LiveLevels' = LiveLevels /\ Placed' = Placed /\ LiveOrders' = LiveOrders \cup {new}
  BY <1>4, <1>7 DEF lists, LiveLevels, Placed, LiveOrders
<1>9. SideInv' /\ ApartInv'
  BY <1>4, <1>8, LevelsStay DEF OrderedInv, lists
<1>10. HomeInv'
  <2>1. Index(new)' = x
    BY <1>0, <1>7 DEF Index
  <2>2. \A o \in LiveOrders \ {new} :
           Index(o)' = Index(o) /\ orders'[o].price = orders[o].price /\ orders'[o].side = orders[o].side
    BY <1>7 DEF Index, LiveOrders, SameOrder
  <2> QED BY <1>2, <1>4, <1>6, <1>7, <1>8, <2>1, <2>2 DEF OrderedInv, HomeInv, lists
<1>11. WalkInv'
  BY <1>4 DEF WalkInv
<1> QED BY <1>9, <1>10, <1>11 DEF OrderedInv

\* A new level is the only one of its side, or its place is searched from the best.
LEMMA OrderedNewLevel == ASSUME IInv, StructInv, OrderedInv, NewLevel PROVE OrderedInv'
<1>0. PICK x : x = PriceToIndex(taker.price)
  OBVIOUS
<1>1. PICK new : new = taker.id
  OBVIOUS
<1>2. PICK own : own = taker.side
  OBVIOUS
<1>3. x \in PriceIndex /\ OpensLevel(x)
  BY <1>0, NewLevelLinks
<1>4. /\ TypeOK /\ MapInv /\ Resting /\ pc = "match" /\ own \in Side /\ taker.price \in Int
      /\ new \in Id /\ ~orders[new].live /\ ~levels[new].live
  BY <1>1, <1>2 DEF IInv, TakerInv, StructInv, FreshInv, TypeOK, TakerRecord, NewLevel, Resting
<1>5. /\ AtIndex(x) = {} /\ price_orders_at_price[x] = Null
      /\ orders'[new].live /\ orders'[new].price = taker.price /\ orders'[new].side = own
      /\ \A k \in Id \ {new} : orders'[k] = orders[k]
      /\ price_orders_at_price' = [price_orders_at_price EXCEPT ![x] = new]
      /\ levels'[new].live /\ levels'[new].side = own /\ levels'[new].price = taker.price
      /\ \A l \in Id \ {new} : levels'[l] = levels[l]
  BY <1>1, <1>2, <1>3 DEF OpensLevel, TakerRests
<1>6. LiveOrders' = LiveOrders \cup {new} /\ new \notin LiveOrders
      /\ LiveLevels' = LiveLevels \cup {new} /\ new \notin LiveLevels
  BY <1>4, <1>5 DEF LiveOrders, LiveLevels
<1>7. /\ \A side : LevelsOf(side)' = IF side = own THEN LevelsOf(side) \cup {new} ELSE LevelsOf(side)
      /\ \A side : new \notin LevelsOf(side) /\ LevelsOf(side) \subseteq Id
  BY <1>5, <1>6 DEF LevelsOf, LiveLevels
<1>8. HomeInv'
  <2>1. Index(new)' = x
    BY <1>0, <1>5 DEF Index
  <2>2. price_orders_at_price'[x] = new
    BY <1>3, <1>4, <1>5 DEF TypeOK
  <2>3. ASSUME NEW o \in LiveOrders
        PROVE  LET l == price_orders_at_price'[Index(o)']
               IN  levels'[l].price = orders'[o].price /\ levels'[l].side = orders'[o].side
    <3>1. orders'[o] = orders[o] /\ Index(o)' = Index(o) /\ Index(o) # x
      BY <1>5, <1>6 DEF Index, LiveOrders, AtIndex
    <3>2. price_orders_at_price[Index(o)] \in LiveLevels /\ Index(o) \in PriceIndex
      BY <1>4, QueueOfOrder
    <3>3. price_orders_at_price'[Index(o)] = price_orders_at_price[Index(o)]
      BY <1>4, <1>5, <3>1, <3>2 DEF TypeOK
    <3>4. levels'[price_orders_at_price[Index(o)]] = levels[price_orders_at_price[Index(o)]]
      BY <1>5, <1>6, <3>2 DEF LiveLevels
    <3> QED BY <3>1, <3>3, <3>4 DEF OrderedInv, HomeInv
  <2> QED BY <1>5, <1>6, <2>1, <2>2, <2>3 DEF HomeInv
<1>9. ApartInv'
  <2>1. \A l \in LevelsOf(Opposite(own)) : Worse(own, taker.price, levels[l].price)
    BY <1>2, <1>4, RestingApart
  <2>2. \A side, l : l \in LevelsOf(side) => levels'[l] = levels[l]
    BY <1>5, <1>7
  <2>3. CASE own = "BUY"
    BY <1>5, <1>7, <2>1, <2>2, <2>3 DEF OrderedInv, ApartInv, Opposite, Worse
  <2>4. CASE own = "SELL"
    BY <1>5, <1>7, <2>1, <2>2, <2>4 DEF OrderedInv, ApartInv, Opposite, Worse
  <2> QED BY <1>4, <2>3, <2>4 DEF Side
<1>10. \A l \in LiveLevels : Rank'[l] = Rank[l] /\ levels'[l] = levels[l]
  BY <1>5, <1>6 DEF Rank, LiveLevels
<1>11. \A side : PlacedOf(side) = LevelsOf(side) /\ \A l \in LevelsOf(side) : l \in LiveLevels
  BY <1>4, PlacedLevels DEF LevelsOf
<1>12. \A side \in Side : /\ Ring(LevelsOf(side), levels, Rank)
                          /\ IF LevelsOf(side) = {} THEN BestOrdersByPrice(side) = Null
                             ELSE IsFirst(LevelsOf(side), Rank, BestOrdersByPrice(side))
  BY <1>11 DEF OrderedInv, SideInv
<1>13. \A side \in Side : /\ Ring(LevelsOf(side), levels', Rank')
                          /\ IF LevelsOf(side) = {} THEN BestOrdersByPrice(side) = Null
                             ELSE IsFirst(LevelsOf(side), Rank', BestOrdersByPrice(side))
  BY <1>10, <1>11, <1>12 DEF Ring, Follows, IsFirst
<1>14. CASE BestOrdersByPrice(own) = Null
  <2>1. /\ pc' = "idle" /\ levels'[new].prev = new /\ levels'[new].next = new /\ SetBest(own, new)
    BY <1>1, <1>2, <1>4, <1>14 DEF NewLevel, Rested, TypeOK
  <2>2. LevelsOf(own) = {}
    <3>1. Null \notin Id
      BY DEF Id, Null
    <3> QED BY <1>4, <1>7, <1>12, <1>14, <3>1 DEF IsFirst
  <2>3. \A side : PlacedOf(side)' = LevelsOf(side)'
    BY <2>1 DEF PlacedOf, Placed, LevelsOf
  <2>4. \A side \in Side : BestOrdersByPrice(side)' = IF side = own THEN new ELSE BestOrdersByPrice(side)
    BY <1>4, <2>1, BestAfter
  <2>5. Ring({new}, levels', Rank') /\ IsFirst({new}, Rank', new)
    <3>1. Rank'[new] \in Int
      BY <1>4, <1>5 DEF Rank
    <3> QED BY <2>1, <3>1 DEF Ring, Follows, IsFirst
  <2>6. ASSUME NEW side \in Side
        PROVE  /\ Ring(PlacedOf(side)', levels', Rank')
               /\ IF PlacedOf(side)' = {} THEN BestOrdersByPrice(side)' = Null
                  ELSE IsFirst(PlacedOf(side)', Rank', BestOrdersByPrice(side)')
    <3>1. CASE side = own
      BY <1>7, <2>2, <2>3, <2>4, <2>5, <3>1
    <3>2. CASE side # own
      BY <1>7, <1>13, <2>3, <2>4, <3>2
    <3> QED BY <3>1, <3>2
  <2>7. SideInv'
    BY <2>6 DEF SideInv, Ring, Follows, IsFirst
  <2> QED BY <1>8, <1>9, <2>1, <2>7 DEF OrderedInv, WalkInv
<1>15. CASE BestOrdersByPrice(own) # Null
  <2> DEFINE best == BestOrdersByPrice(own)
             after == Worse(own, taker.price, levels[best].price)
             second == levels[best].next
  <2>1. /\ pc' = "walk" /\ UNCHANGED <<taker, bids_by_price, asks_by_price>>
        /\ target' = IF after THEN second ELSE best
        /\ add_after' = (after /\ Worse(own, taker.price, levels[second].price))
    BY <1>2, <1>15 DEF NewLevel
  <2>2. \A side : /\ PlacedOf(side)' = LevelsOf(side)
                  /\ BestOrdersByPrice(side)' = BestOrdersByPrice(side)
    <3>1. Placed' = LiveLevels
      BY <1>1, <1>6, <2>1 DEF Placed
    <3> QED BY <1>10, <2>1, <3>1 DEF PlacedOf, LevelsOf, BestOrdersByPrice
  <2>3. ASSUME NEW side \in Side
        PROVE  /\ Ring(PlacedOf(side)', levels', Rank')
               /\ IF PlacedOf(side)' = {} THEN BestOrdersByPrice(side)' = Null
                  ELSE IsFirst(PlacedOf(side)', Rank', BestOrdersByPrice(side)')
    BY <1>13, <2>2
  <2>4. SideInv'
    BY <2>3 DEF SideInv, Ring, Follows, IsFirst
  <2>5. best \in LevelsOf(own) /\ second \in LevelsOf(own) /\ levels[second].prev = best
    BY <1>4, <1>12, <1>15 DEF IsFirst, Ring
  <2> HIDE DEF best, second
  <2>6. levels'[best] = levels[best] /\ levels'[second] = levels[second]
    BY <1>10, <1>11, <2>5
  <2>7. taker'.side = own /\ taker'.price = taker.price
    BY <1>2, <2>1
  <2>8. target' \in PlacedOf(own)'
    BY <2>1, <2>2, <2>5
  <2>9. IF add_after' THEN Worse(own, taker.price, levels'[levels'[target'].prev].price)
                      ELSE ~Worse(own, taker.price, levels'[target'].price)
    BY <2>1, <2>5, <2>6
  <2>10. WalkInv'
    BY <2>7, <2>8, <2>9 DEF WalkInv, Worse
  <2> QED BY <1>8, <1>9, <2>4, <2>10 DEF OrderedInv
<1> QED BY <1>14, <1>15

\* The search goes on to worse levels only.
LEMMA OrderedWalk == ASSUME IInv, StructInv, OrderedInv, Walk PROVE OrderedInv'
<1>1. PICK own : own = taker.side
  OBVIOUS
<1> DEFINE after == Worse(own, taker.price, levels[target].price)
<1>2. /\ TypeOK /\ pc = "walk" /\ own \in Side
      /\ UNCHANGED <<book, pc, taker>>
      /\ add_after' = after
      /\ target' = IF after THEN levels[target].next ELSE target
  BY <1>1 DEF IInv, TypeOK, TakerRecord, Walk, Searching
<1>3. UNCHANGED <<orders, levels, price_orders_at_price, bids_by_price, asks_by_price>>
  BY <1>2 DEF book, lists
<1>4. Placed' = Placed /\ LiveOrders' = LiveOrders /\ PlacedOf(own)' = PlacedOf(own)
  BY <1>2, <1>3 DEF Placed, PlacedOf, LiveLevels, LiveOrders
<1>5. SideInv' /\ ApartInv'
  BY <1>3, <1>4, LevelsStay DEF OrderedInv
<1>6. HomeInv'
  BY <1>3, <1>4 DEF OrderedInv, HomeInv, Index
<1>7. target \in PlacedOf(own) /\ Ring(PlacedOf(own), levels, Rank)
  BY <1>1, <1>2 DEF OrderedInv, WalkInv, SideInv
<1>8. levels[target].next \in PlacedOf(own) /\ levels[levels[target].next].prev = target
  BY <1>7 DEF Ring
<1>9. taker'.side = own /\ taker'.price = taker.price
  BY <1>1, <1>2
<1>10. WalkInv'
  <2>1. target' \in PlacedOf(own)'
    BY <1>2, <1>4, <1>7, <1>8
  <2>2. IF add_after' THEN Worse(own, taker.price, levels'[levels'[target'].prev].price)
                      ELSE ~Worse(own, taker.price, levels'[target'].price)
    BY <1>2, <1>3, <1>8
  <2> QED BY <1>9, <2>1, <2>2 DEF WalkInv, Worse
<1> QED BY <1>5, <1>6, <1>10 DEF OrderedInv

\* What the search found: the place of a new level is after the last level or
\* before the best one.
PlaceFound(new, own, best) ==
    /\ \/ /\ IsLast(LevelsOf(own), Rank, new)
          /\ BestOrdersByPrice(own)' = best
       \/ /\ IsFirst(LevelsOf(own), Rank, new)
          /\ BestOrdersByPrice(own)' = new
    /\ LinkedIn(PlacedOf(own), levels, new, best, levels')
    /\ \A l \in Id : l \notin LevelsOf(own) =>
          levels'[l].next = levels[l].next /\ levels'[l].prev = levels[l].prev
    /\ \A side \in Side : side # own => BestOrdersByPrice(side)' = BestOrdersByPrice(side)
    /\ LevelsAlike(levels', levels)

\* addOrdersAtPrice() puts the level where the search found its place, as long
\* as it has misplaced none.
LEMMA SplicePlace ==
    ASSUME IInv, StructInv, OrderedInv, Splice, ~mislinked',
           NEW new, new = taker.id, NEW own, own = taker.side, NEW best, best = BestOrdersByPrice(own)
    PROVE  PlaceFound(new, own, best)
<1> DEFINE S == PlacedOf(own)
<1>1. /\ TypeOK /\ MapInv /\ pc = "walk" /\ own \in Side /\ new \in Id /\ taker.price \in Int
      /\ ~mislinked /\ levels[new].live /\ levels[new].side = own /\ levels[new].price = taker.price
  BY ZenonT(30) DEF IInv, TakerInv, StructInv, FreshInv, TypeOK, TakerRecord, Splice, LinkBefore
<1>2. /\ S = LevelsOf(own) \ {new} /\ new \in LevelsOf(own) /\ LevelsOf(own) \subseteq Id
      /\ Keys(S, Rank) /\ Ring(S, levels, Rank) /\ target \in S
  BY <1>1, PlacedLevels DEF OrderedInv, SideInv, WalkInv, LevelsOf, LiveLevels
<1>3. IsFirst(S, Rank, best) /\ best \in S
  BY <1>1, <1>2 DEF OrderedInv, SideInv, IsFirst
<1> DEFINE last == levels[best].prev
<1>4. IsLast(S, Rank, last) /\ last \in S /\ levels[last].next = best
  BY <1>2, <1>3, BeforeFirst DEF Ring, IsLast
<1>5. \A k \in LevelsOf(own) : Rank[k] \in Int /\ k \in Id
  BY <1>1, <1>2, WorseIsHigher
<1>6. \A k \in Id : k # Null
  BY DEF Id, Null
<1>7. CASE add_after
  <2>1. target = best
    BY <1>1, <1>7 DEF Splice, Searching
  <2>2. Worse(own, taker.price, levels[last].price)
    BY <1>1, <1>7, <2>1 DEF OrderedInv, WalkInv
  <2>3. Rank[last] < Rank[new]
    BY <1>1, <1>2, <1>4, <2>2, WorseIsHigher
  <2>4. IsLast(LevelsOf(own), Rank, new)
    BY <1>2, <1>4, <1>5, <2>3 DEF IsLast
  <2>5. LinkAfter(new, last) /\ UNCHANGED <<bids_by_price, asks_by_price>>
    BY <1>7 DEF Splice
  <2> HIDE DEF last
  <2>6. /\ LevelsAlike(levels', levels)
        /\ \A l \in Id : /\ levels'[l].next = IF l = last THEN new
                                              ELSE IF l = new THEN best ELSE levels[l].next
                         /\ levels'[l].prev = IF l = best THEN new
                                              ELSE IF l = new THEN last ELSE levels[l].prev
    BY <1>1, <1>2, <1>3, <1>4, <1>5, <1>6, <2>5, LinkAfterLinks
  <2>7. LinkedIn(S, levels, new, best, levels')
    BY <1>1, <1>2, <1>3, <1>4, <1>5, <2>6 DEF LinkedIn, last
  <2>8. \A l \in Id : l \notin LevelsOf(own) =>
          levels'[l].next = levels[l].next /\ levels'[l].prev = levels[l].prev
    BY <1>2, <1>3, <1>4, <2>6
  <2>9. \A side \in Side : BestOrdersByPrice(side)' = BestOrdersByPrice(side)
    BY <2>5 DEF BestOrdersByPrice
  <2> QED BY <1>1, <2>4, <2>6, <2>7, <2>8, <2>9 DEF PlaceFound
<1>8. CASE ~add_after
  <2>1. ~Worse(own, taker.price, levels[target].price)
    BY <1>1, <1>8 DEF OrderedInv, WalkInv
  <2>2. Rank[new] < Rank[target]
    <3>1. target \in LevelsOf(own) /\ new # target
      BY <1>2
    <3>2. ~(Rank[target] < Rank[new])
      BY <1>1, <1>2, <2>1, <3>1, WorseIsHigher
    <3>3. Rank[new] # Rank[target]
      BY <1>1, <1>2, <3>1, SideKeys DEF Keys
    <3> QED BY <1>2, <1>5, <3>1, <3>2, <3>3
  <2>3. Better(own, taker.price, levels[target].price)
    BY <1>1, <1>2, <2>2, WorseIsHigher
  <2>4. LinkBefore(new, target)
    BY <1>8 DEF Splice
  <2>5. bids_by_price' = new /\ UNCHANGED asks_by_price /\ own = "BUY" /\ target = best
    BY ZenonT(30), <1>1, <2>3, <2>4 DEF LinkBefore, Side
  <2>6. IsFirst(LevelsOf(own), Rank, new)
    <3>1. Rank[new] < Rank[best] /\ new \in LevelsOf(own) /\ best \in LevelsOf(own)
      BY <1>2, <2>2, <2>5
    <3>2. \A k \in LevelsOf(own) : k = new \/ Rank[best] <= Rank[k]
      BY <1>2, <1>3 DEF IsFirst
    <3> QED BY <1>5, <3>1, <3>2 DEF IsFirst
  <2>7. /\ LevelsAlike(levels', levels)
        /\ \A l \in Id :
             /\ levels'[l].next = IF l = best /\ NextOf(l, new, best) = best
                                  THEN new ELSE NextOf(l, new, best)
             /\ levels'[l].prev = IF l = best THEN new
                                  ELSE IF l = new THEN last ELSE levels[l].prev
    <3>1. levels[best].prev # Null /\ best \in Id
      BY <1>2, <1>3, <1>4, <1>5, <1>6
    <3>2. LinkBefore(new, best) /\ Better(taker.side, taker.price, levels[best].price)
          /\ best = BestOrdersByPrice(taker.side)
      BY <2>3, <2>4, <2>5
    <3> HIDE DEF last
    <3>3. /\ LevelsAlike(levels', levels)
          /\ \A l \in Id :
               /\ levels'[l].next = IF l = best /\ NextOf(l, new, best) = best
                                    THEN new ELSE NextOf(l, new, best)
               /\ levels'[l].prev = IF l = best THEN new
                                    ELSE IF l = new THEN levels[best].prev ELSE levels[l].prev
      BY <1>1, <3>1, <3>2, LinkBeforeLinks
    <3> QED BY <3>3 DEF last
  <2>8. levels[best].next = best => last = best
    BY <1>2, <1>3, RingOfOne
  <2> HIDE DEF last
  <2>9. NextOf(best, new, best) # best
    BY <1>2, <1>3, <2>8 DEF NextOf, last
  <2>10. \A l \in Id : levels'[l].next = IF l = last THEN new
                                         ELSE IF l = new THEN best ELSE levels[l].next
    BY <2>7, <2>9 DEF NextOf, last
  <2>11. LinkedIn(S, levels, new, best, levels')
    BY <1>1, <1>2, <1>3, <1>4, <1>5, <2>7, <2>10 DEF LinkedIn, last
  <2>12. \A l \in Id : l \notin LevelsOf(own) =>
          levels'[l].next = levels[l].next /\ levels'[l].prev = levels[l].prev
    BY <1>2, <1>3, <1>4, <2>7, <2>10
  <2>13. \A side \in Side :
           BestOrdersByPrice(side)' = IF side = own THEN new ELSE BestOrdersByPrice(side)
    BY <2>5 DEF BestOrdersByPrice, Side
  <2> QED BY <1>1, <2>6, <2>7, <2>11, <2>12, <2>13 DEF PlaceFound
<1> QED BY <1>7, <1>8

\* A level that is linked in where the search ended is where it belongs.
LEMMA OrderedSplice == ASSUME IInv, StructInv, OrderedInv, Splice, ~mislinked' PROVE OrderedInv'
<1>1. PICK new, own : new = taker.id /\ own = taker.side
  OBVIOUS
<1>2. PICK best : best = BestOrdersByPrice(own)
  OBVIOUS
<1>3. PlaceFound(new, own, best)
  BY <1>1, <1>2, SplicePlace
<1>4. /\ TypeOK /\ MapInv /\ pc = "walk" /\ pc' = "idle" /\ own \in Side
      /\ UNCHANGED <<orders, price_orders_at_price>>
  BY <1>1 DEF IInv, StructInv, TypeOK, TakerRecord, Splice, Rested
<1>5. \A l \in Id : /\ levels'[l].side = levels[l].side /\ levels'[l].price = levels[l].price
                    /\ levels'[l].live = levels[l].live
  BY <1>3 DEF PlaceFound, LevelsAlike, SameLevel
<1>6. LiveOrders' = LiveOrders /\ LiveLevels' = LiveLevels /\ Rank' = Rank
      /\ \A side : LevelsOf(side)' = LevelsOf(side) /\ PlacedOf(side)' = LevelsOf(side)
  <2>1. LiveOrders' = LiveOrders /\ LiveLevels' = LiveLevels /\ Rank' = Rank
    BY <1>4, <1>5 DEF LiveOrders, LiveLevels, Rank
  <2>2. \A side : LevelsOf(side)' = LevelsOf(side)
    BY <1>5, <2>1 DEF LevelsOf, LiveLevels
  <2>3. \A side : PlacedOf(side)' = LevelsOf(side)'
    BY <1>4 DEF PlacedOf, Placed, LevelsOf
  <2> QED BY <2>1, <2>2, <2>3
<1>7. HomeInv'
  <2>1. ASSUME NEW o \in LiveOrders PROVE price_orders_at_price[Index(o)] \in Id
    BY <1>4, QueueOfOrder
  <2>2. \A o \in LiveOrders : Index(o)' = Index(o)
    BY <1>4 DEF Index
  <2> QED BY <1>4, <1>5, <1>6, <2>1, <2>2 DEF OrderedInv, HomeInv
<1>8. ApartInv'
  BY <1>5, <1>6 DEF OrderedInv, ApartInv, LevelsOf, LiveLevels
<1>9. ASSUME NEW side \in Side
      PROVE  /\ Ring(PlacedOf(side)', levels', Rank')
             /\ IF PlacedOf(side)' = {} THEN BestOrdersByPrice(side)' = Null
                ELSE IsFirst(PlacedOf(side)', Rank', BestOrdersByPrice(side)')
  <2>1. Ring(PlacedOf(side), levels, Rank)
        /\ IF PlacedOf(side) = {} THEN BestOrdersByPrice(side) = Null
           ELSE IsFirst(PlacedOf(side), Rank, BestOrdersByPrice(side))
    BY DEF OrderedInv, SideInv
  <2>2. LevelsOf(side) \subseteq Id /\ PlacedOf(side) = LevelsOf(side) \ {new}
        /\ Keys(LevelsOf(side), Rank)
    BY <1>1, <1>4, PlacedLevels, SideKeys
  <2>3. CASE side # own
    <3>1. new \notin LevelsOf(side)
      BY <1>1, <1>4, <2>3 DEF StructInv, FreshInv, LevelsOf
    <3>2. \A l \in LevelsOf(side) : levels'[l].next = levels[l].next /\ levels'[l].prev = levels[l].prev
      <4>1. \A l \in LevelsOf(side) : l \notin LevelsOf(own)
        BY <2>3 DEF LevelsOf
      <4> QED BY <1>3, <2>2, <4>1 DEF PlaceFound
    <3>3. PlacedOf(side) = LevelsOf(side) /\ BestOrdersByPrice(side)' = BestOrdersByPrice(side)
      BY <1>3, <2>2, <2>3, <3>1 DEF PlaceFound
    <3> QED BY <1>6, <2>1, <3>2, <3>3 DEF Ring
  <2>4. CASE side = own
    <3> DEFINE S == PlacedOf(own)
    <3>1. new \in LevelsOf(own) /\ LevelsOf(own) = S \cup {new} /\ new \notin S
      BY <1>1, <1>4, <2>2, <2>4 DEF StructInv, FreshInv, LevelsOf, LiveLevels, IInv, TakerInv
    <3>2. IsFirst(S, Rank, best)
      <4>1. target \in S
        BY <1>1, <1>4 DEF OrderedInv, WalkInv
      <4> QED BY <1>2, <2>1, <2>4, <4>1
    <3>3. /\ IsLast(S \cup {new}, Rank, new) \/ IsFirst(S \cup {new}, Rank, new)
          /\ LinkedIn(S, levels, new, best, levels')
      BY <1>3, <3>1 DEF PlaceFound
    <3>4. Ring(S \cup {new}, levels', Rank)
      BY <2>1, <2>2, <2>4, <3>1, <3>2, <3>3, RingInsert
    <3>5. IsFirst(S \cup {new}, Rank, BestOrdersByPrice(own)')
      <4>1. CASE IsLast(LevelsOf(own), Rank, new) /\ BestOrdersByPrice(own)' = best
        BY <3>1, <3>2, <4>1 DEF IsFirst, IsLast
      <4>2. CASE IsFirst(LevelsOf(own), Rank, new) /\ BestOrdersByPrice(own)' = new
        BY <3>1, <4>2
      <4> QED BY <1>3, <4>1, <4>2 DEF PlaceFound
    <3> QED BY <1>6, <2>4, <3>1, <3>4, <3>5
  <2> QED BY <2>3, <2>4
<1>10. SideInv'
  BY <1>9 DEF SideInv, Ring, Follows, IsFirst
<1> QED BY <1>4, <1>7, <1>8, <1>10 DEF OrderedInv, WalkInv

\* A step that puts nothing in a wrong place keeps the book in order.
LEMMA OrderedStep ==
    ASSUME IInv, StructInv, OrderedInv, [Next]_vars, ~mislinked', pc' # "crashed"
    PROVE  OrderedInv'
<1>1. ASSUME NEW c \in Client, NEW i \in ClientOrderId, NEW side, NEW p, NEW q, Add(c, i, side, p, q)
      PROVE  OrderedInv'
  BY <1>1, OrderedIdle DEF Add, book
<1>2. ASSUME NEW c \in Client, NEW i \in ClientOrderId, Cancel(c, i) PROVE OrderedInv'
  <2>1. PICK o : o = cid_oid_to_order[<<c, i>>]
    OBVIOUS
  <2>2. pc = "idle" /\ UNCHANGED pc
    BY <1>2 DEF Cancel
  <2>3. CASE o = Null
    BY <1>2, <2>1, <2>2, <2>3, OrderedIdle DEF Cancel, book
  <2>4. CASE o # Null
    <3>1. o \in LiveOrders /\ OneGone(o) /\ (LevelGoes(o) \/ QueueShrinks(o))
      BY <1>2, <2>1, <2>4, CancelLinks
    <3> QED BY <2>2, <3>1, OrderedRemoval
  <2> QED BY <2>3, <2>4
<1>3. CASE Match
  <2>1. PICK o, left : o = Touch /\ left = LeftOfTouch
    OBVIOUS
  <2>2. pc = "match" /\ UNCHANGED pc /\ o \in Id /\ TypeOK
    BY <1>3, <2>1, MatchLinks DEF IInv
  <2>3. CASE left = 0
    <3>1. o \in LiveOrders /\ OneGone(o) /\ (LevelGoes(o) \/ QueueShrinks(o))
      BY <1>3, <2>1, <2>3, MatchLinks
    <3> QED BY <2>2, <3>1, OrderedRemoval
  <2>4. CASE left # 0
    <3>1. orders' = [orders EXCEPT ![o].qty = left] /\ UNCHANGED lists
      BY <1>3, <2>1, <2>4, MatchLinks
    <3>2. \A k \in Id : /\ orders'[k].live = orders[k].live /\ orders'[k].price = orders[k].price
                        /\ orders'[k].side = orders[k].side
      BY <2>2, <3>1 DEF TypeOK, OrderRecord
    <3> QED BY <2>2, <3>1, <3>2, OrderedIdle
  <2> QED BY <2>3, <2>4
<1>4. CASE Filled
  BY <1>4, OrderedIdle DEF Filled, book
<1>5. CASE JoinLevel
  BY <1>5, OrderedJoin
<1>6. CASE NewLevel
  BY <1>6, OrderedNewLevel
<1>7. CASE Walk
  BY <1>7, OrderedWalk
<1>8. CASE Splice
  BY <1>8, OrderedSplice
<1>9. CASE Crash
  BY <1>9 DEF Crash, Exit
<1>10. CASE UNCHANGED vars
  <2>1. UNCHANGED <<orders, levels, price_orders_at_price, bids_by_price, asks_by_price, pc, taker,
                    target, add_after>>
    BY <1>10 DEF vars, book, lists, walk
  <2>2. Placed' = Placed /\ LiveOrders' = LiveOrders
    BY <2>1 DEF Placed, LiveLevels, LiveOrders
  <2>3. SideInv' /\ ApartInv'
    BY <2>1, <2>2, LevelsStay DEF OrderedInv
  <2>4. HomeInv' /\ WalkInv'
    BY <2>1, <2>2 DEF OrderedInv, HomeInv, WalkInv, Index, PlacedOf
  <2> QED BY <2>3, <2>4 DEF OrderedInv
<1>11. CASE InvalidRequest
  BY <1>11, OrderedIdle DEF InvalidRequest, book
<1> QED BY <1>1, <1>2, <1>3, <1>4, <1>5, <1>6, <1>7, <1>8, <1>9, <1>10, <1>11
        DEF Next, Request, Handler

\* From the entry of a side there is a way on, in both directions.
LEMMA EntryLinks ==
    ASSUME TypeOK, MapInv, OrderedInv, NEW best, best = BestOrdersByPrice(taker.side), best # Null
    PROVE  /\ levels[best].next \in Id /\ levels[best].prev \in Id
           /\ levels[levels[best].prev].next \in Id
<1>1. /\ Ring(PlacedOf(taker.side), levels, Rank) /\ PlacedOf(taker.side) \subseteq Id
      /\ best \in PlacedOf(taker.side)
  BY PlacedLevels DEF OrderedInv, SideInv, IsFirst, LevelsOf, TypeOK, TakerRecord
<1> QED BY <1>1 DEF Ring

\* In a well linked book the search for the place of a level meets no null pointer.
LEMMA SearchWorks == ASSUME IInv, StructInv, OrderedInv PROVE ~WalkFails
<1> SUFFICES ASSUME WalkFails PROVE FALSE
  OBVIOUS
<1>1. /\ TypeOK /\ MapInv /\ taker.side \in Side /\ pc = "walk"
      /\ BestOrdersByPrice(taker.side) # Null
  BY DEF IInv, StructInv, TypeOK, TakerRecord, WalkFails, Searching, TakerInv
<1>2. \A k \in Id : k # Null
  BY DEF Id, Null
<1>3. LET best == BestOrdersByPrice(taker.side)
      IN  levels[best].prev \in Id /\ levels[levels[best].prev].next \in Id
  BY <1>1, EntryLinks
<1>4. target \in Id /\ levels[target].prev \in Id
  <2>1. /\ Ring(PlacedOf(taker.side), levels, Rank) /\ PlacedOf(taker.side) \subseteq Id
        /\ target \in PlacedOf(taker.side)
    BY <1>1, PlacedLevels DEF OrderedInv, SideInv, WalkInv, LevelsOf
  <2> QED BY <2>1 DEF Ring
<1> QED BY <1>1, <1>2, <1>3, <1>4 DEF WalkFails

\* In a well linked book no step meets a null pointer or fails an ASSERT, but
\* that of a full pool.
LEMMA CrashFor ==
    ASSUME IInv, StructInv, OrderedInv, Crash
    PROVE  LevelPoolFull \/ OrderPoolFull
<1> SUFFICES ASSUME ~LevelPoolFull, ~OrderPoolFull PROVE FALSE
  OBVIOUS
<1>1. TypeOK /\ MapInv /\ taker.side \in Side /\ taker.price \in Int
  BY DEF IInv, StructInv, TypeOK, TakerRecord
<1>2. \A k \in Id : k # Null
  BY DEF Id, Null
<1>3. pc = "match" /\ BestOrdersByPrice(taker.side) # Null => levels[BestOrdersByPrice(taker.side)].next \in Id
  BY <1>1, EntryLinks
<1>4. ~MatchFails
  <2> SUFFICES ASSUME Matchable, ~Removable(Touch) PROVE FALSE
    BY DEF MatchFails
  <2>1. pc = "match" /\ Touch \in LiveOrders
    BY TouchIsBest DEF Matchable
  <2> QED BY <1>1, <2>1, LiveIsRemovable
<1>5. ~RestFails
  <2> SUFFICES ASSUME RestFails PROVE FALSE
    OBVIOUS
  <2> DEFINE x == PriceToIndex(taker.price)
             lvl == price_orders_at_price[x]
  <2>1. pc = "match" /\ x \in PriceIndex /\ lvl = GetOrdersAtPrice(taker.price)
    BY <1>1, IndexInRange DEF RestFails, Resting, GetOrdersAtPrice
  <2>2. lvl # Null => orders[levels[lvl].first].prev \in Id
    <3> SUFFICES ASSUME lvl # Null PROVE orders[levels[lvl].first].prev \in Id
      OBVIOUS
    <3>1. levels[lvl].first \in AtIndex(x)
      BY <1>1, <2>1 DEF MapInv, IsFirst
    <3>2. Ring(AtIndex(x), orders, Arrival) /\ AtIndex(x) \subseteq Id
      BY <2>1 DEF StructInv, QueueInv, AtIndex, LiveOrders
    <3> HIDE DEF x, lvl
    <3> QED BY <3>1, <3>2 DEF Ring
  <2>3. BestOrdersByPrice(taker.side) # Null => levels[BestOrdersByPrice(taker.side)].next \in Id
    BY <1>3, <2>1
  <2> QED BY <1>2, <2>1, <2>2, <2>3 DEF RestFails
<1>6. ~WalkFails
  BY SearchWorks
<1> QED BY <1>4, <1>5, <1>6 DEF Crash

\* Between two requests nothing is left to fill, and a search sends nothing.
QuietInv == /\ pc = "idle" => taker.leaves = 0
            /\ pc = "walk" => updates = <<>>

\* A live order has a client and the client's name for it.
OwnerInv == \A o \in LiveOrders : orders[o].client \in Client /\ orders[o].coid \in ClientOrderId

\* No step leaves a live order without its client.
LEMMA OwnerStep == ASSUME IInv, StructInv, OwnerInv, [Next]_vars PROVE OwnerInv'
<1> SUFFICES ASSUME NEW o \in LiveOrders'
             PROVE  orders'[o].client \in Client /\ orders'[o].coid \in ClientOrderId
  BY DEF OwnerInv
<1>1. o \in Id /\ orders'[o].live
  BY DEF LiveOrders
<1> DEFINE Kept == \A k \in Id : /\ orders'[k].live => orders[k].live
                               /\ orders'[k].client = orders[k].client
                               /\ orders'[k].coid = orders[k].coid
<1>2. ASSUME Kept PROVE orders'[o].client \in Client /\ orders'[o].coid \in ClientOrderId
  BY <1>1, <1>2 DEF OwnerInv, LiveOrders
<1>3. ASSUME UNCHANGED orders PROVE Kept
  BY <1>3
<1>4. ASSUME NEW c \in Client, NEW i \in ClientOrderId, Cancel(c, i) PROVE Kept
  <2>1. PICK x : x = cid_oid_to_order[<<c, i>>]
    OBVIOUS
  <2>2. CASE x = Null
    BY <1>3, <1>4, <2>1, <2>2 DEF Cancel, book
  <2>3. CASE x # Null
    <3>1. OneGone(x)
      BY <1>4, <2>1, <2>3, CancelLinks
    <3> QED BY <3>1 DEF OneGone
  <2> QED BY <2>2, <2>3
<1>5. CASE Match
  <2>1. PICK x, left : x = Touch /\ left = LeftOfTouch
    OBVIOUS
  <2>2. ASSUME left = 0 PROVE Kept
    <3>1. OneGone(x)
      BY <1>5, <2>1, <2>2, MatchLinks
    <3> QED BY <3>1 DEF OneGone
  <2>3. ASSUME left # 0 PROVE Kept
    <3>1. orders' = [orders EXCEPT ![x].qty = left] /\ \A k \in Id : orders[k] \in OrderRecord
      BY <1>5, <2>1, <2>3, MatchLinks DEF IInv, TypeOK
    <3>2. orders \in [Id -> OrderRecord]
      BY DEF IInv, TypeOK
    <3> QED BY <3>1, <3>2 DEF OrderRecord
  <2> QED BY <1>2, <2>2, <2>3
<1>6. ASSUME JoinLevel \/ NewLevel
      PROVE  orders'[o].client \in Client /\ orders'[o].coid \in ClientOrderId
  <2>1. PICK x, new : x = PriceToIndex(taker.price) /\ new = taker.id
    OBVIOUS
  <2>2. /\ orders'[new].client = taker.client /\ orders'[new].coid = taker.coid
        /\ \A k \in Id \ {new} : orders'[k].live = orders[k].live /\ orders'[k].client = orders[k].client
                                 /\ orders'[k].coid = orders[k].coid
    BY <1>6, <2>1, JoinLinks, NewLevelLinks DEF JoinsQueue, OpensLevel, TakerRests, SameOrder
  <2>3. taker.client \in Client /\ taker.coid \in ClientOrderId
    BY ZenonT(30), <1>6 DEF IInv, TakerInv, JoinLevel, NewLevel, Resting
  <2> QED BY <1>1, <2>2, <2>3 DEF OwnerInv, LiveOrders
<1>7. ASSUME NEW c \in Client, NEW i \in ClientOrderId, NEW side, NEW p, NEW q, Add(c, i, side, p, q)
      PROVE  Kept
  BY <1>3, <1>7 DEF Add, book
<1>8. ASSUME Filled \/ Walk \/ Splice \/ Crash \/ InvalidRequest \/ UNCHANGED vars PROVE Kept
  BY <1>3, <1>8 DEF Filled, Walk, Splice, Crash, Exit, InvalidRequest, vars, book
<1> QED BY <1>2, <1>4, <1>5, <1>6, <1>7, <1>8 DEF Next, Request, Handler

\* The whole invariant of the book.
BookInv == IInv /\ StructInv /\ ListInv /\ CrashOnlyIfMislinked /\ QuietInv /\ OwnerInv

\* Every step keeps the whole invariant: an order that is misplaced sets
\* mislinked, and a crash without it is for want of space in a pool.
LEMMA BookStep == ASSUME BookInv, [Next]_vars PROVE BookInv'
<1>1. IInv' /\ StructInv' /\ OwnerInv'
  BY StepInv, StructStep, OwnerStep DEF BookInv
<1>2. mislinked => mislinked'
  BY ZenonT(30) DEF Next, Request, Handler, Add, Cancel, Match, Filled, JoinLevel, NewLevel, Walk, Splice, LinkBefore,
         Crash, Exit, InvalidRequest, vars
<1>3. pc = "crashed" => UNCHANGED vars
  BY DEF Next, Request, InvalidRequest, Handler, Add, Cancel, Match, Matchable, Filled, JoinLevel, NewLevel, Resting,
         Walk, Searching, Splice, Crash, MatchFails, RestFails, WalkFails
<1>4. QuietInv'
  <2>1. ASSUME NEW c \in Client, NEW i \in ClientOrderId, NEW side, NEW p, NEW q,
               Add(c, i, side, p, q) \/ Cancel(c, i)
        PROVE  QuietInv'
    BY <2>1 DEF BookInv, QuietInv, Add, Cancel
  <2>2. CASE Match \/ Filled \/ JoinLevel \/ Splice \/ Crash
    <3>1. pc' \in {"match", "crashed"} \/ (pc' = "idle" /\ taker' = NoTaker)
      BY ZenonT(30), <2>2 DEF Match, Matchable, Filled, JoinLevel, Splice, Rested, Crash, Exit
    <3> QED BY <3>1 DEF QuietInv, NoTaker
  <2>3. CASE NewLevel
    BY <2>3 DEF QuietInv, NewLevel, Rested, NoTaker
  <2>4. CASE Walk \/ UNCHANGED vars
    BY <2>4 DEF BookInv, QuietInv, Walk, Searching, vars, sent
  <2>5. CASE InvalidRequest
    BY <2>5 DEF BookInv, QuietInv, InvalidRequest
  <2> QED BY <2>1, <2>2, <2>3, <2>4, <2>5 DEF Next, Request, Handler
<1>5. CASE pc = "crashed"
  <2>1. UNCHANGED <<pc, mislinked>> /\ LiveLevels' = LiveLevels /\ LiveOrders' = LiveOrders
    BY <1>3, <1>5 DEF vars, book, lists, LiveLevels, LiveOrders
  <2> QED BY <1>1, <1>4, <1>5, <2>1 DEF BookInv, ListInv, CrashOnlyIfMislinked, LevelPoolFull,
                                        OrderPoolFull
<1>6. CASE pc # "crashed"
  <2>1. ListInv'
    BY <1>2, <1>6, OrderedStep DEF BookInv, ListInv
  <2>2. CrashOnlyIfMislinked'
    <3> SUFFICES ASSUME pc' = "crashed", ~mislinked'
                 PROVE  (LevelPoolFull \/ OrderPoolFull)'
      BY DEF CrashOnlyIfMislinked
    <3>1. Crash
      BY <1>6 DEF Next, Request, InvalidRequest, Handler, Add, Cancel, Match, Filled, JoinLevel,
                  NewLevel, Walk, Splice, Rested, vars
    <3>2. LevelPoolFull \/ OrderPoolFull
      BY <1>2, <1>6, <3>1, CrashFor DEF BookInv, ListInv
    <3>3. LiveLevels' = LiveLevels /\ LiveOrders' = LiveOrders
      BY <3>1 DEF Crash, Exit, book, lists, LiveLevels, LiveOrders
    <3> QED BY <3>2, <3>3 DEF LevelPoolFull, OrderPoolFull
  <2> QED BY <1>1, <1>4, <2>1, <2>2 DEF BookInv
<1> QED BY <1>5, <1>6

\* The empty book satisfies the whole invariant.
LEMMA BookInit == Init => BookInv
<1> SUFFICES ASSUME Init PROVE BookInv
  OBVIOUS
<1>1. IInv /\ StructInv
  BY InitInv, StructInit
<1>2. LiveOrders = {} /\ LiveLevels = {} /\ pc = "idle" /\ bids_by_price = Null /\ asks_by_price = Null
  BY DEF Init, LiveOrders, LiveLevels, NoOrder, NoLevel
<1>3. \A side : PlacedOf(side) = {} /\ LevelsOf(side) = {} /\ BestOrdersByPrice(side) = Null
  BY <1>2 DEF PlacedOf, Placed, LevelsOf, BestOrdersByPrice
<1>4. OrderedInv
  BY <1>2, <1>3 DEF OrderedInv, HomeInv, SideInv, Ring, ApartInv, WalkInv
<1>5. QuietInv
  BY DEF Init, QuietInv, NoTaker
<1> QED BY <1>1, <1>2, <1>4, <1>5 DEF BookInv, ListInv, CrashOnlyIfMislinked, OwnerInv

\* The book is in order as long as no level or order was put in a wrong place.
THEOREM BookInOrder == Spec => []BookInv
<1>1. BookInv /\ [Next]_vars => BookInv'
  BY BookStep
<1> QED BY <1>1, BookInit, PTL DEF Spec

\* A handler ends the process only past a misplaced level, or when the order that
\* comes to rest takes the last block of a pool: in a well linked book no null
\* pointer is met.
THEOREM CrashNeedsCause == Spec => []CrashOnlyIfMislinked
<1>1. BookInv => CrashOnlyIfMislinked
  BY DEF BookInv
<1> QED BY <1>1, BookInOrder, PTL

----------------------------------------------------------------------------
(***************************************************************************)
(* What the invariant says of the book.                                    *)
(***************************************************************************)

\* Reading a side from its entry gives every level once, best price first.
LEMMA SortedLevels == ASSUME BookInv PROVE LevelsSorted
<1> SUFFICES ASSUME ~mislinked, pc \in {"idle", "match"}
             PROVE  /\ \A side \in Side :
                         /\ EntryIsBest(side)
                         /\ \A l \in LevelsOf(side) :
                              LET worse == {k \in LevelsOf(side) : Worse(side, levels[k].price, levels[l].price)}
                              IN  /\ IsBest(side, IF worse = {} THEN LevelsOf(side) ELSE worse, levels[l].next)
                                  /\ levels[levels[l].next].prev = l
                    /\ \A l \in LiveLevels : GetOrdersAtPrice(levels[l].price) = l
                    /\ \A x \in PriceIndex : price_orders_at_price[x] \in LiveLevels \cup {Null}
  BY DEF LevelsSorted
<1>1. OrderedInv /\ TypeOK /\ MapInv
  BY DEF BookInv, ListInv, IInv, StructInv
<1>2. \A l \in LiveLevels : GetOrdersAtPrice(levels[l].price) = l
  BY <1>1 DEF MapInv
<1>3. \A x \in PriceIndex : price_orders_at_price[x] \in LiveLevels \cup {Null}
  BY <1>1 DEF MapInv, LiveLevels, TypeOK, Pointer
<1>4. ASSUME NEW side \in Side
      PROVE  /\ EntryIsBest(side)
             /\ \A l \in LevelsOf(side) :
                  LET worse == {k \in LevelsOf(side) : Worse(side, levels[k].price, levels[l].price)}
                  IN  /\ IsBest(side, IF worse = {} THEN LevelsOf(side) ELSE worse, levels[l].next)
                      /\ levels[levels[l].next].prev = l
  <2> DEFINE S == LevelsOf(side)
  <2>1. PlacedOf(side) = S
    BY <1>1, PlacedLevels
  <2>2. Ring(S, levels, Rank) /\ IF S = {} THEN BestOrdersByPrice(side) = Null
                                 ELSE IsFirst(S, Rank, BestOrdersByPrice(side))
    BY <1>1, <2>1 DEF OrderedInv, SideInv
  <2>3. \A k, l \in S : /\ Rank[k] \in Int /\ Rank[l] \in Int
                        /\ Worse(side, levels[k].price, levels[l].price) <=> Rank[l] < Rank[k]
                        /\ Better(side, levels[k].price, levels[l].price) <=> Rank[k] < Rank[l]
    BY <1>1, WorseIsHigher
  <2> HIDE DEF S
  <2>4. EntryIsBest(side)
    <3>1. ASSUME NEW b, IsFirst(S, Rank, b) PROVE IsBest(side, S, b)
      BY <2>3, <3>1 DEF IsFirst, IsBest
    <3> QED BY <2>2, <3>1 DEF EntryIsBest, S
  <2>5. ASSUME NEW l \in S
        PROVE  LET worse == {k \in S : Worse(side, levels[k].price, levels[l].price)}
               IN  /\ IsBest(side, IF worse = {} THEN S ELSE worse, levels[l].next)
                   /\ levels[levels[l].next].prev = l
    <3> DEFINE worse == {k \in S : Worse(side, levels[k].price, levels[l].price)}
               n == levels[l].next
    <3>1. n \in S /\ levels[n].prev = l /\ Follows(S, Rank, l, n)
      BY <2>2 DEF Ring
    <3>2. \A k : k \in worse <=> k \in S /\ Rank[l] < Rank[k]
      BY <2>3
    <3> HIDE DEF worse, n
    <3>3. CASE Rank[l] < Rank[n]
      <4>1. n \in worse
        BY <3>1, <3>2, <3>3
      <4>2. \A k \in worse : ~Better(side, levels[k].price, levels[n].price)
        BY <2>3, <3>1, <3>2, <3>3 DEF Follows
      <4> QED BY <3>1, <4>1, <4>2 DEF IsBest, worse, n
    <3>4. CASE ~(Rank[l] < Rank[n])
      <4>1. worse = {}
        BY <2>3, <3>1, <3>2, <3>4 DEF Follows
      <4>2. \A k \in S : ~Better(side, levels[k].price, levels[n].price)
        BY <2>3, <3>1, <3>4 DEF Follows
      <4> QED BY <3>1, <4>1, <4>2 DEF IsBest, worse, n
    <3> QED BY <3>3, <3>4
  <2> QED BY <2>4, <2>5 DEF S
<1> QED BY <1>2, <1>3, <1>4

\* The levels of each side are read best price first from its entry, both ways,
\* as long as none was put in a wrong place.
THEOREM LevelsAreSorted == Spec => []LevelsSorted
<1> QED BY SortedLevels, BookInOrder, PTL

\* In an ordered book the queue of a level is that of its entry.
LEMMA QueueOfLevel ==
    ASSUME BookInv, OrderedInv, NEW l \in LiveLevels
    PROVE  LET x == PriceToIndex(levels[l].price)
           IN  /\ x \in PriceIndex /\ price_orders_at_price[x] = l
               /\ QueueOf(l) = AtIndex(x)
<1> DEFINE x == PriceToIndex(levels[l].price)
<1>1. TypeOK /\ MapInv /\ l \in Id /\ levels[l].price \in Int
  BY DEF BookInv, IInv, StructInv, TypeOK, LevelRecord, LiveLevels
<1>2. x \in PriceIndex /\ price_orders_at_price[x] = l
  BY <1>1, IndexInRange DEF MapInv, GetOrdersAtPrice
<1>3. ASSUME NEW o \in LiveOrders
      PROVE  o \in QueueOf(l) <=> Index(o) = x
  <2>1. CASE Index(o) = x
    BY <1>2, <2>1 DEF OrderedInv, HomeInv, QueueOf
  <2>2. CASE Index(o) # x
    BY <2>2 DEF QueueOf, Index
  <2> QED BY <2>1, <2>2
<1> QED BY <1>2, <1>3 DEF AtIndex, QueueOf

\* The orders of each level are read in the order of their arrival.
LEMMA TimeOrder == ASSUME BookInv PROVE QueuesInTimeOrder
<1> SUFFICES ASSUME ~mislinked, pc \in {"idle", "match"}
             PROVE  /\ \A o \in LiveOrders : \E l \in LiveLevels : o \in QueueOf(l)
                    /\ \A l \in LiveLevels :
                         /\ levels[l].first \in QueueOf(l)
                         /\ \A o \in QueueOf(l) :
                              LET n == orders[o].next
                              IN  /\ levels[l].first <= o
                                  /\ n \in QueueOf(l) /\ orders[n].prev = o
                                  /\ IF n = levels[l].first THEN \A k \in QueueOf(l) : k <= o
                                     ELSE /\ o < n /\ orders[o].priority < orders[n].priority
                                          /\ \A k \in QueueOf(l) : k <= o \/ k >= n
  BY DEF QueuesInTimeOrder
<1>1. OrderedInv /\ TypeOK /\ MapInv /\ QueueInv
  BY DEF BookInv, ListInv, IInv, StructInv
<1>2. ASSUME NEW o \in LiveOrders PROVE \E l \in LiveLevels : o \in QueueOf(l)
  <2> DEFINE l == price_orders_at_price[Index(o)]
  <2>1. l \in LiveLevels
    BY <1>1, QueueOfOrder
  <2>2. o \in QueueOf(l)
    BY <1>1 DEF OrderedInv, HomeInv, QueueOf
  <2> QED BY <2>1, <2>2
<1>3. ASSUME NEW l \in LiveLevels
      PROVE  /\ levels[l].first \in QueueOf(l)
             /\ \A o \in QueueOf(l) :
                  LET n == orders[o].next
                  IN  /\ levels[l].first <= o
                      /\ n \in QueueOf(l) /\ orders[n].prev = o
                      /\ IF n = levels[l].first THEN \A k \in QueueOf(l) : k <= o
                         ELSE /\ o < n /\ orders[o].priority < orders[n].priority
                              /\ \A k \in QueueOf(l) : k <= o \/ k >= n
  <2> DEFINE x == PriceToIndex(levels[l].price)
             Q == AtIndex(x)
             first == levels[l].first
  <2>1. x \in PriceIndex /\ price_orders_at_price[x] = l /\ QueueOf(l) = Q
    BY <1>1, QueueOfLevel
  <2>2. l # Null
    BY DEF LiveLevels, Id, Null
  <2>3. Q \subseteq Id /\ \A o \in Q : Arrival[o] = o /\ o \in Int
    BY DEF AtIndex, LiveOrders, Arrival, Id
  <2>4. first \in Q /\ \A o \in Q : first <= o
    BY <1>1, <2>1, <2>2, <2>3 DEF MapInv, IsFirst
  <2>5. Ring(Q, orders, Arrival) /\ \A o, k \in Q : o < k => orders[o].priority < orders[k].priority
    BY <1>1, <2>1 DEF QueueInv
  <2> HIDE DEF Q, first
  <2>6. ASSUME NEW o \in Q
        PROVE  LET n == orders[o].next
               IN  /\ n \in Q /\ orders[n].prev = o
                   /\ IF n = first THEN \A k \in Q : k <= o
                      ELSE /\ o < n /\ orders[o].priority < orders[n].priority
                           /\ \A k \in Q : k <= o \/ k >= n
    <3> DEFINE n == orders[o].next
    <3>1. n \in Q /\ orders[n].prev = o /\ Follows(Q, Arrival, o, n)
      BY <2>5 DEF Ring
    <3> HIDE DEF n
    <3>2. \A k \in Q : IF o < n THEN k <= o \/ n <= k ELSE n <= k /\ k <= o
      BY <2>3, <3>1 DEF Follows
    <3>3. CASE n = first
      BY <2>3, <2>4, <3>1, <3>2, <3>3 DEF n
    <3>4. CASE n # first
      <4>1. o < n
        BY <2>3, <2>4, <3>1, <3>2, <3>4
      <4> QED BY <2>3, <2>5, <3>1, <3>2, <3>4, <4>1 DEF n
    <3> QED BY <3>3, <3>4
  <2> QED BY <2>1, <2>4, <2>6 DEF first
<1> QED BY <1>2, <1>3

\* Time priority, as long as none was put in a wrong place: the queue of a level
\* is read from first_me_order_ in the order of arrival.
THEOREM QueuesAreInTimeOrder == Spec => []QueuesInTimeOrder
<1> QED BY TimeOrder, BookInOrder, PTL

----------------------------------------------------------------------------
(***************************************************************************)
(* What a step does to the orders in the book.                             *)
(***************************************************************************)

Entry(o) == [id |-> o, side |-> orders[o].side, price |-> orders[o].price, qty |-> orders[o].qty]
InBook == {k \in LiveOrders : pc = "walk" => k # taker.id}

\* Some orders go, some come, the others stay as they were.
LEMMA BookAfter ==
    ASSUME NEW gone \in SUBSET InBook, NEW come, come \cap (InBook \ gone) = {},
           InBook' = (InBook \ gone) \cup come,
           \A k \in InBook \ gone : Entry(k)' = Entry(k)
    PROVE  /\ RestingOrders' = (RestingOrders \ {Entry(k) : k \in gone}) \cup {Entry(k)' : k \in come}
           /\ {r \in RestingOrders : r.id \notin gone} = RestingOrders \ {Entry(k) : k \in gone}
<1>1. RestingOrders = {Entry(k) : k \in InBook}
  BY DEF RestingOrders, Entry, InBook
<1>2. RestingOrders' = {Entry(k)' : k \in InBook'}
  BY DEF RestingOrders, Entry, InBook
<1>3. \A k : Entry(k).id = k
  BY DEF Entry
<1>4. \A j, k : Entry(j) = Entry(k) => j = k
  BY <1>3
<1>5. {Entry(k) : k \in InBook} \ {Entry(k) : k \in gone} = {Entry(k) : k \in InBook \ gone}
  BY <1>4
<1>6. {Entry(k)' : k \in InBook'} = {Entry(k)' : k \in InBook \ gone} \cup {Entry(k)' : k \in come}
  OBVIOUS
<1>7. {Entry(k)' : k \in InBook \ gone} = {Entry(k) : k \in InBook \ gone}
  OBVIOUS
<1>8. {r \in RestingOrders : r.id \notin gone} = {Entry(k) : k \in InBook \ gone}
  BY <1>1, <1>3
<1> QED BY <1>1, <1>2, <1>5, <1>6, <1>7, <1>8

\* The same order, with the same client's wish.
LEMMA SameEntry ==
    ASSUME NEW k, SameOrder(orders'[k], orders[k])
    PROVE  Entry(k)' = Entry(k)
BY DEF SameOrder, Entry

\* Steps that leave the orders in the book as they are.
LEMMA BookStays ==
    ASSUME InBook' = InBook, \A k \in InBook : Entry(k)' = Entry(k)
    PROVE  RestingOrders' = RestingOrders
BY DEF RestingOrders, Entry, InBook

\* What a fill does: the order that it touches is the first of the best level,
\* and both sides lose what is filled.
Fills(o, fill) ==
    /\ o \in InBook /\ o # taker.id /\ fill \in Nat /\ fill > 0
    /\ fill <= taker.leaves /\ fill <= orders[o].qty
    /\ fill = FillQty(orders[o].qty, taker.leaves)
    /\ orders[o].side = Opposite(taker.side) /\ ~Worse(taker.side, taker.price, orders[o].price)
    /\ taker' = [taker EXCEPT !.leaves = @ - fill] /\ pc = "match" /\ pc' = "match"
    /\ \A k \in InBook \ {o} : Entry(k)' = Entry(k)
    /\ IF orders[o].qty = fill THEN InBook' = InBook \ {o} /\ ~orders'[o].live
       ELSE InBook' = InBook /\ Entry(o)' = [Entry(o) EXCEPT !.qty = @ - fill] /\ orders'[o].live
    /\ UNCHANGED next_market_order_id

\* match() fills at the touch, and takes the same from both sides.
LEMMA MatchFills ==
    ASSUME BookInv, OrderedInv, Match, NEW o, o = Touch,
           NEW fill, fill = FillQty(orders[o].qty, taker.leaves)
    PROVE  Fills(o, fill)
<1>1. IInv /\ StructInv /\ TypeOK /\ taker \in TakerRecord
  BY DEF BookInv, IInv, TypeOK
<1>2. Matchable /\ pc = "match" /\ taker.leaves > 0 /\ ~Worse(taker.side, taker.price, orders[o].price)
  BY DEF Match, Matchable
<1>3. o \in LiveOrders /\ orders[o].qty > 0 /\ orders[o].side = Opposite(taker.side) /\ o \in Id
  BY <1>1, <1>2, TouchIsBest DEF Matchable, LiveOrders
<1>4. o # taker.id /\ InBook = LiveOrders
  BY <1>1, <1>2, <1>3 DEF IInv, TakerInv, LiveOrders, InBook
<1>5. /\ taker.leaves \in Nat /\ orders[o].qty \in Nat /\ fill \in Nat
  BY <1>1, <1>2, MatchParts
<1>6. fill > 0 /\ fill <= taker.leaves /\ fill <= orders[o].qty
  BY <1>2, <1>3, <1>5 DEF FillQty
<1> DEFINE left == orders[o].qty - fill
<1>7. left = LeftOfTouch
  BY DEF LeftOfTouch
<1>8. taker' = [taker EXCEPT !.leaves = @ - fill] /\ pc' = "match" /\ InBook' = LiveOrders'
      /\ UNCHANGED next_market_order_id
  BY <1>2 DEF Match, InBook
<1>9. CASE orders[o].qty = fill
  <2>1. OneGone(o)
    BY <1>1, <1>5, <1>7, <1>9, MatchLinks
  <2>2. InBook' = InBook \ {o} /\ ~orders'[o].live
    BY <1>3, <1>4, <1>8, <2>1 DEF OneGone, LiveOrders
  <2>3. \A k \in InBook \ {o} : Entry(k)' = Entry(k)
    BY <1>4, <2>1, SameEntry DEF OneGone, LiveOrders
  <2> QED BY <1>2, <1>3, <1>4, <1>5, <1>6, <1>8, <1>9, <2>2, <2>3 DEF Fills
<1>10. CASE orders[o].qty # fill
  <2>1. orders' = [orders EXCEPT ![o].qty = left]
    BY <1>1, <1>5, <1>7, <1>10, MatchLinks
  <2>2. /\ \A k \in Id : orders'[k].live = orders[k].live
        /\ \A k \in Id \ {o} : orders'[k] = orders[k]
        /\ orders'[o].side = orders[o].side /\ orders'[o].price = orders[o].price
        /\ orders'[o].qty = left
    BY <1>1, <1>3, <2>1 DEF TypeOK, OrderRecord
  <2>3. InBook' = InBook /\ orders'[o].live
    BY <1>3, <1>4, <1>8, <2>2 DEF LiveOrders
  <2>4. \A k \in InBook \ {o} : Entry(k)' = Entry(k)
    BY <1>4, <2>2 DEF LiveOrders, Entry
  <2>5. Entry(o)' = [Entry(o) EXCEPT !.qty = @ - fill]
    BY <2>2 DEF Entry
  <2> QED BY <1>2, <1>3, <1>4, <1>5, <1>6, <1>8, <1>10, <2>3, <2>4, <2>5 DEF Fills
<1> QED BY <1>9, <1>10

\* An order comes to rest: it is the only one that is new in the book.
Rests(new) ==
    /\ new \in Id \ InBook /\ InBook' = InBook \cup {new}
    /\ \A k \in InBook : Entry(k)' = Entry(k)
    /\ Entry(new)' = [id |-> new, side |-> taker.side, price |-> taker.price, qty |-> taker.leaves]
    /\ taker.leaves > 0 /\ taker' = NoTaker /\ pc' = "idle" /\ UNCHANGED next_market_order_id

\* An order that joins a level comes to rest.
LEMMA JoinRests == ASSUME IInv, StructInv, JoinLevel, NEW new, new = taker.id PROVE Rests(new)
<1>1. PICK x : x = PriceToIndex(taker.price)
  OBVIOUS
<1>2. JoinsQueue(x) /\ TakerRests
  BY <1>1, JoinLinks
<1>3. /\ pc = "match" /\ pc' = "idle" /\ new \in Id /\ ~orders[new].live /\ taker' = NoTaker
      /\ taker.leaves > 0 /\ UNCHANGED next_market_order_id
  BY ZenonT(30) DEF IInv, TakerInv, JoinLevel, Resting, Rested
<1>4. /\ \A k \in Id \ {new} : SameOrder(orders'[k], orders[k]) /\ orders'[k].live = orders[k].live
      /\ orders'[new].live /\ orders'[new].side = taker.side /\ orders'[new].price = taker.price
      /\ orders'[new].qty = taker.leaves
  BY <1>2 DEF JoinsQueue, TakerRests
<1>5. InBook = LiveOrders /\ InBook' = LiveOrders \cup {new} /\ new \notin LiveOrders
  BY <1>3, <1>4 DEF InBook, LiveOrders
<1>6. \A k \in InBook : Entry(k)' = Entry(k)
  BY <1>4, <1>5, SameEntry DEF LiveOrders
<1> QED BY <1>3, <1>4, <1>5, <1>6 DEF Rests, Entry

\* A new level that is the only one of its side, or whose place is searched.
LEMMA NewLevelRests ==
    ASSUME IInv, StructInv, NewLevel, NEW new, new = taker.id
    PROVE  \/ Rests(new) /\ Rested(1)
           \/ /\ InBook' = InBook /\ \A k \in InBook : Entry(k)' = Entry(k)
              /\ pc' = "walk" /\ updates' = <<>> /\ UNCHANGED <<taker, next_market_order_id>>
<1>1. PICK x : x = PriceToIndex(taker.price)
  OBVIOUS
<1>2. OpensLevel(x)
  BY <1>1, NewLevelLinks
<1>3. /\ pc = "match" /\ new \in Id /\ ~orders[new].live
      /\ taker.leaves > 0 /\ UNCHANGED next_market_order_id
  BY DEF IInv, TakerInv, NewLevel, Resting
<1>4. /\ \A k \in Id \ {new} : orders'[k] = orders[k]
      /\ orders'[new].live /\ orders'[new].side = taker.side /\ orders'[new].price = taker.price
      /\ orders'[new].qty = taker.leaves
  BY <1>2 DEF OpensLevel, TakerRests
<1>5. InBook = LiveOrders /\ LiveOrders' = LiveOrders \cup {new} /\ new \notin LiveOrders
  BY <1>3, <1>4 DEF InBook, LiveOrders
<1>6. \A k \in InBook : Entry(k)' = Entry(k)
  BY <1>4, <1>5 DEF LiveOrders, Entry
<1>7. CASE BestOrdersByPrice(taker.side) = Null
  <2>1. Rested(1) /\ pc' = "idle" /\ taker' = NoTaker
    BY <1>7 DEF NewLevel, Rested
  <2>2. InBook' = LiveOrders'
    BY <2>1 DEF InBook
  <2> QED BY <1>3, <1>4, <1>5, <1>6, <2>1, <2>2 DEF Rests, Entry
<1>8. CASE BestOrdersByPrice(taker.side) # Null
  <2>1. pc' = "walk" /\ updates' = <<>> /\ UNCHANGED taker
    BY <1>8 DEF NewLevel
  <2>2. InBook' = InBook
    BY <1>5, <2>1 DEF InBook
  <2> QED BY <1>3, <1>6, <2>1, <2>2
<1> QED BY <1>7, <1>8

\* The order of a level that has found its place.
LEMMA SpliceRests == ASSUME IInv, StructInv, Splice, NEW new, new = taker.id PROVE Rests(new)
<1>1. /\ pc = "walk" /\ pc' = "idle" /\ new \in Id /\ taker' = NoTaker
      /\ UNCHANGED <<orders, next_market_order_id>>
      /\ orders[new].live /\ orders[new].side = taker.side /\ orders[new].price = taker.price
      /\ orders[new].qty = taker.leaves
  BY DEF IInv, TakerInv, StructInv, FreshInv, Splice, Rested
<1>2. taker.leaves > 0
  BY <1>1 DEF StructInv, QtyInv, LiveOrders
<1>3. InBook = LiveOrders \ {new} /\ InBook' = LiveOrders /\ new \in LiveOrders
  BY <1>1 DEF InBook, LiveOrders
<1>4. \A k : Entry(k)' = [id |-> k, side |-> orders[k].side, price |-> orders[k].price, qty |-> orders[k].qty]
  BY <1>1 DEF Entry
<1> QED BY <1>1, <1>2, <1>3, <1>4 DEF Rests, Entry

\* A cancel takes out the order that it finds.
LEMMA CancelTakes ==
    ASSUME IInv, StructInv, NEW c \in Client, NEW i \in ClientOrderId, Cancel(c, i), NEW o,
           o = cid_oid_to_order[<<c, i>>], o # Null
    PROVE  /\ o \in InBook /\ InBook' = InBook \ {o} /\ \A k \in InBook \ {o} : Entry(k)' = Entry(k)
           /\ pc = "idle" /\ UNCHANGED <<pc, taker, next_market_order_id>>
<1>1. o \in LiveOrders /\ OneGone(o)
  BY CancelLinks
<1>2. pc = "idle" /\ UNCHANGED <<pc, taker, next_market_order_id>>
  BY DEF Cancel
<1>3. InBook = LiveOrders /\ InBook' = LiveOrders \ {o}
  BY <1>1, <1>2 DEF InBook, OneGone, LiveOrders
<1>4. \A k \in InBook \ {o} : Entry(k)' = Entry(k)
  BY <1>1, <1>3, SameEntry DEF OneGone, LiveOrders
<1> QED BY <1>1, <1>2, <1>3, <1>4

----------------------------------------------------------------------------
(***************************************************************************)
(* The book as its clients see it: PriceTimeBook.                          *)
(***************************************************************************)

Incoming == [id |-> taker.id, side |-> taker.side, price |-> taker.price, qty |-> taker.leaves]

\* The level of an order has its price, on its side.
LEMMA LevelOfOrder ==
    ASSUME TypeOK, MapInv, HomeInv, NEW o \in LiveOrders
    PROVE  LET l == price_orders_at_price[Index(o)]
           IN  /\ l \in LevelsOf(orders[o].side) /\ levels[l].price = orders[o].price
               /\ Index(o) \in PriceIndex /\ IsFirst(AtIndex(Index(o)), Arrival, levels[l].first)
BY QueueOfOrder DEF HomeInv, LevelsOf

\* No order of the book trades before the one that is touched.
LEMMA TouchIsFirst ==
    ASSUME BookInv, OrderedInv, Matchable, NEW o, o = Touch,
           NEW k \in LiveOrders, k # o, orders[k].side = Opposite(taker.side)
    PROVE  Promise!Before(Entry(o), Entry(k))
<1>1. /\ IInv /\ StructInv /\ TypeOK /\ MapInv /\ HomeInv /\ pc = "match"
      /\ Opposite(taker.side) \in Side
  BY DEF BookInv, IInv, StructInv, OrderedInv, Matchable, Opposite, Side
<1>2. PICK best : best = BestOrdersByPrice(Opposite(taker.side))
  OBVIOUS
<1>3. /\ best # Null /\ o \in LiveOrders /\ orders[o].side = Opposite(taker.side)
      /\ orders[o].price = levels[best].price
      /\ IsFirst(LevelsOf(Opposite(taker.side)), Rank, best)
  BY <1>1, <1>2, TouchIsBest DEF Matchable
<1> DEFINE l == price_orders_at_price[Index(k)]
           side == Opposite(taker.side)
<1>4. l \in LevelsOf(side) /\ levels[l].price = orders[k].price
  BY <1>1, LevelOfOrder
<1>5. best \in LevelsOf(side) /\ Rank[best] <= Rank[l]
  BY <1>3, <1>4 DEF IsFirst
<1>6. o \in Int /\ k \in Int /\ orders[o].price \in Int /\ orders[k].price \in Int
  BY <1>1, <1>3 DEF LiveOrders, Id, TypeOK, OrderRecord
<1>7. CASE orders[k].price = orders[o].price
  <2>1. Index(k) = Index(o)
    BY <1>7 DEF Index
  <2>2. o = levels[price_orders_at_price[Index(o)]].first
    <3>1. price_orders_at_price[Index(o)] = best
      BY <1>1, <1>3, <1>5 DEF Index, MapInv, GetOrdersAtPrice, LevelsOf
    <3> QED BY <1>2, <3>1 DEF Touch
  <2>3. IsFirst(AtIndex(Index(o)), Arrival, o)
    BY <1>1, <1>3, <2>2, LevelOfOrder
  <2>4. o <= k
    BY <2>1, <2>3 DEF IsFirst, AtIndex, Arrival, LiveOrders
  <2>5. o < k
    BY <1>6, <2>4
  <2> QED BY <1>7, <2>5 DEF Promise!Before, Entry
<1>8. CASE orders[k].price # orders[o].price
  <2>1. ~Better(side, levels[l].price, levels[best].price)
    BY <1>1, <1>4, <1>5, WorseIsHigher
  <2>2. ~Better(side, orders[k].price, orders[o].price) /\ orders[o].side = side /\ side \in Side
    BY <1>1, <1>3, <1>4, <2>1
  <2> HIDE DEF side
  <2> QED BY <1>6, <1>8, <2>2 DEF Better, Worse, Side, Promise!Before, Entry
<1> QED BY <1>7, <1>8

\* match() is a trade of the incoming order with the first of the other side.
LEMMA MatchTrades == ASSUME BookInv, OrderedInv, Match PROVE Promise!Trade
<1>1. PICK o, fill : o = Touch /\ fill = FillQty(orders[o].qty, taker.leaves)
  OBVIOUS
<1>2. Fills(o, fill) /\ Matchable
  BY <1>1, MatchFills DEF Match
<1> DEFINE i == Incoming
           r == Entry(o)
           q == IF i.qty < r.qty THEN i.qty ELSE r.qty
<1>3. /\ TypeOK /\ taker \in TakerRecord /\ taker.leaves \in Nat /\ orders[o].qty \in Nat
      /\ taker.side \in Side /\ taker.price \in Int /\ orders[o].price \in Int
  BY <1>2 DEF BookInv, IInv, TypeOK, TakerRecord, Fills, InBook, LiveOrders, OrderRecord
<1>4. q = fill
  BY <1>2, <1>3 DEF Fills, FillQty, Incoming, Entry
<1>5. i \in IncomingOrder /\ r \in RestingOrders
  <2>1. taker.leaves # 0
    BY <1>2, <1>3 DEF Fills
  <2>2. r \in RestingOrders
    BY <1>2 DEF Fills, InBook, RestingOrders, Entry
  <2> QED BY <2>1, <2>2 DEF IncomingOrder, Incoming
<1>6. Promise!Crosses(i, r)
  BY <1>2, <1>3 DEF Fills, Promise!Crosses, Incoming, Entry, Opposite, Worse, Side
<1>7. Promise!First(r)
  <2> SUFFICES ASSUME NEW s \in RestingOrders, s.side = r.side, s # r PROVE Promise!Before(r, s)
    BY DEF Promise!First
  <2>1. PICK k \in InBook : s = Entry(k)
    BY DEF RestingOrders, InBook, Entry
  <2>2. k \in LiveOrders /\ k # o /\ orders[k].side = Opposite(taker.side)
    BY <1>2, <2>1 DEF InBook, Fills, Entry
  <2> QED BY <1>1, <1>2, <2>1, <2>2, TouchIsFirst
<1>8. RestingOrders' = (RestingOrders \ {r}) \cup Promise!Minus(r, q)
  <2>1. CASE orders[o].qty = fill
    <3>1. RestingOrders' = (RestingOrders \ {Entry(k) : k \in {o}}) \cup {Entry(k)' : k \in {}}
      <4>1. /\ InBook' = (InBook \ {o}) \cup {} /\ {} \cap (InBook \ {o}) = {}
            /\ o \in InBook /\ \A k \in InBook \ {o} : Entry(k)' = Entry(k)
        BY <1>2, <2>1 DEF Fills
      <4> QED BY <4>1, BookAfter
    <3>2. Promise!Minus(r, q) = {}
      BY <1>4, <2>1 DEF Promise!Minus, Entry
    <3> QED BY <3>1, <3>2
  <2>2. CASE orders[o].qty # fill
    <3>1. RestingOrders' = (RestingOrders \ {Entry(k) : k \in {o}}) \cup {Entry(k)' : k \in {o}}
      <4>1. InBook' = (InBook \ {o}) \cup {o} /\ {o} \cap (InBook \ {o}) = {}
        BY <1>2, <2>2 DEF Fills
      <4> QED BY <1>2, <4>1, BookAfter DEF Fills
    <3>2. Entry(o)' = [r EXCEPT !.qty = @ - q]
      BY <1>2, <1>4, <2>2 DEF Fills
    <3>3. Promise!Minus(r, q) = {[r EXCEPT !.qty = @ - q]}
      BY <1>4, <2>2 DEF Promise!Minus, Entry
    <3> QED BY <3>1, <3>2, <3>3
  <2> QED BY <2>1, <2>2
<1>9. IncomingOrder' = Promise!Minus(i, q)
  <2>1. /\ taker'.id = taker.id /\ taker'.side = taker.side /\ taker'.price = taker.price
        /\ taker'.leaves = taker.leaves - fill
    BY <1>2, <1>3 DEF Fills, TakerRecord
  <2>2. taker'.leaves = 0 <=> i.qty = q
    BY <1>2, <1>3, <1>4, <2>1 DEF Incoming, Fills
  <2>3. [i EXCEPT !.qty = @ - q] = [id |-> taker'.id, side |-> taker'.side, price |-> taker'.price,
                                    qty |-> taker'.leaves]
    BY <1>4, <2>1 DEF Incoming
  <2> QED BY <2>2, <2>3 DEF IncomingOrder, Promise!Minus
<1>10. UNCHANGED next_market_order_id
  BY <1>2 DEF Fills
<1> QED BY <1>5, <1>6, <1>7, <1>8, <1>9, <1>10 DEF Promise!Trade

\* An order that comes to rest crosses none of the other side.
LEMMA NothingCrosses ==
    ASSUME BookInv, OrderedInv, Resting \/ pc = "walk", NEW k \in LiveOrders, pc = "walk" => k # taker.id
    PROVE  ~Promise!Crosses(Incoming, Entry(k))
<1>1. /\ IInv /\ StructInv /\ TypeOK /\ MapInv /\ HomeInv
      /\ taker.side \in Side /\ taker.price \in Int /\ orders[k].price \in Int
  BY DEF BookInv, IInv, StructInv, OrderedInv, TypeOK, TakerRecord, OrderRecord, LiveOrders
<1> DEFINE l == price_orders_at_price[Index(k)]
<1>2. l \in LevelsOf(orders[k].side) /\ levels[l].price = orders[k].price
  BY <1>1, LevelOfOrder
<1> SUFFICES ASSUME orders[k].side = Opposite(taker.side)
             PROVE  Worse(taker.side, taker.price, orders[k].price)
  BY <1>1 DEF Promise!Crosses, Incoming, Entry, Opposite, Worse, Side
<1> HIDE DEF l
<1>3. CASE Resting
  BY <1>1, <1>2, <1>3, RestingApart
<1>4. CASE pc = "walk"
  <2>1. taker.id \in LevelsOf(taker.side) /\ levels[taker.id].price = taker.price
    BY <1>1, <1>4 DEF IInv, TakerInv, StructInv, FreshInv, LevelsOf, LiveLevels
  <2> QED BY <1>1, <1>2, <2>1 DEF OrderedInv, ApartInv, Opposite, Worse, Side
<1> QED BY <1>3, <1>4

\* The end of add() with something left is a rest of the incoming order.
LEMMA RestsAsPromised ==
    ASSUME BookInv, OrderedInv, Resting \/ pc = "walk", Rests(taker.id)
    PROVE  Promise!Rest
<1>1. PICK new : new = taker.id
  OBVIOUS
<1>2. Rests(new)
  BY <1>1
<1>3. Incoming \in IncomingOrder
  BY <1>2 DEF Rests, IncomingOrder, Incoming
<1>4. ASSUME NEW r \in RestingOrders PROVE ~Promise!Crosses(Incoming, r)
  <2>1. PICK k \in InBook : r = Entry(k)
    BY DEF RestingOrders, InBook, Entry
  <2> QED BY <2>1, NothingCrosses DEF InBook
<1>5. RestingOrders' = RestingOrders \cup {Incoming}
  <2>1. InBook' = (InBook \ {}) \cup {new} /\ {new} \cap (InBook \ {}) = {}
    BY <1>2 DEF Rests
  <2>2. RestingOrders' = (RestingOrders \ {Entry(k) : k \in {}}) \cup {Entry(k)' : k \in {new}}
    BY ZenonT(30), <1>2, <2>1, BookAfter DEF Rests
  <2>3. Entry(new)' = Incoming
    BY <1>1, <1>2 DEF Rests, Incoming
  <2> QED BY <2>2, <2>3
<1>6. IncomingOrder' = {} /\ UNCHANGED next_market_order_id
  BY <1>2 DEF Rests, IncomingOrder, NoTaker
<1> QED BY <1>3, <1>4, <1>5, <1>6 DEF Promise!Rest

\* Every step of a book in order is a step of the price-time priority book, or
\* changes nothing of it.
LEMMA PromiseKept ==
    ASSUME BookInv, [Next]_vars, ~mislinked' PROVE Promise!Next \/ UNCHANGED Promise!ptVars
<1>1. /\ IInv /\ StructInv /\ QuietInv
  BY DEF BookInv
<1>2. ~mislinked
  BY ZenonT(30) DEF Next, Request, Handler, Add, Cancel, Match, Filled, JoinLevel, NewLevel, Walk, Splice, LinkBefore,
         Crash, Exit, InvalidRequest, vars
<1>3. pc # "crashed" => OrderedInv
  BY <1>2 DEF BookInv, ListInv
<1> DEFINE Same == InBook' = InBook /\ \A k \in InBook : Entry(k)' = Entry(k)
<1>4. ASSUME Same, IncomingOrder' = IncomingOrder, UNCHANGED next_market_order_id
      PROVE  UNCHANGED Promise!ptVars
  BY <1>4, BookStays DEF Promise!ptVars
<1>5. ASSUME NEW c \in Client, NEW i \in ClientOrderId, NEW side \in Side,
             NEW p \in BuyPrice \cup SellPrice, NEW q \in Quantity, Add(c, i, side, p, q)
      PROVE  Promise!Next
  <2>1. /\ pc = "idle" /\ pc' = "match" /\ taker.leaves = 0
        /\ next_market_order_id' = next_market_order_id + 1
        /\ taker'.id = next_market_order_id /\ taker'.side = side /\ taker'.price = p /\ taker'.leaves = q
        /\ UNCHANGED orders
    BY <1>1, <1>5 DEF Add, QuietInv, book
  <2>2. Same
    BY <2>1 DEF InBook, LiveOrders, Entry
  <2>3. RestingOrders' = RestingOrders
    BY <2>2, BookStays
  <2>4. q # 0
    BY QuantityAssumption
  <2>5. IncomingOrder = {} /\ IncomingOrder' = {[id |-> next_market_order_id, side |-> side,
                                                 price |-> p, qty |-> q]}
    BY <2>1, <2>4 DEF IncomingOrder
  <2> QED BY <2>1, <2>3, <2>5 DEF Promise!Next, Promise!Submit, Side
<1>6. ASSUME NEW c \in Client, NEW i \in ClientOrderId, Cancel(c, i)
      PROVE  Promise!Next \/ UNCHANGED Promise!ptVars
  <2>1. PICK o : o = cid_oid_to_order[<<c, i>>]
    OBVIOUS
  <2>2. CASE o = Null
    <3>1. UNCHANGED <<orders, taker, pc, next_market_order_id>>
      BY <1>6, <2>1, <2>2 DEF Cancel, book
    <3>2. Same /\ IncomingOrder' = IncomingOrder
      BY <3>1 DEF InBook, LiveOrders, Entry, IncomingOrder
    <3> QED BY <1>4, <3>1, <3>2
  <2>3. CASE o # Null
    <3>1. /\ o \in InBook /\ InBook' = InBook \ {o} /\ \A k \in InBook \ {o} : Entry(k)' = Entry(k)
          /\ pc = "idle" /\ UNCHANGED <<pc, taker, next_market_order_id>>
      BY <1>1, <1>6, <2>1, <2>3, CancelTakes
    <3>2. RestingOrders' = (RestingOrders \ {Entry(k) : k \in {o}}) \cup {Entry(k)' : k \in {}}
      <4>1. InBook' = (InBook \ {o}) \cup {} /\ {} \cap (InBook \ {o}) = {}
        BY <3>1
      <4> QED BY ZenonT(30), <3>1, <4>1, BookAfter
    <3>3. RestingOrders' = RestingOrders \ {Entry(o)} /\ Entry(o) \in RestingOrders
      BY <3>1, <3>2 DEF RestingOrders, InBook, Entry
    <3>4. IncomingOrder = {} /\ IncomingOrder' = IncomingOrder
      BY <1>1, <3>1 DEF QuietInv, IncomingOrder
    <3> QED BY <3>1, <3>3, <3>4 DEF Promise!Next, Promise!Withdraw
  <2> QED BY <2>2, <2>3
<1>7. CASE Match
  BY <1>3, <1>7, MatchTrades DEF BookInv, Match, Matchable, Promise!Next
<1>8. CASE Filled
  <2>1. /\ pc = "match" /\ pc' = "idle" /\ taker.leaves = 0 /\ taker' = NoTaker
        /\ UNCHANGED <<orders, next_market_order_id>>
    BY <1>8 DEF Filled, book
  <2>2. Same /\ IncomingOrder' = IncomingOrder
    BY <2>1 DEF InBook, LiveOrders, Entry, IncomingOrder, NoTaker
  <2> QED BY <1>4, <2>1, <2>2
<1>9. CASE JoinLevel
  BY ZenonT(30), <1>1, <1>3, <1>9, JoinRests, RestsAsPromised DEF JoinLevel, Resting, Promise!Next
<1>10. CASE NewLevel
  <2>1. Resting /\ OrderedInv
    BY <1>3, <1>10 DEF NewLevel, Resting
  <2>2. CASE Rests(taker.id)
    BY <2>1, <2>2, RestsAsPromised DEF Promise!Next
  <2>3. CASE Same /\ UNCHANGED <<taker, next_market_order_id>>
    BY <1>4, <2>3 DEF IncomingOrder
  <2> QED BY <1>1, <1>10, <2>2, <2>3, NewLevelRests
<1>11. CASE Walk
  <2>1. UNCHANGED <<orders, taker, pc, next_market_order_id>>
    BY <1>11 DEF Walk, book
  <2>2. Same /\ IncomingOrder' = IncomingOrder
    BY <2>1 DEF InBook, LiveOrders, Entry, IncomingOrder
  <2> QED BY <1>4, <2>1, <2>2
<1>12. CASE Splice
  BY <1>1, <1>3, <1>12, SpliceRests, RestsAsPromised DEF Splice, Promise!Next
<1>13. CASE Crash
  <2>1. UNCHANGED <<orders, taker, next_market_order_id>> /\ pc' = "crashed"
    BY <1>13 DEF Crash, Exit, book
  <2>2. pc = "match"
    <3>1. pc # "crashed"
      BY <1>13 DEF Crash, MatchFails, Matchable, RestFails, Resting, WalkFails, Searching
    <3>2. ~WalkFails
      BY <1>1, <1>3, <3>1, SearchWorks
    <3> QED BY <1>13, <3>2 DEF Crash, MatchFails, Matchable, RestFails, Resting
  <2>3. Same /\ IncomingOrder' = IncomingOrder
    BY <2>1, <2>2 DEF InBook, LiveOrders, Entry, IncomingOrder
  <2> QED BY <1>4, <2>1, <2>3
<1>14. CASE UNCHANGED vars
  <2>1. UNCHANGED <<orders, taker, pc, next_market_order_id>>
    BY <1>14 DEF vars, book
  <2>2. Same /\ IncomingOrder' = IncomingOrder
    BY <2>1 DEF InBook, LiveOrders, Entry, IncomingOrder
  <2> QED BY <1>4, <2>1, <2>2
<1>15. CASE InvalidRequest
  <2>1. UNCHANGED <<orders, taker, next_market_order_id>> /\ pc = "idle" /\ pc' = "fatal"
    BY <1>15 DEF InvalidRequest, book
  <2>2. Same /\ IncomingOrder' = IncomingOrder
    BY <2>1 DEF InBook, LiveOrders, Entry, IncomingOrder
  <2> QED BY <1>4, <2>1, <2>2
<1> QED BY <1>5, <1>6, <1>7, <1>8, <1>9, <1>10, <1>11, <1>12, <1>13, <1>14, <1>15
        DEF Next, Request, Handler, Side

\* Up to the first misplaced level the book implements price-time priority:
\* each of its steps is a step of PriceTimeBook, or changes nothing of it.
THEOREM ImplementsPriceTime == Spec => ActsAsPriceTimeBook
<1>1. BookInv /\ [Next]_vars => [mislinked' \/ Promise!Next \/ UNCHANGED Promise!ptVars]_vars
  BY PromiseKept
<1> QED BY <1>1, BookInOrder, PTL DEF Spec, ActsAsPriceTimeBook

----------------------------------------------------------------------------
(***************************************************************************)
(* The promise: the abstract book, for every set of quantities, every      *)
(* price and any number of orders.  The steps are those of PriceTimeBook,  *)
(* under the names the refinement gives its variables; how the pointers    *)
(* make up the orders in the book is not used.                             *)
(***************************************************************************)

PromiseStep == Promise!Next \/ UNCHANGED Promise!ptVars

\* What a fill leaves of an order is the same order with a positive quantity.
LEMMA PromiseMinus ==
    ASSUME NEW o \in Promise!Order, NEW q \in Nat, q <= o.qty
    PROVE  /\ Promise!Minus(o, q) \subseteq Promise!Order
           /\ \A p \in Promise!Minus(o, q) :
                 /\ Promise!Minus(o, q) = {p}
                 /\ p.id = o.id /\ p.side = o.side /\ p.price = o.price /\ p.qty = o.qty - q
<1>1. CASE o.qty = q
  BY <1>1 DEF Promise!Minus
<1>2. CASE o.qty # q
  <2> DEFINE p == [o EXCEPT !.qty = @ - q]
  <2>1. p \in Promise!Order /\ p.id = o.id /\ p.side = o.side /\ p.price = o.price /\ p.qty = o.qty - q
    BY <1>2 DEF Promise!Order
  <2>2. Promise!Minus(o, q) = {p}
    BY <1>2 DEF Promise!Minus
  <2> QED BY <2>1, <2>2
<1> QED BY <1>1, <1>2

\* The parts of a trade, for the proofs below.
LEMMA PromiseTrade ==
    ASSUME Promise!TypeOK, Promise!Trade
    PROVE  \E o \in IncomingOrder, r \in RestingOrders, q \in Nat :
              /\ o \in Promise!Order /\ r \in Promise!Order /\ q <= o.qty /\ q <= r.qty
              /\ Promise!Crosses(o, r) /\ Promise!First(r)
              /\ RestingOrders' = (RestingOrders \ {r}) \cup Promise!Minus(r, q)
              /\ IncomingOrder' = Promise!Minus(o, q) /\ next_market_order_id' = next_market_order_id
<1>1. PICK o \in IncomingOrder, r \in RestingOrders :
         LET q == IF o.qty < r.qty THEN o.qty ELSE r.qty IN
         /\ Promise!Crosses(o, r) /\ Promise!First(r)
         /\ RestingOrders' = (RestingOrders \ {r}) \cup Promise!Minus(r, q)
         /\ IncomingOrder' = Promise!Minus(o, q) /\ UNCHANGED next_market_order_id
  BY DEF Promise!Trade
<1> DEFINE q == IF o.qty < r.qty THEN o.qty ELSE r.qty
<1>2. o \in Promise!Order /\ r \in Promise!Order
  BY DEF Promise!TypeOK
<1>3. q \in Nat /\ q <= o.qty /\ q <= r.qty
  BY <1>2 DEF Promise!Order
<1> QED BY <1>1, <1>2, <1>3

\* Every step keeps orders well formed.
LEMMA PromiseTypes ==
    ASSUME Promise!Numbers, Promise!TypeOK, PromiseStep
    PROVE  Promise!TypeOK'
<1>1. CASE Promise!Submit
  <2>1. PICK side \in {"BUY", "SELL"}, p \in BuyPrice \cup SellPrice, q \in Quantity :
          /\ IncomingOrder' = {[id |-> next_market_order_id, side |-> side, price |-> p, qty |-> q]}
          /\ next_market_order_id' = next_market_order_id + 1
          /\ RestingOrders' = RestingOrders
    BY <1>1 DEF Promise!Submit
  <2>2. [id |-> next_market_order_id, side |-> side, price |-> p, qty |-> q] \in Promise!Order
    BY <2>1 DEF Promise!Numbers, Promise!TypeOK, Promise!Order
  <2> QED BY <2>1, <2>2 DEF Promise!TypeOK
<1>2. CASE Promise!Trade
  <2>1. PICK o \in IncomingOrder, r \in RestingOrders, q \in Nat :
            /\ o \in Promise!Order /\ r \in Promise!Order /\ q <= o.qty /\ q <= r.qty
            /\ RestingOrders' = (RestingOrders \ {r}) \cup Promise!Minus(r, q)
            /\ IncomingOrder' = Promise!Minus(o, q) /\ next_market_order_id' = next_market_order_id
    BY <1>2, PromiseTrade
  <2>2. Promise!Minus(o, q) \subseteq Promise!Order /\ Promise!Minus(r, q) \subseteq Promise!Order
        /\ \A p \in Promise!Minus(o, q) : Promise!Minus(o, q) = {p}
    BY <2>1, PromiseMinus
  <2> QED BY <2>1, <2>2 DEF Promise!TypeOK
<1>3. CASE Promise!Rest
  BY <1>3 DEF Promise!Rest, Promise!TypeOK
<1>4. CASE Promise!Withdraw
  BY <1>4 DEF Promise!Withdraw, Promise!TypeOK
<1>5. CASE UNCHANGED Promise!ptVars
  BY <1>5 DEF Promise!ptVars, Promise!TypeOK
<1> QED BY <1>1, <1>2, <1>3, <1>4, <1>5 DEF PromiseStep, Promise!Next

\* No step crosses the book: an order comes to rest only when it crosses
\* nothing, and a trade changes no price.
LEMMA PromiseNotCrossed ==
    ASSUME Promise!TypeOK, Promise!NotCrossed, PromiseStep
    PROVE  Promise!NotCrossed'
<1>1. CASE Promise!Submit
  BY <1>1 DEF Promise!Submit, Promise!NotCrossed
<1>2. CASE Promise!Trade
  <2>1. PICK o \in IncomingOrder, r \in RestingOrders, q \in Nat :
            /\ r \in Promise!Order /\ q <= r.qty
            /\ RestingOrders' = (RestingOrders \ {r}) \cup Promise!Minus(r, q)
    BY <1>2, PromiseTrade
  <2>2. \A s \in RestingOrders' : \E t \in RestingOrders : s.side = t.side /\ s.price = t.price
    BY <2>1, PromiseMinus
  <2> QED BY <2>2 DEF Promise!NotCrossed
<1>3. CASE Promise!Rest
  <2>1. PICK o \in IncomingOrder : /\ \A r \in RestingOrders : ~Promise!Crosses(o, r)
                                   /\ RestingOrders' = RestingOrders \cup {o}
    BY <1>3 DEF Promise!Rest
  <2>2. o \in Promise!Order /\ RestingOrders \subseteq Promise!Order
    BY DEF Promise!TypeOK
  <2>3. ASSUME NEW b \in RestingOrders', NEW s \in RestingOrders', b.side = "BUY", s.side = "SELL"
        PROVE  b.price < s.price
    <3>1. b \in Promise!Order /\ s \in Promise!Order
      BY <2>1, <2>2
    <3>2. CASE b = o /\ s # o
      BY <2>1, <2>3, <3>1, <3>2 DEF Promise!Crosses, Promise!Order
    <3>3. CASE s = o /\ b # o
      BY <2>1, <2>3, <3>1, <3>3 DEF Promise!Crosses, Promise!Order
    <3>4. CASE b # o /\ s # o
      BY <2>1, <2>3, <3>4 DEF Promise!NotCrossed
    <3> QED BY <2>3, <3>2, <3>3, <3>4
  <2> QED BY <2>3 DEF Promise!NotCrossed
<1>4. CASE Promise!Withdraw
  BY <1>4 DEF Promise!Withdraw, Promise!NotCrossed
<1>5. CASE UNCHANGED Promise!ptVars
  BY <1>5 DEF Promise!ptVars, Promise!NotCrossed
<1> QED BY <1>1, <1>2, <1>3, <1>4, <1>5 DEF PromiseStep, Promise!Next

\* A step that takes an order out while another is processed is a trade with
\* the first order of a side.
LEMMA PromisePriority ==
    ASSUME Promise!TypeOK, PromiseStep
    PROVE  Promise!TradesWithFirst
<1> SUFFICES ASSUME NEW r \in RestingOrders, r \notin RestingOrders', IncomingOrder # {}
             PROVE  Promise!First(r) /\ \E o \in IncomingOrder : Promise!Crosses(o, r)
  BY DEF Promise!TradesWithFirst
<1>1. CASE Promise!Submit
  BY <1>1 DEF Promise!Submit
<1>2. CASE Promise!Trade
  BY <1>2, PromiseTrade
<1>3. CASE Promise!Rest
  BY <1>3 DEF Promise!Rest
<1>4. CASE Promise!Withdraw
  BY <1>4 DEF Promise!Withdraw
<1>5. CASE UNCHANGED Promise!ptVars
  BY <1>5 DEF Promise!ptVars
<1> QED BY <1>1, <1>2, <1>3, <1>4, <1>5 DEF PromiseStep, Promise!Next

\* Nothing rests in the abstract book that is filled, whatever is asked of it.
LEMMA PromiseTypeCorrect == Promise!Numbers => (Promise!Spec => []Promise!TypeOK)
<1> SUFFICES ASSUME Promise!Numbers PROVE Promise!Spec => []Promise!TypeOK
  OBVIOUS
<1>1. Promise!Init => Promise!TypeOK
  BY DEF Promise!Init, Promise!TypeOK
<1>2. Promise!TypeOK /\ [Promise!Next]_(Promise!ptVars) => Promise!TypeOK'
  BY PromiseTypes DEF PromiseStep
<1> QED BY <1>1, <1>2, PTL DEF Promise!Spec

\* The abstract book is never crossed, whatever is submitted and withdrawn.
THEOREM NeverCrossed == Promise!Numbers => (Promise!Spec => []Promise!NotCrossed)
<1>1. Promise!Init => Promise!NotCrossed
  BY DEF Promise!Init, Promise!NotCrossed
<1>2. Promise!TypeOK /\ Promise!NotCrossed /\ [Promise!Next]_(Promise!ptVars) => Promise!NotCrossed'
  BY PromiseNotCrossed DEF PromiseStep
<1> QED BY <1>1, <1>2, PromiseTypeCorrect, PTL DEF Promise!Spec

\* What holds of the abstract book holds of the pointers.
PromisedInv == ~mislinked => Promise!TypeOK /\ Promise!NotCrossed

LEMMA PromisedInit == Init => PromisedInv
<1> SUFFICES ASSUME Init PROVE Promise!TypeOK /\ Promise!NotCrossed
  BY DEF PromisedInv
<1>1. LiveOrders = {} /\ taker.leaves = 0 /\ next_market_order_id = 1
  BY DEF Init, LiveOrders, NoTaker, NoOrder
<1>2. RestingOrders = {}
  BY <1>1 DEF RestingOrders
<1>3. IncomingOrder = {}
  BY <1>1 DEF IncomingOrder
<1> QED BY <1>1, <1>2, <1>3 DEF Promise!TypeOK, Promise!NotCrossed

\* A misplaced level stays so.
LEMMA MisplacedForGood == [Next]_vars /\ mislinked => mislinked'
BY ZenonT(30) DEF Next, Request, Handler, Add, Cancel, Match, Filled, JoinLevel, NewLevel, Walk, Splice,
                  LinkBefore, Crash, Exit, InvalidRequest, vars

\* Each step is one of the abstract book, so it keeps what those keep.
LEMMA PromisedStep ==
    ASSUME BookInv, PromisedInv, [Next]_vars, ~mislinked'
    PROVE  PromisedInv' /\ Promise!TradesWithFirst
<1>1. Promise!TypeOK /\ Promise!NotCrossed
  BY MisplacedForGood DEF PromisedInv
<1>2. Promise!Next \/ UNCHANGED Promise!ptVars
  BY PromiseKept
<1>3. Promise!Numbers
  BY PriceAssumption, QuantityAssumption DEF Promise!Numbers
<1>4. Promise!TypeOK'
  BY <1>1, <1>2, <1>3, PromiseTypes DEF PromiseStep
<1>5. Promise!NotCrossed'
  BY <1>1, <1>2, PromiseNotCrossed DEF PromiseStep
<1>6. Promise!TradesWithFirst
  BY <1>1, <1>2, PromisePriority DEF PromiseStep
<1> QED BY <1>4, <1>5, <1>6 DEF PromisedInv

\* While every level is where it belongs, the pointer structure is never
\* crossed, and nothing that was filled rests in it.
THEOREM PointersNeverCross == Spec => []PromisedInv
<1>1. BookInv /\ PromisedInv /\ [Next]_vars => PromisedInv'
  BY PromisedStep DEF PromisedInv
<1> QED BY <1>1, PromisedInit, BookInOrder, PTL DEF Spec

\* Until a level is misplaced, match() takes an order out of the lists, or
\* changes it, only when it is the best priced and then the earliest of its
\* side, and the order it is working on accepts its price.
PointersInPriority == [][~mislinked' => Promise!TradesWithFirst]_vars
THEOREM PriorityOfPointers == Spec => PointersInPriority
<1>1. BookInv /\ PromisedInv /\ [Next]_vars => [~mislinked' => Promise!TradesWithFirst]_vars
  BY PromisedStep
<1> QED BY <1>1, PointersNeverCross, BookInOrder, PTL DEF Spec, PointersInPriority

----------------------------------------------------------------------------
(***************************************************************************)
(* What each step does.                                                    *)
(***************************************************************************)

\* The rounds of both loops of add() bring them nearer to their end.
LEMMA RoundsAdvance ==
    ASSUME BookInv, [Next]_vars, ~mislinked
    PROVE  /\ pc = "match" /\ pc' = "match" => taker'.leaves < taker.leaves \/ UNCHANGED vars
           /\ Searching /\ Searching' =>
                Worse(taker.side, levels[target'].price, levels[target].price) \/ UNCHANGED vars
<1>1. IInv /\ StructInv /\ TypeOK /\ MapInv /\ taker \in TakerRecord
  BY DEF BookInv, IInv, StructInv, TypeOK
<1>2. ASSUME pc = "match", pc' = "match", ~UNCHANGED vars PROVE taker'.leaves < taker.leaves
  <2>1. Match
    BY <1>2 DEF Next, Request, InvalidRequest, Handler, Add, Cancel, Filled, JoinLevel, NewLevel, Rested,
                Walk, Searching, Splice, Crash, Exit
  <2>2. PICK o, fill : o = Touch /\ fill = FillQty(orders[o].qty, taker.leaves)
    OBVIOUS
  <2>3. Fills(o, fill)
    BY <1>2, <2>1, <2>2, MatchFills DEF BookInv, ListInv
  <2> QED BY <1>1, <2>3 DEF Fills, TakerRecord
<1>3. ASSUME Searching, Searching', ~UNCHANGED vars
      PROVE  Worse(taker.side, levels[target'].price, levels[target].price)
  <2>1. PICK own : own = taker.side
    OBVIOUS
  <2>2. OrderedInv /\ pc = "walk" /\ own \in Side
    BY <1>1, <1>3, <2>1 DEF BookInv, ListInv, Searching, TakerRecord
  <2>3. Walk
    BY <1>3 DEF Next, Request, InvalidRequest, Handler, Add, Cancel, Match, Matchable, Filled, JoinLevel,
                NewLevel, Resting, Splice, Crash, Exit, Searching
  <2>4. /\ add_after' /\ target' # BestOrdersByPrice(own)'
        /\ UNCHANGED <<levels, bids_by_price, asks_by_price, taker>>
    BY <1>3, <2>1, <2>3 DEF Searching, Walk, book, lists
  <2>5. /\ target' = levels[target].next /\ BestOrdersByPrice(own)' = BestOrdersByPrice(own)
    BY <2>1, <2>3, <2>4 DEF Walk, BestOrdersByPrice
  <2> DEFINE S == PlacedOf(own)
             n == levels[target].next
             best == BestOrdersByPrice(own)
  <2>6. target \in S /\ Ring(S, levels, Rank) /\ Keys(S, Rank) /\ S \subseteq LevelsOf(own)
    BY <1>1, <2>1, <2>2, PlacedLevels DEF OrderedInv, SideInv, WalkInv
  <2>7. IsFirst(S, Rank, best)
    BY <2>2, <2>6 DEF OrderedInv, SideInv
  <2>8. n \in S /\ Follows(S, Rank, target, n) /\ n # best
    BY <2>4, <2>5, <2>6 DEF Ring
  <2> HIDE DEF S, n, best
  <2>9. Rank[best] < Rank[n]
    BY <2>6, <2>7, <2>8 DEF IsFirst, Keys
  <2>10. Rank[target] < Rank[n]
    BY <2>6, <2>7, <2>8, <2>9 DEF IsFirst, Follows, Keys
  <2>11. Worse(own, levels[n].price, levels[target].price)
    BY <1>1, <2>2, <2>6, <2>8, <2>10, WorseIsHigher
  <2> QED BY <2>1, <2>5, <2>11 DEF n
<1> QED BY <1>2, <1>3

\* As long as every level is where it belongs, both loops of add() end.
THEOREM BothLoopsAdvance == Spec => LoopsAdvance
<1>1. BookInv /\ [Next]_vars =>
        [~mislinked => /\ pc = "match" /\ pc' = "match" => taker'.leaves < taker.leaves
                       /\ Searching /\ Searching' =>
                            Worse(taker.side, levels[target'].price, levels[target].price)]_vars
  BY RoundsAdvance
<1> QED BY <1>1, BookInOrder, PTL DEF Spec, LoopsAdvance

\* Both clients of a trade hear of it alike, and what is left of each order.
LEMMA TradeHeard ==
    ASSUME BookInv, [Next]_vars, ~UNCHANGED vars, Matchable, pc' = "match", ~mislinked,
           NEW t \in {responses'[k] : k \in DOMAIN responses'},
           NEW r \in {responses'[k] : k \in DOMAIN responses'},
           t.id = taker.id, r.id # t.id
    PROVE  /\ t.side # r.side /\ t.price = r.price /\ t.exec = r.exec /\ t.exec > 0
           /\ ~Worse(t.side, taker.price, t.price)
           /\ t.leaves = taker'.leaves /\ t.leaves >= 0
           /\ r.leaves = IF orders'[r.id].live THEN orders'[r.id].qty ELSE 0
<1>1. Match
  BY DEF Matchable, Next, Request, InvalidRequest, Handler, Add, Cancel, Filled, JoinLevel, NewLevel,
         Rested, Walk, Searching, Splice, Crash, Exit
<1>2. PICK o, fill : o = Touch /\ fill = FillQty(orders[o].qty, taker.leaves)
  OBVIOUS
<1>3. Fills(o, fill)
  BY <1>1, <1>2, MatchFills DEF BookInv, ListInv, Matchable
<1>4. PICK a, b : /\ a = Response("FILLED", taker.client, taker.coid, taker.id % QtyModulus, taker.side,
                                  orders[o].price, fill, taker.leaves - fill)
                  /\ b = Response("FILLED", orders[o].client, orders[o].coid, o, orders[o].side,
                                  orders[o].price, fill, orders[o].qty - fill)
  OBVIOUS
<1>5. responses' = <<a, b>>
  BY <1>1, <1>2, <1>4 DEF Match
<1>6. t \in {a, b} /\ r \in {a, b}
  BY <1>5
<1>7. b.id # taker.id
  BY <1>3, <1>4 DEF Fills, Response
<1>8. t = a /\ r = b
  BY <1>6, <1>7
<1>9. /\ TypeOK /\ taker \in TakerRecord /\ taker.leaves \in Nat /\ orders[o].qty \in Nat
      /\ taker.side \in Side
  BY <1>3 DEF BookInv, IInv, TypeOK, TakerRecord, Fills, InBook, LiveOrders, OrderRecord
<1>10. taker'.leaves = taker.leaves - fill /\ taker.leaves - fill >= 0
  BY <1>3, <1>9 DEF Fills, TakerRecord
<1>11. orders[o].qty - fill = IF orders'[o].live THEN orders'[o].qty ELSE 0
  <2>1. CASE orders[o].qty = fill
    BY <1>3, <1>9, <2>1 DEF Fills
  <2>2. CASE orders[o].qty # fill
    <3>1. orders'[o].live /\ Entry(o)' = [Entry(o) EXCEPT !.qty = @ - fill]
      BY <1>3, <2>2 DEF Fills
    <3>2. Entry(o)'.qty = orders'[o].qty /\ Entry(o).qty = orders[o].qty
      BY DEF Entry
    <3>3. [Entry(o) EXCEPT !.qty = @ - fill].qty = Entry(o).qty - fill
      BY DEF Entry
    <3> QED BY <3>1, <3>2, <3>3
  <2> QED BY <2>1, <2>2
<1>12. /\ a.side = taker.side /\ b.side = orders[o].side /\ a.price = orders[o].price
       /\ b.price = orders[o].price /\ a.exec = fill /\ b.exec = fill
       /\ a.leaves = taker.leaves - fill /\ b.leaves = orders[o].qty - fill /\ b.id = o
  BY <1>4 DEF Response
<1>13. taker.side # orders[o].side /\ fill > 0 /\ ~Worse(taker.side, taker.price, orders[o].price)
  BY <1>3, <1>9 DEF Fills, Opposite, Side
<1> QED BY <1>8, <1>10, <1>11, <1>12, <1>13

\* In a well linked book the two clients of a trade are told the same of it.
THEOREM TradesAreHeard == Spec => BothHearOfTheTrade
<1>1. BookInv /\ [Next]_vars =>
        [\A t, r \in {responses'[k] : k \in DOMAIN responses'} :
         Matchable /\ pc' = "match" /\ ~mislinked /\ t.id = taker.id /\ r.id # t.id =>
            /\ t.side # r.side /\ t.price = r.price /\ t.exec = r.exec /\ t.exec > 0
            /\ ~Worse(t.side, taker.price, t.price)
            /\ t.leaves = taker'.leaves /\ t.leaves >= 0
            /\ r.leaves = IF orders'[r.id].live THEN orders'[r.id].qty ELSE 0]_vars
  BY TradeHeard
<1> QED BY <1>1, BookInOrder, PTL DEF Spec, BothHearOfTheTrade

----------------------------------------------------------------------------

\* What the market is told by some updates.
ToldOut(told) == {u.id : u \in {v \in told : v.type \in {"CANCEL", "MODIFY"}}}
ToldIn(told) == {[id |-> u.id, side |-> u.side, price |-> u.price, qty |-> u.qty] :
                   u \in {v \in told : v.type \in {"ADD", "MODIFY"}}}
TellsTheBook(told) == RestingOrders' = {r \in RestingOrders : r.id \notin ToldOut(told)} \cup ToldIn(told)

\* Nothing is told of a step that leaves the book as it is.
LEMMA NothingToTell ==
    ASSUME InBook' = InBook, \A k \in InBook : Entry(k)' = Entry(k) PROVE TellsTheBook({})
<1>1. RestingOrders' = RestingOrders
  BY BookStays
<1>2. ToldOut({}) = {} /\ ToldIn({}) = {}
  BY DEF ToldOut, ToldIn
<1> QED BY <1>1, <1>2 DEF TellsTheBook

\* An ADD tells of an order that comes to rest.
LEMMA AddTold ==
    ASSUME NEW new, new = taker.id, Rests(new), NEW p,
           NEW u, u = Update("ADD", new, taker.side, taker.price, taker.leaves, p)
    PROVE  TellsTheBook({u})
<1>1. /\ InBook' = (InBook \ {}) \cup {new} /\ {new} \cap (InBook \ {}) = {}
      /\ \A k \in InBook \ {} : Entry(k)' = Entry(k)
      /\ {} \in SUBSET InBook
  BY DEF Rests
<1>2. RestingOrders' = (RestingOrders \ {Entry(k) : k \in {}}) \cup {Entry(k)' : k \in {new}}
  BY <1>1, BookAfter
<1>3. /\ u.type = "ADD" /\ u.id = new /\ u.side = taker.side /\ u.price = taker.price
      /\ u.qty = taker.leaves
  BY DEF Update
<1>4. ToldOut({u}) = {}
  BY <1>3 DEF ToldOut
<1>5. ToldIn({u}) = {[id |-> u.id, side |-> u.side, price |-> u.price, qty |-> u.qty]}
  BY <1>3 DEF ToldIn
<1>6. Entry(new)' = [id |-> u.id, side |-> u.side, price |-> u.price, qty |-> u.qty]
  BY <1>3 DEF Rests
<1> QED BY <1>2, <1>4, <1>5, <1>6 DEF TellsTheBook

\* A CANCEL tells of an order that leaves.
LEMMA CancelTold ==
    ASSUME NEW o \in InBook, InBook' = InBook \ {o}, \A k \in InBook \ {o} : Entry(k)' = Entry(k),
           NEW T, NEW u \in T, u.type = "CANCEL", u.id = o, \A v \in T : v = u \/ v.type = "TRADE"
    PROVE  TellsTheBook(T)
<1>1. RestingOrders' = (RestingOrders \ {Entry(k) : k \in {o}}) \cup {Entry(k)' : k \in {}}
      /\ {r \in RestingOrders : r.id \notin {o}} = RestingOrders \ {Entry(k) : k \in {o}}
  <2>1. InBook' = (InBook \ {o}) \cup {} /\ {} \cap (InBook \ {o}) = {}
    OBVIOUS
  <2> QED BY <2>1, BookAfter
<1>2. {v \in T : v.type \in {"CANCEL", "MODIFY"}} = {u} /\ {v \in T : v.type \in {"ADD", "MODIFY"}} = {}
  OBVIOUS
<1>3. ToldOut(T) = {o} /\ ToldIn(T) = {}
  BY <1>2 DEF ToldOut, ToldIn
<1> QED BY <1>1, <1>3 DEF TellsTheBook

\* A MODIFY tells of an order that is left with less.
LEMMA ModifyTold ==
    ASSUME NEW o \in InBook, InBook' = InBook, \A k \in InBook \ {o} : Entry(k)' = Entry(k),
           NEW T, NEW u \in T, u.type = "MODIFY", \A v \in T : v = u \/ v.type = "TRADE",
           Entry(o)' = [id |-> u.id, side |-> u.side, price |-> u.price, qty |-> u.qty], u.id = o
    PROVE  TellsTheBook(T)
<1>1. RestingOrders' = (RestingOrders \ {Entry(k) : k \in {o}}) \cup {Entry(k)' : k \in {o}}
      /\ {r \in RestingOrders : r.id \notin {o}} = RestingOrders \ {Entry(k) : k \in {o}}
  <2>1. InBook' = (InBook \ {o}) \cup {o} /\ {o} \cap (InBook \ {o}) = {}
    OBVIOUS
  <2> QED BY <2>1, BookAfter
<1>2. {v \in T : v.type \in {"CANCEL", "MODIFY"}} = {u} /\ {v \in T : v.type \in {"ADD", "MODIFY"}} = {u}
  OBVIOUS
<1>3. ToldOut(T) = {o} /\ ToldIn(T) = {[id |-> u.id, side |-> u.side, price |-> u.price, qty |-> u.qty]}
  BY <1>2 DEF ToldOut, ToldIn
<1> QED BY <1>1, <1>3 DEF TellsTheBook

\* In a well linked book the updates of a step are all that happened to it.
LEMMA UpdatesTell ==
    ASSUME BookInv, [Next]_vars, ~UNCHANGED vars, ~mislinked, pc' # "crashed"
    PROVE  TellsTheBook({updates'[k] : k \in DOMAIN updates'})
<1> DEFINE told == {updates'[k] : k \in DOMAIN updates'}
           Same == InBook' = InBook /\ \A k \in InBook : Entry(k)' = Entry(k)
<1>1. IInv /\ StructInv /\ QuietInv
  BY DEF BookInv
<1>2. pc # "crashed"
  BY ZenonT(30) DEF Next, Request, Handler, Add, Cancel, Match, Matchable, Filled, JoinLevel, NewLevel, Resting,
         Walk, Searching, Splice, Crash, Exit, InvalidRequest, vars
<1>3. OrderedInv
  BY <1>2 DEF BookInv, ListInv
<1>4. ASSUME Same, updates' = <<>> PROVE TellsTheBook(told)
  <2>1. told = {}
    BY <1>4
  <2> QED BY <1>4, <2>1, NothingToTell
<1>5. ASSUME NEW u, updates' = <<u>> PROVE told = {u}
  BY <1>5
<1>6. ASSUME NEW new, new = taker.id, NEW p, Rests(new), Rested(p) PROVE TellsTheBook(told)
  <2>1. PICK u : u = Update("ADD", new, taker.side, taker.price, taker.leaves, p)
    OBVIOUS
  <2>2. told = {u}
    BY <1>5, <1>6, <2>1 DEF Rested
  <2> QED BY <1>6, <2>1, <2>2, AddTold
<1>7. ASSUME NEW c \in Client, NEW i \in ClientOrderId, NEW side, NEW p, NEW q, Add(c, i, side, p, q)
      PROVE  TellsTheBook(told)
  <2>1. UNCHANGED orders /\ updates' = <<>> /\ pc = "idle" /\ pc' = "match"
    BY <1>7 DEF Add, book
  <2>2. Same
    BY <2>1 DEF InBook, LiveOrders, Entry
  <2> QED BY <1>4, <2>1, <2>2
<1>8. ASSUME NEW c \in Client, NEW i \in ClientOrderId, Cancel(c, i) PROVE TellsTheBook(told)
  <2>1. PICK o : o = cid_oid_to_order[<<c, i>>]
    OBVIOUS
  <2>2. CASE o = Null
    <3>1. UNCHANGED <<orders, pc, taker>> /\ updates' = <<>>
      BY <1>8, <2>1, <2>2 DEF Cancel, book
    <3>2. Same
      BY <3>1 DEF InBook, LiveOrders, Entry
    <3> QED BY <1>4, <3>1, <3>2
  <2>3. CASE o # Null
    <3>1. PICK u : u = Update("CANCEL", o, orders[o].side, orders[o].price, 0, orders[o].priority)
      OBVIOUS
    <3>2. o \in InBook /\ InBook' = InBook \ {o} /\ \A k \in InBook \ {o} : Entry(k)' = Entry(k)
      BY <1>1, <1>8, <2>1, <2>3, CancelTakes
    <3>3. told = {u}
      BY <1>5, <1>8, <2>1, <2>3, <3>1 DEF Cancel
    <3>4. u.type = "CANCEL" /\ u.id = o
      BY <3>1 DEF Update
    <3> QED BY <3>2, <3>3, <3>4, CancelTold
  <2> QED BY <2>2, <2>3
<1>9. CASE Match
  <2>1. PICK o, fill : o = Touch /\ fill = FillQty(orders[o].qty, taker.leaves)
    OBVIOUS
  <2>2. Fills(o, fill)
    BY <1>3, <1>9, <2>1, MatchFills
  <2>3. PICK t, u : /\ t = Update("TRADE", Invalid, taker.side, orders[o].price, fill, Invalid)
                    /\ u = FillUpdate(o, orders[o].qty - fill)
    OBVIOUS
  <2>4. updates' = <<t, u>>
    BY <1>9, <2>1, <2>3 DEF Match
  <2>5. told = {t, u} /\ t.type = "TRADE"
    BY <2>3, <2>4 DEF Update
  <2>6. orders[o].qty \in Nat /\ fill \in Nat
    BY <1>1, <2>2 DEF IInv, TypeOK, OrderRecord, Fills, InBook, LiveOrders
  <2>7. CASE orders[o].qty = fill
    <3>1. u.type = "CANCEL" /\ u.id = o
      BY <2>3, <2>6, <2>7 DEF FillUpdate, Update
    <3>2. o \in InBook /\ InBook' = InBook \ {o} /\ \A k \in InBook \ {o} : Entry(k)' = Entry(k)
      BY <2>2, <2>7 DEF Fills
    <3> QED BY <2>5, <3>1, <3>2, CancelTold
  <2>8. CASE orders[o].qty # fill
    <3>1. /\ u.type = "MODIFY" /\ u.id = o /\ u.side = orders[o].side /\ u.price = orders[o].price
          /\ u.qty = orders[o].qty - fill
      BY <2>3, <2>6, <2>8 DEF FillUpdate, Update
    <3>2. /\ o \in InBook /\ InBook' = InBook /\ \A k \in InBook \ {o} : Entry(k)' = Entry(k)
          /\ Entry(o)' = [Entry(o) EXCEPT !.qty = @ - fill]
      BY <2>2, <2>8 DEF Fills
    <3>3. Entry(o)' = [id |-> u.id, side |-> u.side, price |-> u.price, qty |-> u.qty]
      BY <3>1, <3>2 DEF Entry
    <3> QED BY <2>5, <3>1, <3>2, <3>3, ModifyTold
  <2> QED BY <2>7, <2>8
<1>10. CASE Filled
  <2>1. UNCHANGED orders /\ updates' = <<>> /\ pc = "match" /\ pc' = "idle"
    BY <1>10 DEF Filled, book
  <2>2. Same
    BY <2>1 DEF InBook, LiveOrders, Entry
  <2> QED BY <1>4, <2>1, <2>2
<1>11. CASE JoinLevel
  <2>1. PICK new, p : new = taker.id /\ Rested(p)
    BY ZenonT(30), <1>11 DEF JoinLevel
  <2> QED BY <1>1, <1>6, <1>11, <2>1, JoinRests
<1>12. CASE NewLevel
  BY <1>1, <1>4, <1>6, <1>12, NewLevelRests
<1>13. CASE Walk
  <2>1. UNCHANGED <<orders, taker, pc, updates>> /\ pc = "walk"
    BY <1>13 DEF Walk, Searching, book, sent
  <2>2. Same /\ updates' = <<>>
    BY <1>1, <2>1 DEF InBook, LiveOrders, Entry, QuietInv
  <2> QED BY <1>4, <2>2
<1>14. CASE Splice
  <2>1. PICK new, p : new = taker.id /\ Rested(p)
    BY <1>14 DEF Splice
  <2> QED BY <1>1, <1>6, <1>14, <2>1, SpliceRests
<1>15. CASE Crash
  BY <1>15 DEF Crash, Exit
<1>16. CASE InvalidRequest
  <2>1. UNCHANGED orders /\ updates' = <<>> /\ pc = "idle" /\ pc' = "fatal"
    BY <1>16 DEF InvalidRequest, book
  <2>2. Same
    BY <2>1 DEF InBook, LiveOrders, Entry
  <2> QED BY <1>4, <2>1, <2>2
<1> QED BY <1>7, <1>8, <1>9, <1>10, <1>11, <1>12, <1>13, <1>14, <1>15, <1>16
        DEF Next, Request, Handler

\* The market updates of a step tell all that happened to the book in it, as
\* long as no level was put in a wrong place.
THEOREM UpdatesAreComplete == Spec => UpdatesTellTheBook
<1>1. BookInv /\ [Next]_vars =>
        [~mislinked /\ pc' # "crashed" =>
           LET told == {updates'[k] : k \in DOMAIN updates'}
               out == {u.id : u \in {v \in told : v.type \in {"CANCEL", "MODIFY"}}}
               in == {[id |-> u.id, side |-> u.side, price |-> u.price, qty |-> u.qty] :
                        u \in {v \in told : v.type \in {"ADD", "MODIFY"}}}
           IN  RestingOrders' = {r \in RestingOrders : r.id \notin out} \cup in]_vars
  BY UpdatesTell DEF TellsTheBook, ToldOut, ToldIn
<1> QED BY <1>1, BookInOrder, PTL DEF Spec, UpdatesTellTheBook

----------------------------------------------------------------------------

\* A client's name leads to its order until another order of that name comes
\* to rest or leaves.
KeepsName(o) ==
    LET name == <<orders'[o].client, orders'[o].coid>>
        rests == pc # "idle" /\ pc' = "idle"
    IN  cid_oid_to_order[name] = o \/ (rests /\ o = taker.id) =>
          \/ cid_oid_to_order'[name] = o
          \/ \E p \in Id \ {o} : /\ SameName(o, p)
                                 /\ \/ rests /\ p = taker.id
                                    \/ orders[p].live /\ ~orders'[p].live

\* An order leaves.
LEMMA RemovalKeepsNames ==
    ASSUME TypeOK, OwnerInv, NEW x \in LiveOrders, OneGone(x), UNCHANGED pc, NEW o \in Id, orders'[o].live
    PROVE  KeepsName(o)
<1> SUFFICES ASSUME cid_oid_to_order[<<orders'[o].client, orders'[o].coid>>] = o
             PROVE  \/ cid_oid_to_order'[<<orders'[o].client, orders'[o].coid>>] = o
                    \/ \E p \in Id \ {o} : SameName(o, p) /\ orders[p].live /\ ~orders'[p].live
  BY DEF KeepsName
<1>1. /\ o # x /\ x \in Id /\ orders[x].live /\ ~orders'[x].live /\ o \in LiveOrders
      /\ \A k \in Id : orders'[k].client = orders[k].client /\ orders'[k].coid = orders[k].coid
      /\ cid_oid_to_order' = Forget(orders[x].client, orders[x].coid)
  BY DEF OneGone, LiveOrders
<1>2. PICK name, gone : /\ name = <<orders[o].client, orders[o].coid>>
                        /\ gone = <<orders[x].client, orders[x].coid>>
  OBVIOUS
<1>3. name \in Client \X ClientOrderId /\ gone \in Client \X ClientOrderId
  BY <1>1, <1>2 DEF OwnerInv
<1>4. CASE name = gone
  <2>1. SameName(o, x)
    BY <1>1, <1>2, <1>4 DEF SameName
  <2> QED BY <1>1, <2>1
<1>5. CASE name # gone
  <2>1. cid_oid_to_order' = [cid_oid_to_order EXCEPT ![gone] = Null]
    BY <1>1, <1>2 DEF Forget
  <2>2. cid_oid_to_order'[name] = cid_oid_to_order[name]
    BY <1>3, <1>5, <2>1 DEF TypeOK
  <2> QED BY <1>1, <1>2, <2>2
<1> QED BY <1>4, <1>5

\* An order comes to rest.
LEMMA RestKeepsNames ==
    ASSUME TypeOK, OwnerInv, TakerRests, taker.id \in Id,
           taker.client \in Client, taker.coid \in ClientOrderId, NEW p, Rested(p), pc # "idle",
           \A k \in Id \ {taker.id} : /\ orders'[k].live = orders[k].live
                                      /\ orders'[k].client = orders[k].client
                                      /\ orders'[k].coid = orders[k].coid,
           NEW o \in Id, orders'[o].live
    PROVE  KeepsName(o)
<1>1. PICK new, name, own : /\ new = taker.id
                            /\ name = <<orders'[o].client, orders'[o].coid>>
                            /\ own = <<taker.client, taker.coid>>
  OBVIOUS
<1>2. /\ cid_oid_to_order' = [cid_oid_to_order EXCEPT ![own] = new]
      /\ pc' = "idle" /\ own \in Client \X ClientOrderId
      /\ orders'[new].client = taker.client /\ orders'[new].coid = taker.coid
  BY <1>1 DEF Rested, Remember, TakerRests
<1>3. CASE name = own
  <2>1. CASE o = new
    BY <1>1, <1>2, <1>3, <2>1 DEF KeepsName, TypeOK
  <2>2. CASE o # new
    <3>1. SameName(o, new)
      BY <1>1, <1>2, <1>3 DEF SameName
    <3> QED BY <1>1, <1>2, <2>2, <3>1 DEF KeepsName
  <2> QED BY <2>1, <2>2
<1>4. CASE name # own
  <2>1. o # new
    BY <1>1, <1>2, <1>4
  <2>2. name \in Client \X ClientOrderId
    BY <1>1, <2>1 DEF OwnerInv, LiveOrders
  <2>3. cid_oid_to_order'[name] = cid_oid_to_order[name]
    BY <1>2, <1>4, <2>2 DEF TypeOK
  <2> QED BY <1>1, <2>1, <2>3 DEF KeepsName
<1> QED BY <1>3, <1>4

\* No step takes its name from an order that stays live.
LEMMA NamesKept ==
    ASSUME BookInv, [Next]_vars, NEW o \in Id, orders'[o].live PROVE KeepsName(o)
<1>1. IInv /\ StructInv /\ OwnerInv /\ TypeOK
  BY DEF BookInv, IInv
<1>2. ASSUME UNCHANGED cid_oid_to_order, UNCHANGED pc \/ pc' # "idle" \/ o # taker.id PROVE KeepsName(o)
  BY <1>2 DEF KeepsName
<1>3. ASSUME NEW c \in Client, NEW i \in ClientOrderId, NEW side, NEW p, NEW q, Add(c, i, side, p, q)
      PROVE  KeepsName(o)
  BY <1>2, <1>3 DEF Add, book
<1>4. ASSUME NEW c \in Client, NEW i \in ClientOrderId, Cancel(c, i) PROVE KeepsName(o)
  <2>1. PICK x : x = cid_oid_to_order[<<c, i>>]
    OBVIOUS
  <2>2. CASE x = Null
    BY <1>2, <1>4, <2>1, <2>2 DEF Cancel, book
  <2>3. CASE x # Null
    <3>1. x \in LiveOrders /\ OneGone(x) /\ UNCHANGED pc
      BY <1>1, <1>4, <2>1, <2>3, CancelLinks DEF Cancel
    <3> QED BY <1>1, <3>1, RemovalKeepsNames
  <2> QED BY <2>2, <2>3
<1>5. CASE Match
  <2>1. PICK x, left : x = Touch /\ left = LeftOfTouch
    OBVIOUS
  <2>2. CASE left = 0
    <3>1. x \in LiveOrders /\ OneGone(x) /\ UNCHANGED pc
      BY <1>1, <1>5, <2>1, <2>2, MatchLinks
    <3> QED BY <1>1, <3>1, RemovalKeepsNames
  <2>3. CASE left # 0
    BY <1>1, <1>2, <1>5, <2>1, <2>3, MatchLinks
  <2> QED BY <2>2, <2>3
<1>6. CASE Filled
  <2>1. UNCHANGED <<cid_oid_to_order, orders>> /\ ~orders[taker.id].live
    BY <1>1, <1>6 DEF Filled, book, IInv, TakerInv
  <2> QED BY <1>2, <2>1
<1>7. CASE JoinLevel \/ NewLevel
  <2>1. PICK x : x = PriceToIndex(taker.price)
    OBVIOUS
  <2>2. /\ TakerRests
        /\ \A k \in Id \ {taker.id} : /\ orders'[k].live = orders[k].live
                                      /\ orders'[k].client = orders[k].client
                                      /\ orders'[k].coid = orders[k].coid
    BY <1>1, <1>7, <2>1, JoinLinks, NewLevelLinks DEF JoinsQueue, OpensLevel, SameOrder
  <2>3. /\ taker.id \in Id /\ taker.client \in Client /\ taker.coid \in ClientOrderId /\ pc = "match"
    BY ZenonT(30), <1>1, <1>7 DEF IInv, TakerInv, JoinLevel, NewLevel, Resting
  <2>4. (\E p : Rested(p)) \/ (pc' = "walk" /\ UNCHANGED cid_oid_to_order)
    BY ZenonT(30), <1>7 DEF JoinLevel, NewLevel
  <2>5. CASE \E p : Rested(p)
    BY <1>1, <2>2, <2>3, <2>5, RestKeepsNames
  <2>6. CASE pc' = "walk" /\ UNCHANGED cid_oid_to_order
    BY <1>2, <2>6
  <2> QED BY <2>4, <2>5, <2>6
<1>8. CASE Walk \/ Crash \/ InvalidRequest \/ UNCHANGED vars
  BY <1>2, <1>8 DEF Walk, Crash, Exit, InvalidRequest, vars, book
<1>9. CASE Splice
  <2>1. /\ taker.id \in Id /\ taker.client \in Client /\ taker.coid \in ClientOrderId /\ pc = "walk"
        /\ UNCHANGED orders /\ TakerRests
    BY <1>1, <1>9 DEF IInv, TakerInv, StructInv, FreshInv, Splice, TakerRests
  <2>2. PICK p : Rested(p)
    BY <1>9 DEF Splice
  <2> QED BY <1>1, <2>1, <2>2, RestKeepsNames
<1> QED BY <1>3, <1>4, <1>5, <1>6, <1>7, <1>8, <1>9 DEF Next, Request, Handler

\* A client can cancel an order from the moment it rests, unless it gave its
\* name to another.
THEOREM NamesStayKnown == Spec => ClientIndexKept
<1>1. BookInv /\ [Next]_vars =>
        [\A o \in Id : orders'[o].live =>
         LET name == <<orders'[o].client, orders'[o].coid>>
             rests == pc # "idle" /\ pc' = "idle"
         IN  cid_oid_to_order[name] = o \/ (rests /\ o = taker.id) =>
               \/ cid_oid_to_order'[name] = o
               \/ \E p \in Id \ {o} : /\ SameName(o, p)
                                       /\ \/ rests /\ p = taker.id
                                          \/ orders[p].live /\ ~orders'[p].live]_vars
  BY NamesKept DEF KeepsName
<1> QED BY <1>1, BookInOrder, PTL DEF Spec, ClientIndexKept

=============================================================================
