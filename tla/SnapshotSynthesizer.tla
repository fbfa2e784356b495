------------------------ MODULE SnapshotSynthesizer ------------------------
(***************************************************************************)
(* Exchange::SnapshotSynthesizer                                           *)
(* (src/exchange/market_data/snapshot_synthesizer.{h,cpp}): a thread that  *)
(* takes the numbered updates of all books from its queue, keeps the live  *)
(* orders of every ticker, and publishes them from time to time "to        *)
(* retrieve any data lost if packets were dropped".                        *)
(*                                                                         *)
(* The queue is a log that only grows and the number of updates taken from *)
(* it (LFQueue is a FIFO channel).  The log is written by an environment:  *)
(* the books of the tickers, as MEOrderBook sends updates, numbered across *)
(* the tickers by the publisher (MarketDataPublisher).  A well linked book *)
(* tells no more of an order that it told as gone (UpdatesTellTheBook of   *)
(* MEOrderBook); a book with a misplaced level may, and does here.         *)
(*                                                                         *)
(* A live order keeps side, price and quantity; its id is its place.  Both *)
(* dimensions of ticker_orders_ and the size of the pool are               *)
(* ME_MAX_ORDER_IDS in the code.  The pool is shared by the tickers; it    *)
(* exits when its last free block is handed out (MemPool).  A failing      *)
(* ASSERT and an exception that run() does not catch end the process.      *)
(* The class is modelled with its thread running; nothing in src/ calls    *)
(* its start().                                                            *)
(***************************************************************************)
EXTENDS Integers, Sequences, FiniteSets

CONSTANTS Ticker,           \* tickers that are traded
          Side, Price, Quantity,
          MaxOrderIds,      \* ME_MAX_ORDER_IDS
          MaxUpdates        \* bound on the updates of the books

ASSUME TickerAssumption == Ticker \subseteq 0 .. MaxOrderIds - 1
ASSUME OrderAssumption == "none" \notin Side /\ Quantity \subseteq Nat
ASSUME LimitAssumption == MaxOrderIds \in Nat \ {0} /\ MaxUpdates \in Nat

VARIABLES log,              \* everything ever pushed into snapshot_md_updates_
          taken,            \* how much of it the thread has popped
          ticker_orders,    \* ticker_orders_
          last_inc_seq_num, \* last_inc_seq_num_
          due,              \* more than 60 seconds since last_snapshot_time_
          run,              \* run_
          pc,               \* where the thread is
          published         \* the datagrams of the last snapshot

envVars == <<log, due, run>>
classVars == <<ticker_orders, last_inc_seq_num>>
vars == <<envVars, taken, classVars, pc, published>>

Row == 0 .. MaxOrderIds - 1         \* of ticker_orders_, both ways
NoOrder == [side |-> "none", price |-> 0, qty |-> 0]
Order == [side : Side, price : Price, qty : Nat]

Update(type, ticker, id, side, price, qty) ==
    [type |-> type, ticker |-> ticker, id |-> id, side |-> side, price |-> price, qty |-> qty]
Numbered(seq, update) == [seq |-> seq, update |-> update]

Init == /\ log = <<>> /\ taken = 0
        /\ ticker_orders = [t \in Row |-> [o \in Row |-> NoOrder]]
        /\ last_inc_seq_num = 0
        /\ due = TRUE       \* last_snapshot_time_ is 0
        /\ run = TRUE /\ pc = "drain" /\ published = <<>>

(***************************************************************************)
(* What the books do.  An order is added with an id its book has not used  *)
(* before; ids of orders that never rest are skipped.                      *)
(***************************************************************************)

\* The order o of a ticker after the first n updates, by their history alone:
\* what the last update that names it says, unless that took it out.
Names(n, t, o) == {i \in 1 .. n : /\ log[i].update.ticker = t /\ log[i].update.id = o
                                  /\ log[i].update.type \in {"ADD", "MODIFY", "CANCEL"}}
BookAt(n, t, o) ==
    LET named == Names(n, t, o)
        u == log[CHOOSE i \in named : \A j \in named : j <= i].update
    IN  IF named = {} \/ u.type = "CANCEL" THEN NoOrder
        ELSE [side |-> u.side, price |-> u.price, qty |-> u.qty]

Book(t, o) == BookAt(Len(log), t, o)

Tell(update) ==
    /\ pc # "exited" /\ Len(log) < MaxUpdates
    /\ log' = Append(log, Numbered(Len(log) + 1, update))
    /\ UNCHANGED <<due, run, taken, classVars, pc, published>>

Id == 1 .. MaxOrderIds              \* the books count from 1

TellAdd(t, o) == /\ \A k \in o .. MaxOrderIds : Names(Len(log), t, k) = {}
                 /\ \E s \in Side, p \in Price, q \in Quantity :
                       Tell(Update("ADD", t, o, s, p, q))

TellModify(t, o) == LET order == Book(t, o)
                    IN  \E q \in 1 .. order.qty - 1 :
                           Tell(Update("MODIFY", t, o, order.side, order.price, q))

TellCancel(t, o) == LET order == Book(t, o)
                    IN  /\ order # NoOrder
                        /\ Tell(Update("CANCEL", t, o, order.side, order.price, 0))

\* A misplaced level can lead the matching to an order that left, which is filled
\* again (me_order_book.h:136: SELL A at 10 and B at 9, cancel B, SELL C at 9, and
\* a BUY meets B).  Its block is as it was then: the book tells what the fill left
\* of it, or that it is gone, once more, before the process ends on its block.
TellGone(t, o) ==
    \E i \in Names(Len(log), t, o) :
       LET was == BookAt(i - 1, t, o)
       IN  /\ Book(t, o) = NoOrder /\ was # NoOrder /\ log[i].update.type = "CANCEL"
           /\ \/ \E q \in 1 .. was.qty - 1 : Tell(Update("MODIFY", t, o, was.side, was.price, q))
              \/ Tell(Update("CANCEL", t, o, was.side, was.price, 0))

\* A trade names no order (OrderId_INVALID), and nothing else of it is read.
TellTrade(t) == Tell(Update("TRADE", t, -1, "none", 0, 0))

Books == \E t \in Ticker : \/ TellTrade(t)
                           \/ \E o \in Id : \/ TellAdd(t, o) \/ TellModify(t, o)
                                           \/ TellCancel(t, o) \/ TellGone(t, o)

\* A minute passes.
Tick == /\ ~due /\ due' = TRUE
        /\ UNCHANGED <<log, run, taken, classVars, pc, published>>

\* stop(), by another thread.
Stop == /\ run /\ run' = FALSE
        /\ UNCHANGED <<log, due, taken, classVars, pc, published>>

(***************************************************************************)
(* addToSnapshot().                                                        *)
(***************************************************************************)

InUse == {x \in Row \X Row : ticker_orders[x[1]][x[2]] # NoOrder}

\* at() throws for an id beyond the table, allocate() exits with the last
\* block, and the other conditions are ASSERTs.
Accepted(u, seq) ==
    /\ u.type \in {"ADD", "MODIFY", "CANCEL"} => u.id \in Row
    /\ u.type = "ADD" => /\ ticker_orders[u.ticker][u.id] = NoOrder
                         /\ Cardinality(InUse) + 1 < MaxOrderIds
    /\ u.type \in {"MODIFY", "CANCEL"} => /\ ticker_orders[u.ticker][u.id] # NoOrder
                                          /\ ticker_orders[u.ticker][u.id].side = u.side
    /\ seq = last_inc_seq_num + 1

\* Changed with a MODIFY that takes what is told as what was executed.
ChangedByRest(u) ==
    CASE u.type = "ADD"    -> [side |-> u.side, price |-> u.price, qty |-> u.qty]
      [] u.type = "MODIFY" -> [ticker_orders[u.ticker][u.id] EXCEPT !.qty = @ - u.qty]
      [] u.type = "CANCEL" -> NoOrder

\* Changed that returns a canceled order to the pool and leaves its pointer.
ChangedButCancel(u) ==
    CASE u.type = "ADD"    -> [side |-> u.side, price |-> u.price, qty |-> u.qty]
      [] u.type = "MODIFY" -> [ticker_orders[u.ticker][u.id] EXCEPT !.qty = u.qty]
      [] u.type = "CANCEL" -> ticker_orders[u.ticker][u.id]

\* What is at the place of the order an update names after it.
Changed(u) ==
    CASE u.type = "ADD"    -> [side |-> u.side, price |-> u.price, qty |-> u.qty]
      [] u.type = "MODIFY" -> [ticker_orders[u.ticker][u.id]
                                 EXCEPT !.qty = u.qty, !.price = u.price]
      [] u.type = "CANCEL" -> NoOrder

AddToSnapshot(u, seq) ==
    /\ ticker_orders' = IF u.type \in {"ADD", "MODIFY", "CANCEL"}
                        THEN [ticker_orders EXCEPT ![u.ticker][u.id] = Changed(u)]
                        ELSE ticker_orders
    /\ last_inc_seq_num' = seq

(***************************************************************************)
(* run().                                                                  *)
(***************************************************************************)

\* One round of the inner loop: addToSnapshot(), updateReadIndex().
Drain == /\ pc = "drain" /\ taken < Len(log)
         /\ LET next == log[taken + 1]
            IN  IF Accepted(next.update, next.seq)
                THEN AddToSnapshot(next.update, next.seq) /\ taken' = taken + 1 /\ UNCHANGED pc
                ELSE pc' = "exited" /\ UNCHANGED <<taken, classVars>>
         /\ UNCHANGED <<envVars, published>>

\* The queue is found empty.
Drained == /\ pc = "drain" /\ taken = Len(log)
           /\ pc' = "timer"
           /\ UNCHANGED <<envVars, taken, classVars, published>>

(***************************************************************************)
(* publishSnapshot().  Its messages are numbered from 0.  A datagram ends  *)
(* with each order and with the last message.                              *)
(***************************************************************************)

\* What is sent of a ticker: CLEAR, and its orders by rising id, as they were
\* added (MODIFY leaves the type of the stored update as it was).
OfTicker(t) ==
    LET order(o) == ticker_orders[t][o]
        sent(o) == IF order(o) = NoOrder THEN <<>>
                   ELSE <<Update("ADD", t, o, order(o).side, order(o).price, order(o).qty)>>
        upTo[o \in 0 .. MaxOrderIds] == IF o = 0 THEN <<Update("CLEAR", t, -1, "none", 0, 0)>>
                                        ELSE upTo[o - 1] \o sent(o - 1)
    IN  upTo[MaxOrderIds]

Mark(type) == <<Update(type, -1, last_inc_seq_num, "none", 0, 0)>>

Snapshot ==
    LET upTo[t \in 0 .. MaxOrderIds] == IF t = 0 THEN Mark("SNAPSHOT_START")
                                        ELSE upTo[t - 1] \o OfTicker(t - 1)
        messages == upTo[MaxOrderIds] \o Mark("SNAPSHOT_END")
    IN  [k \in DOMAIN messages |-> Numbered(k - 1, messages[k])]

\* Timer that never publishes again.
TimerOnce == /\ pc = "timer"
             /\ IF due /\ published = <<>> THEN published' = Snapshot /\ due' = FALSE
                                           ELSE UNCHANGED <<published, due>>
             /\ pc' = IF run THEN "drain" ELSE "stopped"
             /\ UNCHANGED <<log, run, taken, classVars>>

\* The end of the outer loop: the clock, the snapshot, and while (run_).
Timer == /\ pc = "timer"
         /\ IF due THEN published' = Snapshot /\ due' = FALSE
                   ELSE UNCHANGED <<published, due>>
         /\ pc' = IF run THEN "drain" ELSE "stopped"
         /\ UNCHANGED <<log, run, taken, classVars>>

Synthesizer == Drain \/ Drained \/ Timer

Next == Books \/ Tick \/ Stop \/ Synthesizer

\* The thread never blocks, and time passes.
Spec == Init /\ [][Next]_vars /\ WF_vars(Synthesizer) /\ WF_vars(Tick)

----------------------------------------------------------------------------
(***************************************************************************)
(* Properties.                                                             *)
(***************************************************************************)

\* The variables have the types of the members.
TypeOK == /\ taken \in 0 .. Len(log)
          /\ ticker_orders \in [Row -> [Row -> Order \cup {NoOrder}]]
          /\ last_inc_seq_num \in Nat
          /\ due \in BOOLEAN /\ run \in BOOLEAN
          /\ pc \in {"drain", "timer", "stopped", "exited"}

\* The live orders of all tickers after the first k updates of the stream.
OrdersAt(k) == {x \in {<<t, o, BookAt(k, t, o)>> : t \in Row, o \in Row} : x[3] # NoOrder}

\* What a subscriber has who applies the messages u in order: of every ticker
\* what comes after its CLEAR.
OrderTold(x) == <<x.ticker, x.id, [side |-> x.side, price |-> x.price, qty |-> x.qty]>>
Tells(u, orders) ==
    LET adds == {i \in DOMAIN u : u[i].type = "ADD"}
        clears(t) == {i \in DOMAIN u : u[i].type = "CLEAR" /\ u[i].ticker = t}
    IN  /\ \A t \in Row : clears(t) # {}
        /\ \A i \in adds : \A j \in clears(u[i].ticker) : j < i
        /\ {OrderTold(u[i]) : i \in adds} = orders

\* A snapshot is "an updated copy of the current state of the order book": its
\* first and its last message name a number k, and a subscriber who applies
\* its messages in order has in every ticker exactly the orders, with what is
\* left of them, that the first k updates of the stream left in the books.
SnapshotIsTheBook ==
    published # <<>> =>
    LET u == [i \in DOMAIN published |-> published[i].update]
        last == Len(u)
    IN  /\ u[1].type = "SNAPSHOT_START" /\ u[last].type = "SNAPSHOT_END" /\ u[1].id = u[last].id
        /\ \A i \in DOMAIN u : published[i].seq = i - 1
        /\ Tells(u, OrdersAt(u[last].id))

\* addToSnapshot() ends the process for one of three causes only: an order id
\* passes the table, the live orders of all tickers together reach the size of
\* the pool, or a book tells of an order that it told as gone before.  As long as
\* the books are well linked, none of its ASSERTs about an order fails.
ExitNeedsCause ==
    pc = "exited" =>
    LET u == log[taken + 1].update
    IN  \/ /\ u.type = "ADD"
           /\ \/ u.id = MaxOrderIds
              \/ Cardinality({x \in Row \X Row : BookAt(taken, x[1], x[2]) # NoOrder}) + 1 >= MaxOrderIds
        \/ u.type \in {"MODIFY", "CANCEL"} /\ BookAt(taken, u.ticker, u.id) = NoOrder

\* A thread that again and again finds its queue empty gets every update into a
\* published snapshot.  (Nothing bounds the inner loop: while the books keep the
\* queue from being empty, no snapshot is promised.  A thread that is stopped,
\* or a process that ended, does not look at the timer again.)
EveryUpdateInASnapshot ==
    []<>(pc = "timer") =>
       \A k \in 1 .. MaxUpdates : Len(log) >= k ~> published # <<>> /\ published[1].update.id >= k

=============================================================================
