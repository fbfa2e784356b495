--------------------------- MODULE PriceTimeBook ---------------------------
(***************************************************************************)
(* What the order book of one ticker promises to its clients: an order     *)
(* trades with the best priced resting order of the other side, the        *)
(* earliest of those, for as long as the prices cross; what is left rests; *)
(* a resting order can be withdrawn between two orders.  No lists, no      *)
(* pools: the book is a set of orders.                                     *)
(***************************************************************************)
EXTENDS Integers

CONSTANTS Price,        \* prices a client may ask for
          Quantity      \* quantities a client may ask for

\* What the theorems assume of them.
Numbers == Price \subseteq Int /\ Quantity \subseteq Nat \ {0}

VARIABLES resting,      \* orders in the book
          incoming,     \* at most one order, the one being processed
          nextId        \* identifies orders in the order of their arrival

ptVars == <<resting, incoming, nextId>>

Order == [id : Nat, side : {"BUY", "SELL"}, price : Int, qty : Nat \ {0}]

Crosses(o, r) == \/ o.side = "BUY"  /\ r.side = "SELL" /\ o.price >= r.price
                 \/ o.side = "SELL" /\ r.side = "BUY"  /\ o.price <= r.price

\* r trades before s: a better price, or the same price and earlier.
Before(r, s) == \/ r.side = "BUY"  /\ r.price > s.price
                \/ r.side = "SELL" /\ r.price < s.price
                \/ r.price = s.price /\ r.id < s.id

\* r is the first of its side.
First(r) == \A s \in resting : s.side = r.side /\ s # r => Before(r, s)

\* What a fill of q leaves of o.
Minus(o, q) == IF o.qty = q THEN {} ELSE {[o EXCEPT !.qty = @ - q]}

Init == resting = {} /\ incoming = {} /\ nextId = 1

\* A client asks.
Submit == \E side \in {"BUY", "SELL"}, p \in Price, q \in Quantity :
            /\ incoming = {}
            /\ incoming' = {[id |-> nextId, side |-> side, price |-> p, qty |-> q]}
            /\ nextId' = nextId + 1
            /\ UNCHANGED resting

\* The incoming order meets the first order of the other side.
Trade == \E o \in incoming, r \in resting :
            LET q == IF o.qty < r.qty THEN o.qty ELSE r.qty IN
            /\ Crosses(o, r) /\ First(r)
            /\ resting' = (resting \ {r}) \cup Minus(r, q)
            /\ incoming' = Minus(o, q)
            /\ UNCHANGED nextId

\* What is left of the incoming order crosses nothing.
Rest == \E o \in incoming :
            /\ \A r \in resting : ~Crosses(o, r)
            /\ resting' = resting \cup {o}
            /\ incoming' = {}
            /\ UNCHANGED nextId

\* A client cancels.
Withdraw == \E r \in resting :
            /\ incoming = {}
            /\ resting' = resting \ {r}
            /\ UNCHANGED <<incoming, nextId>>

Next == Submit \/ Trade \/ Rest \/ Withdraw

Spec == Init /\ [][Next]_ptVars

----------------------------------------------------------------------------

\* Orders in the book and the one being processed are well formed, with a
\* positive quantity, and one at a time is processed.
TypeOK == /\ resting \subseteq Order
          /\ incoming \subseteq Order
          /\ \A o \in incoming : incoming = {o}
          /\ nextId \in Nat

\* The book is never crossed: every bid is below every ask.
NotCrossed == \A b, s \in resting :
                b.side = "BUY" /\ s.side = "SELL" => b.price < s.price

\* No order trades at a price worse than its limit, and none is passed over:
\* an order that leaves the book while another is processed is the best
\* priced and then the earliest of its side, and the other accepts its price.
\* (A partial fill keeps the order's id and price: it is an order that
\* leaves and one that comes.)
TradesWithFirst ==
    \A r \in resting : r \notin resting' /\ incoming # {} =>
        First(r) /\ \E o \in incoming : Crosses(o, r)

=============================================================================
