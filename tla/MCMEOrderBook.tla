--------------------------- MODULE MCMEOrderBook ---------------------------
(***************************************************************************)
(* TLC instances of MEOrderBook.                                           *)
(***************************************************************************)
EXTENDS MEOrderBook, TLC

\* Clients are compared for equality only.
Clients == Permutations(Client)

\* No step reads the messages of the step before.  In a well linked book no
\* pointer leads to a returned block either (that is what LevelsSorted,
\* QueuesInTimeOrder and ClientIndexSound say), so what is left in the block
\* does not tell two states apart, until a level is misplaced: from there on
\* everything is kept, and of well linked states that differ in such blocks
\* only, one is continued.
Relevant ==
    IF mislinked
    THEN <<book, next_market_order_id, pc, taker, walk>>
    ELSE <<[o \in Id |-> IF orders[o].live THEN orders[o] ELSE NoOrder],
           [l \in Id |-> IF levels[l].live THEN levels[l] ELSE NoLevel],
           cid_oid_to_order, price_orders_at_price, bids_by_price, asks_by_price,
           next_market_order_id, pc, taker, walk>>

\* Bounds beyond those of the constants: past a misplaced level no fifth order
\* comes, and only some of the orders may ask for more than one.
MaxWhenMislinked == 4
LargeOrders == {1, 3}
Bounded == pc = "idle" /\ pc' = "match" =>
             /\ mislinked => taker'.id <= MaxWhenMislinked
             /\ taker'.leaves > 1 => taker'.id \in LargeOrders
=============================================================================
