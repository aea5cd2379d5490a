------------------------------ MODULE OrderBook ------------------------------
(***************************************************************************)
(* engine::OrderBook as the programs of this repository use it: limit      *)
(* orders without an account (MarketDataMsg carries none, so self-trade    *)
(* prevention never acts) and ids that are not live when they are added.   *)
(*                                                                         *)
(* A book is the sequence of its resting orders, oldest first: the queue   *)
(* of a price level is the subsequence of the orders at that price.  The   *)
(* slot pool, the level arrays and the id index are behind this view.  The *)
(* engine's thread is at "pop", or at "match" with an incoming order; each *)
(* round of the loop of try_match() is a step of its own, as each calls    *)
(* match_cb_.                                                              *)
(***************************************************************************)
EXTENDS Integers, Sequences, SequencesExt, FiniteSets, FiniteSetsExt

CONSTANTS
  kMaxOrders,   \* orders that can rest in a book
  kMaxLevels    \* price levels a side can have

ASSUME OrderBookAssumption == {kMaxOrders, kMaxLevels} \subseteq Nat \ {0}

BookSides == {"Buy", "Sell"}

Other(side) == IF side = "Buy" THEN "Sell" ELSE "Buy"

\* For an order of this side, price p is at least as aggressive as price q.
AsGood(side, p, q) == IF side = "Buy" THEN p >= q ELSE p <= q

\* Positions of the resting orders that an incoming order may execute against.
Opposite(book, o) ==
  {i \in DOMAIN book : /\ o.qty > 0
                       /\ book[i].side = Other(o.side)
                       /\ AsGood(o.side, o.price, book[i].price)}

\* Which of two resting orders executes first: best price, then oldest.
Before(book, side, i, j) ==
  \/ book[i].price = book[j].price /\ i < j
  \/ book[i].price # book[j].price /\ AsGood(side, book[i].price, book[j].price)

\* try_match(): the order at the head of the best level, if the incoming one
\* reaches it.
Best(book, o) ==
  LET opposite == Opposite(book, o)
  IN {i \in opposite : \A j \in opposite \ {i} : Before(book, Other(o.side), i, j)}

FillQty(book, o, i) == IF o.qty < book[i].qty THEN o.qty ELSE book[i].qty

\* One round of the loop of try_match(): the book after it, and the report,
\* which is the aggressor's, at the passive order's price, with what the
\* AGGRESSOR has left in leaves_qty.
Hit(book, o, i) ==
  LET qty == FillQty(book, o, i)
  IN IF qty = book[i].qty THEN RemoveAt(book, i) ELSE [book EXCEPT ![i].qty = @ - qty]

ExecutionReport(book, o, i) ==
  [order_id |-> o.id, contra_order_id |-> book[i].id, exec_price |-> book[i].price,
   exec_qty |-> FillQty(book, o, i), leaves_qty |-> o.qty - FillQty(book, o, i), side |-> o.side]

PricesOf(book, side) == {book[i].price : i \in {j \in DOMAIN book : book[j].side = side}}

\* There is a level and a slot for the remainder of an order.
Fits(book, o) ==
  /\ Len(book) < kMaxOrders
  /\ Cardinality(PricesOf(book, o.side) \cup {o.price}) <= kMaxLevels

\* add_order() after try_match(): rest what is left, or refuse it and leave
\* the book as the executions left it.
Rested(book, o) == IF o.qty > 0 /\ Fits(book, o) THEN Append(book, o) ELSE book

PositionsOf(book, id) == {i \in DOMAIN book : book[i].id = id}

CancelOrder(book, id) ==
  IF PositionsOf(book, id) = {} THEN book
  ELSE RemoveAt(book, CHOOSE i \in PositionsOf(book, id) : TRUE)

\* modify_order(): less quantity keeps the place in the queue, more loses it.
ModifyOrder(book, id, qty) ==
  IF PositionsOf(book, id) = {} THEN book
  ELSE LET i == CHOOSE j \in PositionsOf(book, id) : TRUE
       IN IF qty = 0 THEN RemoveAt(book, i)
          ELSE IF qty > book[i].qty
               THEN Append(RemoveAt(book, i), [book[i] EXCEPT !.qty = qty])
               ELSE [book EXCEPT ![i].qty = qty]

\* No order, or no order any more: nothing to match and nothing to rest.
NoOrder == [id |-> 0, side |-> "Buy", price |-> 0, qty |-> 0]

Polling == [at |-> "pop", order |-> NoOrder]

\* MatchingEngine::process_message(), up to the loop of try_match(): what the
\* thread has in hand, and the book.  A cancel or a modify is done with at once.
InHand(m) ==
  IF m.msg_type # "NewOrder" THEN Polling
  ELSE [at |-> "match",
        order |-> [id |-> m.order_id, side |-> m.side, price |-> m.price, qty |-> m.qty]]

Amended(book, m) ==
  CASE m.msg_type = "NewOrder"    -> book
    [] m.msg_type = "CancelOrder" -> CancelOrder(book, m.order_id)
    [] m.msg_type = "ModifyOrder" -> ModifyOrder(book, m.order_id, m.qty)

\* bid_depth(), ask_depth(): total quantity and number of orders per price.
Depth(book, side) ==
  [p \in PricesOf(book, side) |->
     LET at == {i \in DOMAIN book : book[i].side = side /\ book[i].price = p}
     IN [qty |-> MapThenSumSet(LAMBDA i : book[i].qty, at), orders |-> Cardinality(at)]]
=============================================================================
