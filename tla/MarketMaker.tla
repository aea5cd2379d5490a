----------------------------- MODULE MarketMaker -----------------------------
(***************************************************************************)
(* hft::MarketMaker as functions of its state: what to quote, which orders *)
(* are ours, and average-cost accounting of the fills attributed to them.  *)
(* Prices and money are integers, as engine::Price is; skew is a whole     *)
(* number of price units per unit of inventory.                            *)
(***************************************************************************)
EXTENDS Integers

CONSTANTS
  PRICE_INVALID,   \* no price: the side is not quoted
  HalfSpread, InventorySkew, PositionLimit, QuoteQty   \* MarketMakerConfig

ASSUME MarketMakerAssumption ==
  /\ PRICE_INVALID \notin Int
  /\ {HalfSpread, PositionLimit, QuoteQty} \subseteq Nat \ {0}
  /\ InventorySkew \in Nat

NewMarketMaker == [position |-> 0, avg_cost |-> 0, realized |-> 0, open |-> <<>>]

\* Faulty variant: a side is left out only once the limit has been reached.
ComputeQuoteLate(mm, mid) ==
  LET reservation == mid - mm.position * InventorySkew
  IN [Buy |-> IF mm.position < PositionLimit THEN reservation - HalfSpread ELSE PRICE_INVALID,
      Sell |-> IF mm.position > -PositionLimit THEN reservation + HalfSpread ELSE PRICE_INVALID]

\* compute_quote(): a side is left out when filling it whole would take the
\* position past the limit.
ComputeQuote(mm, mid) ==
  LET reservation == mid - mm.position * InventorySkew
  IN [Buy |-> IF mm.position + QuoteQty <= PositionLimit
              THEN reservation - HalfSpread ELSE PRICE_INVALID,
      Sell |-> IF mm.position - QuoteQty >= -PositionLimit
               THEN reservation + HalfSpread ELSE PRICE_INVALID]

RegisterOrder(mm, id, side) ==
  [mm EXCEPT !.open = [i \in DOMAIN @ \cup {id} |-> IF i = id THEN side ELSE @[i]]]

Magnitude(n) == IF n < 0 THEN -n ELSE n
Least(a, b) == IF a < b THEN a ELSE b

\* Integer division of C++: towards zero.
Quotient(a, b) ==
  IF (a < 0) = (b < 0) THEN Magnitude(a) \div Magnitude(b) ELSE -(Magnitude(a) \div Magnitude(b))

\* A fill that opens a position or adds to it: blend the average cost.
Extend(mm, price, signed) ==
  LET position == mm.position + signed
  IN [mm EXCEPT !.position = position,
                !.avg_cost = Quotient(@ * mm.position + price * signed, position)]

\* Faulty variant: a position that passes zero keeps its average cost.
ReduceKeepsCost(mm, price, signed) ==
  LET closing == Least(Magnitude(signed), Magnitude(mm.position))
      direction == IF mm.position > 0 THEN 1 ELSE -1
      position == mm.position + signed
  IN [mm EXCEPT !.position = position,
                !.realized = @ + direction * closing * (price - mm.avg_cost),
                !.avg_cost = IF position = 0 THEN 0 ELSE @]

\* A fill against the position: realise what it closes; what is left over
\* after passing zero is a new position at this price.
Reduce(mm, price, signed) ==
  LET closing == Least(Magnitude(signed), Magnitude(mm.position))
      direction == IF mm.position > 0 THEN 1 ELSE -1
      position == mm.position + signed
  IN [mm EXCEPT !.position = position,
                !.realized = @ + direction * closing * (price - mm.avg_cost),
                !.avg_cost = IF position = 0 THEN 0
                             ELSE IF (position > 0) # (direction > 0) THEN price ELSE @]

ApplyFill(mm, side, price, qty) ==
  LET signed == IF side = "Buy" THEN qty ELSE -qty
  IN IF mm.position = 0 \/ (mm.position > 0) = (signed > 0)
     THEN Extend(mm, price, signed) ELSE Reduce(mm, price, signed)

\* Faulty variant: the side is taken from the report.
OnFillReportSide(mm, rpt) ==
  LET id == IF rpt.order_id \in DOMAIN mm.open THEN rpt.order_id ELSE rpt.contra_order_id
      filled == ApplyFill(mm, rpt.side, rpt.exec_price, rpt.exec_qty)
  IN IF id \notin DOMAIN mm.open THEN mm
     ELSE [filled EXCEPT !.open = IF rpt.leaves_qty = 0
                                  THEN [i \in DOMAIN @ \ {id} |-> @[i]] ELSE @]

\* on_fill(): the aggressor's id is looked up first, then the passive one's;
\* the side is the one we registered, never the report's.  The entry goes
\* when leaves_qty, the AGGRESSOR's remaining quantity, is zero.
OnFill(mm, rpt) ==
  LET id == IF rpt.order_id \in DOMAIN mm.open THEN rpt.order_id ELSE rpt.contra_order_id
      filled == ApplyFill(mm, mm.open[id], rpt.exec_price, rpt.exec_qty)
  IN IF id \notin DOMAIN mm.open THEN mm
     ELSE [filled EXCEPT !.open = IF rpt.leaves_qty = 0
                                  THEN [i \in DOMAIN @ \ {id} |-> @[i]] ELSE @]
=============================================================================
