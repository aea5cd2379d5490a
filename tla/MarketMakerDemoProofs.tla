------------------------ MODULE MarketMakerDemoProofs ------------------------
(***************************************************************************)
(* The safety properties of MarketMakerDemo, for every size of the queues, *)
(* every stream of noise and every configuration of the market maker.      *)
(*                                                                         *)
(* Four inductive invariants, each using the ones before it: Typed (types  *)
(* and the message count), Orderly (our orders in book, hand and queue     *)
(* have ascending ids, are current or about to be withdrawn, and do not    *)
(* meet), Attributed (a report belongs to the side the market maker knows; *)
(* what is booked and on its way adds up to no more than what was traded), *)
(* and, as long as no wait gave up, Settled and Limited.                   *)
(***************************************************************************)
EXTENDS MarketMakerDemo, DataLemmas
----------------------------------------------------------------------------
(***************************************************************************)
(* Arithmetic.                                                             *)
(***************************************************************************)
\* The C++ quotient leaves a remainder smaller than the divisor.
LEMMA DivRemainder ==
  ASSUME NEW a \in Nat, NEW b \in Nat, b > 0
  PROVE  a \div b \in Nat /\ a - b * (a \div b) >= 0 /\ a - b * (a \div b) <= b - 1
OBVIOUS

\* Quotient() truncates as C++ does, and what it cuts off is less than the divisor.
LEMMA QuotientRemainder ==
  ASSUME NEW a \in Int, NEW b \in Int, b # 0
  PROVE  /\ Quotient(a, b) \in Int
         /\ Magnitude(a - b * Quotient(a, b)) <= Magnitude(b) - 1
<1> DEFINE x == Magnitude(a)
           y == Magnitude(b)
           q == x \div y
<1>1. x \in Nat /\ y \in Nat /\ y > 0
  BY DEF Magnitude
<1>2. q \in Nat /\ x - y * q >= 0 /\ x - y * q <= y - 1
  BY <1>1, DivRemainder
<1>3. Quotient(a, b) = IF (a < 0) = (b < 0) THEN q ELSE -q
  BY DEF Quotient
<1>4. (a >= 0 => x = a) /\ (a < 0 => x = -a) /\ (b >= 0 => y = b) /\ (b < 0 => y = -b)
  BY DEF Magnitude
<1> HIDE DEF x, y, q
<1>5. CASE a >= 0 /\ b > 0
  BY <1>1, <1>2, <1>3, <1>4, <1>5 DEF Magnitude
<1>6. CASE a < 0 /\ b > 0
  BY <1>1, <1>2, <1>3, <1>4, <1>6 DEF Magnitude
<1>7. CASE a >= 0 /\ b < 0
  BY <1>1, <1>2, <1>3, <1>4, <1>7 DEF Magnitude
<1>8. CASE a < 0 /\ b < 0
  BY <1>1, <1>2, <1>3, <1>4, <1>8 DEF Magnitude
<1> QED BY <1>5, <1>6, <1>7, <1>8

----------------------------------------------------------------------------
(***************************************************************************)
(* The accounts: profit is cash flow, but for the remainders of the divisions.*)
(***************************************************************************)
\* The market maker's members.
Opens == UNION {[ids -> BookSides] : ids \in SUBSET Nat}
Accounts == [position: Int, avg_cost: Int, realized: Int, open: Opens]

\* open_orders_ is a map from ids to sides.
LEMMA OpenOrders ==
  ASSUME NEW open
  PROVE  open \in Opens <=> DOMAIN open \subseteq Nat /\ open \in [DOMAIN open -> BookSides]
BY DEF Opens

\* What a fill does to the position.
Signed(side, qty) == IF side = "Buy" THEN qty ELSE -qty

\* Profit, less the cash flow with the position at average cost.
Error(m, money) == m.realized - (money + m.position * m.avg_cost)

\* A fill of signed units at price that turns m into f leaves nothing unexplained,
\* unless it adds to a position, and then less than one unit per unit of it.
Explained(m, f, signed, price, money) ==
  LET before == Error(m, money)
      after == Error(f, money - signed * price)
  IN after # before => m.position * signed > 0 /\ Magnitude(after - before) < Magnitude(f.position)

\* The size of an integer is a natural number.
LEMMA MagnitudeType ==
  ASSUME NEW a \in Int
  PROVE  Magnitude(a) \in Nat
BY DEF Magnitude

\* A multiple of b that is smaller than b is zero.
LEMMA SmallMultiple ==
  ASSUME NEW b \in Int, NEW k \in Int, b # 0, Magnitude(b * k) <= Magnitude(b) - 1
  PROVE  k = 0
<1>1. ASSUME NEW n \in Nat, NEW j \in Nat, n > 0, j > 0
      PROVE  n * j >= n
  BY <1>1
<1>2. CASE b > 0 /\ k > 0
  <2>1. b * k >= b
    BY <1>1, <1>2
  <2> QED BY <1>2, <2>1 DEF Magnitude
<1>3. CASE b > 0 /\ k < 0
  <2>1. b * (-k) >= b /\ b * (-k) = -(b * k)
    BY <1>1, <1>3
  <2> QED BY <1>3, <2>1 DEF Magnitude
<1>4. CASE b < 0 /\ k > 0
  <2>1. (-b) * k >= -b /\ (-b) * k = -(b * k)
    BY <1>1, <1>4
  <2> QED BY <1>4, <2>1 DEF Magnitude
<1>5. CASE b < 0 /\ k < 0
  <2>1. (-b) * (-k) >= -b /\ (-b) * (-k) = b * k
    BY <1>1, <1>5
  <2> QED BY <1>5, <2>1 DEF Magnitude
<1> QED BY <1>2, <1>3, <1>4, <1>5

\* Two numbers of one sign have a positive product.
LEMMA SameSign ==
  ASSUME NEW a \in Int, NEW b \in Int, (a > 0 /\ b > 0) \/ (a < 0 /\ b < 0)
  PROVE  a * b > 0
OBVIOUS

\* apply_fill() on a growing position: the average cost loses less than one unit per
\* unit of position, nothing else, and nothing at all for a new position.
LEMMA ExtendAccount ==
  ASSUME NEW m \in Accounts, NEW price \in Int, NEW signed \in Int, NEW money \in Int, signed # 0,
         m.position = 0 \/ (m.position > 0 /\ signed > 0) \/ (m.position < 0 /\ signed < 0)
  PROVE  LET f == Extend(m, price, signed)
         IN /\ f \in Accounts /\ f.open = m.open /\ f.position = m.position + signed
            /\ Explained(m, f, signed, price, money)
<1> DEFINE f == Extend(m, price, signed)
           pos == m.position
           avg == m.avg_cost
           total == avg * pos + price * signed
           p == pos + signed
           q == Quotient(total, p)
           before == Error(m, money)
           after == Error(f, money - signed * price)
<1>1. pos \in Int /\ avg \in Int /\ m.realized \in Int /\ m.open \in Opens
  BY DEF Accounts
<1>2. p \in Int /\ total \in Int /\ p # 0
  BY <1>1
<1>3. q \in Int /\ Magnitude(total - p * q) <= Magnitude(p) - 1
  BY <1>2, QuotientRemainder
<1>4. f = [m EXCEPT !.position = p, !.avg_cost = q]
  BY Zenon DEF Extend
<1>5. f \in Accounts /\ f.open = m.open /\ f.position = p /\ f.avg_cost = q /\ f.realized = m.realized
  BY <1>1, <1>2, <1>3, <1>4 DEF Accounts
<1>6. after = before + (total - p * q)
  <2>1. after = m.realized - (money - signed * price + p * q)
    BY <1>5 DEF Error
  <2>2. before = m.realized - (money + pos * avg)
    BY DEF Error
  <2> HIDE DEF q, p, f
  <2>3. total = avg * pos + price * signed
    OBVIOUS
  <2> QED BY <1>1, <1>2, <1>3, <2>1, <2>2, <2>3
<1>7. before \in Int
  BY <1>1 DEF Error
<1>8. CASE pos = 0
  <2>1. total - p * q = p * (price - q)
    <3>1. p = signed /\ total = price * signed
      BY <1>1, <1>8
    <3> HIDE DEF q, p, total
    <3> QED BY <1>3, <3>1
  <2> HIDE DEF q, p, total, before, after
  <2>2. price - q = 0
    <3>1. PICK k \in Int : k = price - q
      BY <1>3
    <3>2. Magnitude(p * k) <= Magnitude(p) - 1
      BY <1>3, <2>1, <3>1
    <3>3. k = 0
      BY <1>2, <3>2, SmallMultiple
    <3> QED BY <3>1, <3>3
  <2>3. after = before
    BY <1>2, <1>6, <1>7, <2>1, <2>2
  <2> QED BY <1>5, <2>3 DEF Explained, before, after, p
<1>9. CASE pos # 0
  <2>1. pos * signed > 0
    BY <1>1, <1>9, SameSign
  <2>2. p * q \in Int
    BY <1>2, <1>3
  <2> HIDE DEF f, q, p, total, before, after
  <2>3. after - before = total - p * q
    BY <1>2, <1>6, <1>7, <2>2
  <2>4. Magnitude(after - before) < Magnitude(p)
    <3>1. total - p * q \in Int
      BY <1>2, <2>2
    <3> QED BY <1>2, <1>3, <2>3, <3>1, MagnitudeType
  <2> QED BY <1>5, <2>1, <2>4 DEF Explained, before, after, p, f
<1> QED BY <1>8, <1>9

\* Closing a part at price realises exactly what the cash flow gains.
LEMMA PartClosed ==
  ASSUME NEW g \in Int, NEW c \in Int, NEW s \in Int, NEW price \in Int, NEW pos \in Int, NEW avg \in Int
  PROVE  (g + (-s) * (price - avg)) - (c - s * price + (pos + s) * avg) = g - (c + pos * avg)
OBVIOUS

\* So does passing zero: the rest is a new position at price.
LEMMA Reversed ==
  ASSUME NEW g \in Int, NEW c \in Int, NEW s \in Int, NEW price \in Int, NEW pos \in Int, NEW avg \in Int
  PROVE  (g + pos * (price - avg)) - (c - s * price + (pos + s) * price) = g - (c + pos * avg)
OBVIOUS

\* apply_fill() against the position loses nothing.
LEMMA ReduceAccount ==
  ASSUME NEW m \in Accounts, NEW price \in Int, NEW signed \in Int, NEW money \in Int,
         (m.position > 0 /\ signed < 0) \/ (m.position < 0 /\ signed > 0)
  PROVE  LET f == Reduce(m, price, signed)
         IN /\ f \in Accounts /\ f.open = m.open /\ f.position = m.position + signed
            /\ Explained(m, f, signed, price, money)
<1> DEFINE f == Reduce(m, price, signed)
           pos == m.position
           avg == m.avg_cost
           close == Least(Magnitude(signed), Magnitude(pos))
           dir == IF pos > 0 THEN 1 ELSE -1
           p == pos + signed
           cost == IF p = 0 THEN 0 ELSE IF (p > 0) # (dir > 0) THEN price ELSE avg
           gain == m.realized + dir * close * (price - avg)
<1>1. pos \in Int /\ avg \in Int /\ m.realized \in Int /\ m.open \in Opens
  BY DEF Accounts
<1>2. f = [m EXCEPT !.position = p, !.realized = gain, !.avg_cost = cost]
  BY Zenon DEF Reduce
<1>3. close \in Nat /\ dir \in Int /\ p \in Int /\ cost \in Int
  BY <1>1, MagnitudeType DEF Least
<1>4. gain \in Int
  BY <1>1, <1>3
<1>5. f \in Accounts /\ f.open = m.open /\ f.position = p /\ f.avg_cost = cost /\ f.realized = gain
  BY <1>1, <1>2, <1>3, <1>4 DEF Accounts
<1>6. Error(f, money - signed * price) = gain - (money - signed * price + p * cost)
  BY <1>5 DEF Error
<1>7. Error(m, money) = m.realized - (money + pos * avg)
  BY DEF Error
<1>8. gain - (money - signed * price + p * cost) = m.realized - (money + pos * avg)
  <2>1. CASE Magnitude(signed) < Magnitude(pos)
    <3>1. dir * close = -signed /\ cost = avg
      BY <1>1, <2>1 DEF Magnitude, Least
    <3>2. gain = m.realized + (-signed) * (price - avg)
      BY <3>1
    <3> HIDE DEF gain, cost, close, dir
    <3>3. gain - (money - signed * price + p * cost)
            = (m.realized + (-signed) * (price - avg)) - (money - signed * price + (pos + signed) * avg)
      BY <3>1, <3>2
    <3> QED BY <1>1, <3>3, PartClosed
  <2>2. CASE Magnitude(signed) = Magnitude(pos)
    <3>1. dir * close = pos /\ p = 0 /\ signed = -pos
      BY <1>1, <2>2 DEF Magnitude, Least
    <3>2. gain = m.realized + pos * (price - avg)
      BY <3>1
    <3>3. p * cost = 0
      BY <3>1, <1>3
    <3> HIDE DEF gain, cost, close, dir, p
    <3> QED BY <1>1, <3>1, <3>2, <3>3
  <2>3. CASE Magnitude(signed) > Magnitude(pos)
    <3>1. dir * close = pos /\ cost = price
      BY <1>1, <2>3 DEF Magnitude, Least
    <3>2. gain = m.realized + pos * (price - avg)
      BY <3>1
    <3> HIDE DEF gain, cost, close, dir
    <3>3. gain - (money - signed * price + p * cost)
            = (m.realized + pos * (price - avg)) - (money - signed * price + (pos + signed) * price)
      BY <3>1, <3>2
    <3>4. (m.realized + pos * (price - avg)) - (money - signed * price + (pos + signed) * price)
            = m.realized - (money + pos * avg)
      <4> HIDE DEF pos, avg
      <4> QED BY <1>1, Reversed
    <3> QED BY <3>3, <3>4
  <2>4. \/ Magnitude(signed) < Magnitude(pos)
        \/ Magnitude(signed) = Magnitude(pos)
        \/ Magnitude(signed) > Magnitude(pos)
    BY <1>1, MagnitudeType
  <2> HIDE DEF gain, cost, close, dir, p, pos, avg
  <2> QED BY <2>1, <2>2, <2>3, <2>4
<1>9. Error(f, money - signed * price) = Error(m, money)
  BY <1>6, <1>7, <1>8
<1> HIDE DEF f, p, cost, gain, close, dir
<1>10. Explained(m, f, signed, price, money)
  BY <1>9 DEF Explained
<1> QED BY <1>5, <1>10 DEF f, p

\* apply_fill(): the position moves by the fill, and the fill is explained.
LEMMA FillAccount ==
  ASSUME NEW m \in Accounts, NEW side \in BookSides, NEW price \in Int, NEW qty \in Nat, qty > 0,
         NEW money \in Int
  PROVE  LET f == ApplyFill(m, side, price, qty)
         IN /\ f \in Accounts /\ f.open = m.open /\ f.position = m.position + Signed(side, qty)
            /\ Explained(m, f, Signed(side, qty), price, money)
<1> DEFINE signed == Signed(side, qty)
           pos == m.position
<1>1. signed \in Int /\ signed # 0 /\ pos \in Int
  BY DEF Signed, Accounts
<1>2. ApplyFill(m, side, price, qty) =
        IF pos = 0 \/ (pos > 0) = (signed > 0) THEN Extend(m, price, signed) ELSE Reduce(m, price, signed)
  BY DEF ApplyFill, Signed
<1>3. CASE pos = 0 \/ (pos > 0) = (signed > 0)
  <2>1. pos = 0 \/ (pos > 0 /\ signed > 0) \/ (pos < 0 /\ signed < 0)
    BY <1>1, <1>3
  <2> HIDE DEF signed
  <2>2. PICK f : f = Extend(m, price, signed)
    OBVIOUS
  <2>3. /\ f \in Accounts /\ f.open = m.open /\ f.position = m.position + signed
        /\ Explained(m, f, signed, price, money)
    BY <1>1, <2>1, <2>2, ExtendAccount
  <2>4. ApplyFill(m, side, price, qty) = f
    BY <1>2, <1>3, <2>2
  <2> QED BY <2>3, <2>4 DEF signed
<1>4. CASE ~(pos = 0 \/ (pos > 0) = (signed > 0))
  <2>1. (pos > 0 /\ signed < 0) \/ (pos < 0 /\ signed > 0)
    BY <1>1, <1>4
  <2> HIDE DEF signed
  <2>2. PICK f : f = Reduce(m, price, signed)
    OBVIOUS
  <2>3. /\ f \in Accounts /\ f.open = m.open /\ f.position = m.position + signed
        /\ Explained(m, f, signed, price, money)
    BY <1>1, <2>1, <2>2, ReduceAccount
  <2>4. ApplyFill(m, side, price, qty) = f
    BY <1>2, <1>4, <2>2
  <2> QED BY <2>3, <2>4 DEF signed
<1> QED BY <1>3, <1>4

----------------------------------------------------------------------------
(***************************************************************************)
(* Messages, reports, and what a report does to the accounts.              *)
(***************************************************************************)
Orders == [id: Nat, side: BookSides, price: Int, qty: Nat]

NewOrders == [msg_type: {"NewOrder"}, order_id: Nat, side: BookSides, price: Int, qty: Nat \ {0}]
Cancels   == [msg_type: {"CancelOrder"}, order_id: Nat]
Messages  == NewOrders \cup Cancels

Reports ==
  [order_id: Nat, contra_order_id: Nat, exec_price: Int, exec_qty: Nat \ {0}, leaves_qty: Nat,
   side: BookSides]

Quantities == [BookSides -> Nat]
Entries == [rpt: Reports, traded: Quantities]

\* What OnFill() leaves: the orders it still knows, at the side it knew, and
\* the position moved by the fill of the order it found.
LEMMA OnFillAccount ==
  ASSUME NEW m \in Accounts, NEW rpt \in Reports, NEW money \in Int
  PROVE  LET f == OnFill(m, rpt)
             id == IF rpt.order_id \in DOMAIN m.open THEN rpt.order_id ELSE rpt.contra_order_id
         IN /\ f \in Accounts
            /\ DOMAIN f.open \subseteq DOMAIN m.open
            /\ \A i \in DOMAIN f.open : f.open[i] = m.open[i]
            /\ IF id \in DOMAIN m.open
               THEN f.position = m.position + Signed(m.open[id], rpt.exec_qty)
               ELSE f.position = m.position
            /\ Explained(m, f, f.position - m.position, rpt.exec_price, money)
<1> DEFINE f == OnFill(m, rpt)
           id == IF rpt.order_id \in DOMAIN m.open THEN rpt.order_id ELSE rpt.contra_order_id
           q == rpt.exec_qty
           price == rpt.exec_price
           a == ApplyFill(m, m.open[id], price, q)
           left == IF rpt.leaves_qty = 0 THEN [i \in DOMAIN m.open \ {id} |-> m.open[i]] ELSE m.open
<1>1. q \in Nat /\ q > 0 /\ price \in Int
  BY DEF Reports
<1>2. m.position \in Int /\ m.open \in Opens
  BY DEF Accounts
<1>3. m.open \in [DOMAIN m.open -> BookSides] /\ DOMAIN m.open \subseteq Nat
  BY <1>2, OpenOrders
<1>4. CASE id \notin DOMAIN m.open
  <2>1. f = m
    BY <1>4 DEF OnFill
  <2>2. money - (m.position - m.position) * price = money
    BY <1>1, <1>2
  <2>3. Explained(m, f, f.position - m.position, price, money)
    <3> HIDE DEF f, price
    <3> QED BY <2>1, <2>2 DEF Explained
  <2>4. f \in Accounts /\ DOMAIN f.open \subseteq DOMAIN m.open /\ \A i \in DOMAIN f.open : f.open[i] = m.open[i]
    <3> HIDE DEF f
    <3> QED BY <2>1
  <2>5. f.position = m.position
    BY <2>1, Zenon
  <2> QED BY <1>4, <2>3, <2>4, <2>5
<1>5. CASE id \in DOMAIN m.open
  <2>1. m.open[id] \in BookSides
    BY <1>3, <1>5
  <2> DEFINE sg == Signed(m.open[id], q)
  <2>2. /\ a \in Accounts /\ a.open = m.open /\ a.position = m.position + sg
        /\ Explained(m, a, sg, price, money)
    <3> HIDE DEF q, price, id
    <3> QED BY <1>1, <2>1, FillAccount
  <2>3. left \in Opens /\ DOMAIN left \subseteq DOMAIN m.open /\ \A i \in DOMAIN left : left[i] = m.open[i]
    <3>1. DOMAIN left \subseteq Nat /\ left \in [DOMAIN left -> BookSides]
      BY <1>3
    <3> HIDE DEF left
    <3>2. left \in Opens
      BY <3>1, OpenOrders
    <3> QED BY <3>1, <3>2 DEF left
  <2>4. f = [a EXCEPT !.open = IF rpt.leaves_qty = 0 THEN [i \in DOMAIN @ \ {id} |-> @[i]] ELSE @]
    BY <1>5, Zenon DEF OnFill
  <2>5. f = [a EXCEPT !.open = left]
    BY <2>2, <2>4, Zenon
  <2> HIDE DEF a, left, f
  <2>6. /\ f \in Accounts /\ f.open = left /\ f.position = a.position
        /\ f.avg_cost = a.avg_cost /\ f.realized = a.realized
    BY <2>2, <2>3, <2>5 DEF Accounts
  <2>7. sg \in Int
    BY <1>1, <2>1 DEF Signed
  <2>8. f.position - m.position = sg
    BY <1>2, <2>2, <2>6, <2>7
  <2>9. Error(f, money - sg * price) = Error(a, money - sg * price)
    BY <2>6 DEF Error
  <2>10. Explained(m, f, f.position - m.position, price, money)
    <3> HIDE DEF sg, price
    <3> QED BY <2>2, <2>6, <2>8, <2>9 DEF Explained
  <2> QED BY <1>5, <2>2, <2>3, <2>6, <2>10 DEF f
<1> QED BY <1>4, <1>5

----------------------------------------------------------------------------
(***************************************************************************)
(* What executions and cancels leave of a book.                            *)
(***************************************************************************)
\* Two views of one order: only its quantity may have become less.
Same(new, old) ==
  new.id = old.id /\ new.side = old.side /\ new.price = old.price /\ new.qty <= old.qty

\* Book b is what executions and a cancel have left of book a: the orders are
\* some of those of a, in the same order.
Thinned(b, a, g) ==
  /\ g \in [DOMAIN b -> DOMAIN a]
  /\ \A j, k \in DOMAIN b : j < k => g[j] < g[k]
  /\ \A j \in DOMAIN b : Same(b[j], a[g[j]])

\* Taking one order out leaves the others, in their order.
LEMMA RemoveThins ==
  ASSUME NEW a \in Seq(Orders), NEW i \in DOMAIN a
  PROVE  /\ RemoveAt(a, i) \in Seq(Orders)
         /\ \E g : /\ Thinned(RemoveAt(a, i), a, g)
                   /\ \A j \in DOMAIN RemoveAt(a, i) : g[j] # i /\ RemoveAt(a, i)[j] = a[g[j]]
<1> DEFINE b == RemoveAt(a, i)
           g == [j \in DOMAIN b |-> IF j < i THEN j ELSE j + 1]
<1>1. Len(a) \in Nat /\ DOMAIN a = 1..Len(a)
  BY LenProperties
<1>2. /\ b \in Seq(Orders) /\ Len(b) = Len(a) - 1
      /\ \A j \in 1..(Len(a) - 1) : b[j] = IF j < i THEN a[j] ELSE a[j + 1]
  BY <1>1, RemoveAtProperties
<1>3. DOMAIN b = 1..(Len(a) - 1)
  BY <1>2, LenProperties
<1>4. \A j \in DOMAIN a : a[j] \in Orders
  BY <1>1, ElementOfSeq
<1> HIDE DEF b
<1>5. g \in [DOMAIN b -> DOMAIN a] /\ \A j \in DOMAIN b : g[j] # i /\ b[j] = a[g[j]]
  BY <1>1, <1>2, <1>3
<1>6. \A j, k \in DOMAIN b : j < k => g[j] < g[k]
  BY <1>1, <1>3
<1>7. \A o \in Orders : Same(o, o)
  BY DEF Same, Orders
<1> HIDE DEF g
<1>8. Thinned(b, a, g)
  BY <1>4, <1>5, <1>6, <1>7 DEF Thinned
<1> QED BY <1>2, <1>5, <1>8 DEF b

\* An execution has a quantity, and no more than either order has.
LEMMA FillBounds ==
  ASSUME NEW a \in Seq(Orders), NEW i \in DOMAIN a, NEW o \in Orders, o.qty > 0, a[i].qty > 0
  PROVE  /\ FillQty(a, o, i) \in Nat /\ FillQty(a, o, i) > 0
         /\ FillQty(a, o, i) <= o.qty /\ FillQty(a, o, i) <= a[i].qty
<1>1. a[i] \in Orders
  BY LenProperties, ElementOfSeq
<1> QED BY <1>1 DEF Orders, FillQty

\* An execution takes its quantity from the order it hits, and leaves nothing
\* of one it uses up.
LEMMA HitThins ==
  ASSUME NEW a \in Seq(Orders), NEW i \in DOMAIN a, NEW o \in Orders, o.qty > 0,
         \A j \in DOMAIN a : a[j].qty > 0
  PROVE  /\ Hit(a, o, i) \in Seq(Orders)
         /\ \E g : /\ Thinned(Hit(a, o, i), a, g)
                   /\ \A j \in DOMAIN Hit(a, o, i) :
                        /\ Hit(a, o, i)[j].qty > 0
                        /\ g[j] = i => Hit(a, o, i)[j].qty = a[i].qty - FillQty(a, o, i)
<1> DEFINE qty == FillQty(a, o, i)
<1>1. Len(a) \in Nat /\ DOMAIN a = 1..Len(a)
  BY LenProperties
<1>2. \A j \in DOMAIN a : a[j] \in Orders
  BY <1>1, ElementOfSeq
<1>3. qty \in Nat /\ qty > 0 /\ qty <= o.qty /\ qty <= a[i].qty
  BY FillBounds
<1>4. CASE qty = a[i].qty
  <2> DEFINE b == RemoveAt(a, i)
  <2>1. Hit(a, o, i) = b
    BY <1>4 DEF Hit
  <2>2. b \in Seq(Orders)
    BY RemoveThins
  <2>4. PICK g : Thinned(b, a, g) /\ \A j \in DOMAIN b : g[j] # i /\ b[j] = a[g[j]]
    BY RemoveThins
  <2> HIDE DEF b
  <2>3. \A j \in DOMAIN b : b[j].qty > 0
    BY <2>4 DEF Thinned
  <2> QED BY <2>1, <2>2, <2>3, <2>4
<1>5. CASE qty # a[i].qty
  <2> DEFINE b == [a EXCEPT ![i].qty = @ - qty]
             g == [j \in DOMAIN a |-> j]
  <2>1. Hit(a, o, i) = b
    BY <1>5 DEF Hit
  <2>2. a[i].qty - qty \in Nat /\ a[i].qty - qty > 0
    BY <1>2, <1>3, <1>5 DEF Orders
  <2>3. DOMAIN b = DOMAIN a /\ b[i] = [a[i] EXCEPT !.qty = a[i].qty - qty] /\ \A j \in DOMAIN a \ {i} : b[j] = a[j]
    BY <1>1
  <2> HIDE DEF b, qty
  <2>4. /\ b[i] \in Orders /\ b[i].id = a[i].id /\ b[i].side = a[i].side /\ b[i].price = a[i].price
        /\ b[i].qty = a[i].qty - qty
    BY <1>2, <2>2, <2>3 DEF Orders
  <2>5. \A j \in DOMAIN b : b[j] \in Orders /\ b[j].qty > 0 /\ Same(b[j], a[j])
    <3> SUFFICES ASSUME NEW j \in DOMAIN a
                 PROVE  b[j] \in Orders /\ b[j].qty > 0 /\ Same(b[j], a[j])
      BY <2>3
    <3>1. a[j] \in Orders /\ a[j].qty \in Int
      BY <1>2 DEF Orders
    <3>2. CASE j = i
      BY <1>3, <2>2, <2>4, <3>1, <3>2 DEF Same
    <3>3. CASE j # i
      BY <2>3, <3>1, <3>3 DEF Same
    <3> QED BY <3>2, <3>3
  <2>6. b \in Seq(Orders)
    <3>1. b \in [1..Len(a) -> Orders]
      <4>1. b = [j \in DOMAIN a |-> b[j]]
        BY DEF b
      <4> QED BY <1>1, <2>3, <2>5, <4>1
    <3> QED BY <1>1, <3>1, SeqDef
  <2>7. Thinned(b, a, g)
    BY <1>1, <2>3, <2>5 DEF Thinned
  <2>8. \A j \in DOMAIN b : g[j] = i => b[j].qty = a[i].qty - qty
    BY <2>3, <2>4
  <2> HIDE DEF g
  <2> QED BY <2>1, <2>5, <2>6, <2>7, <2>8 DEF qty
<1> QED BY <1>4, <1>5

\* A cancel leaves no order of its id behind, when the book has one at most.
LEMMA CancelThins ==
  ASSUME NEW a \in Seq(Orders), NEW id
  PROVE  /\ CancelOrder(a, id) \in Seq(Orders)
         /\ \E g : /\ Thinned(CancelOrder(a, id), a, g)
                   /\ \A j \in DOMAIN CancelOrder(a, id) : CancelOrder(a, id)[j] = a[g[j]]
         /\ (\A i, j \in DOMAIN a : a[i].id = id /\ a[j].id = id => i = j)
              => \A j \in DOMAIN CancelOrder(a, id) : CancelOrder(a, id)[j].id # id
<1>1. DOMAIN a = 1..Len(a) /\ Len(a) \in Nat
  BY LenProperties
<1>2. \A j \in DOMAIN a : a[j] \in Orders
  BY <1>1, ElementOfSeq
<1>3. CASE PositionsOf(a, id) = {}
  <2> DEFINE g == [j \in DOMAIN a |-> j]
  <2>1. CancelOrder(a, id) = a
    BY <1>3 DEF CancelOrder
  <2>2. \A j \in DOMAIN a : a[j].id # id
    BY <1>3 DEF PositionsOf
  <2>3. \A j \in DOMAIN a : g[j] = j
    OBVIOUS
  <2>4. \A o \in Orders : Same(o, o)
    BY DEF Same, Orders
  <2>5. Thinned(a, a, g)
    BY <1>1, <1>2, <2>4 DEF Thinned
  <2> HIDE DEF g
  <2> QED BY <2>1, <2>2, <2>3, <2>5
<1>4. CASE PositionsOf(a, id) # {}
  <2>1. PICK i \in PositionsOf(a, id) : CancelOrder(a, id) = RemoveAt(a, i)
    BY <1>4 DEF CancelOrder
  <2> DEFINE b == RemoveAt(a, i)
  <2>3. i \in DOMAIN a /\ a[i].id = id
    BY DEF PositionsOf
  <2>2. b \in Seq(Orders)
    BY <2>3, RemoveThins
  <2>4. PICK g : Thinned(b, a, g) /\ \A j \in DOMAIN b : g[j] # i /\ b[j] = a[g[j]]
    BY <2>3, RemoveThins
  <2> HIDE DEF b
  <2>5. (\A k, j \in DOMAIN a : a[k].id = id /\ a[j].id = id => k = j) => \A j \in DOMAIN b : b[j].id # id
    BY <2>3, <2>4 DEF Thinned
  <2>6. CancelOrder(a, id) = b
    BY <2>1 DEF b
  <2> QED BY <2>2, <2>4, <2>5, <2>6
<1> QED BY <1>3, <1>4

----------------------------------------------------------------------------
(***************************************************************************)
(* Types and counts, and the steps of the demo's thread that keep them.    *)
(***************************************************************************)
Places == {"noise", "drain", "counter", "cancelBuy", "cancelSell", "quote", "postBuy", "postSell",
           "tail", "stop", "done"}

ThreadOK ==
  /\ at \in Places /\ then \in {"noise", "cancelBuy", "quote", "tail"}
  /\ noise \in Nat /\ noise <= NEvents
  /\ at = "noise" \/ (at \in {"drain", "counter"} /\ then = "noise") => noise < NEvents
  /\ quotes \in Quantities
  /\ prices \in [BookSides -> Int \cup {PRICE_INVALID}]
  /\ nextId \in Nat /\ nextId > NEvents

AccountOK ==
  /\ mm \in Accounts
  /\ lastTrade \in Int /\ booked \in Quantities /\ cash \in Int

EngineOK ==
  /\ engine \in [at: {"pop", "match"}, order: Orders]
  /\ engine.at = "pop" => engine = Polling
  /\ processed \in Nat
  /\ book \in Seq(Orders) /\ \A i \in DOMAIN book : book[i].qty > 0
  /\ traded \in Quantities

QueuesOK ==
  /\ inbound \in Seq(Messages) /\ Len(inbound) <= InboundBound
  /\ outbound \in Seq(Entries) /\ Len(outbound) <= OutboundBound
  /\ submitted \in Nat

\* The orders the market maker knows are quotes it has made.
OpenIds == \A id \in DOMAIN mm.open : id > NEvents /\ id < nextId

\* A message is processed, in the engine's hand or queued; only what the engine
\* does after stop() is not counted.
InHandCount == IF engine.at = "match" THEN 1 ELSE 0
Counting ==
  /\ processed + Len(inbound) + InHandCount <= submitted
  /\ at \notin {"stop", "done"} => processed + Len(inbound) + InHandCount = submitted

Flags == closing \in BOOLEAN /\ late \in BOOLEAN /\ dropped \in BOOLEAN

Typed == ThreadOK /\ AccountOK /\ EngineOK /\ QueuesOK /\ OpenIds /\ Counting

\* The constants, one by one.
LEMMA Constants ==
  /\ PRICE_INVALID \notin Int
  /\ HalfSpread \in Nat /\ HalfSpread > 0 /\ PositionLimit \in Nat /\ PositionLimit > 0
  /\ QuoteQty \in Nat /\ QuoteQty > 0 /\ InventorySkew \in Nat
  /\ NoisePrices \subseteq Nat /\ NoiseQtys \subseteq Nat \ {0} /\ Mid \in Nat
  /\ NEvents \in Nat /\ NEvents > 0 /\ kRequoteEvery \in Nat /\ kRequoteEvery > 0
  /\ InboundBound \in Nat /\ InboundBound > 0 /\ OutboundBound \in Nat /\ OutboundBound > 0
BY MarketMakerAssumption, DemoAssumption

\* submit_retry(): the message is the last one in the queue.
LEMMA Submitted ==
  ASSUME QueuesOK, NEW m \in Messages, Submit(m), outbound' = outbound
  PROVE  /\ QueuesOK'
         /\ Len(inbound) \in Nat /\ DOMAIN inbound = 1..Len(inbound)
         /\ Len(inbound') = Len(inbound) + 1 /\ DOMAIN inbound' = 1..(Len(inbound) + 1)
         /\ inbound'[Len(inbound) + 1] = m
         /\ \A k \in DOMAIN inbound : inbound'[k] = inbound[k]
         /\ submitted' = submitted + 1
<1>1. inbound \in Seq(Messages) /\ Len(inbound) < InboundBound /\ inbound' = Append(inbound, m)
  BY DEF QueuesOK, Submit
<1>2. Len(inbound) \in Nat /\ DOMAIN inbound = 1..Len(inbound)
  BY <1>1, LenProperties
<1>3. /\ inbound' \in Seq(Messages) /\ Len(inbound') = Len(inbound) + 1
      /\ inbound'[Len(inbound) + 1] = m /\ \A k \in 1..Len(inbound) : inbound'[k] = inbound[k]
  BY <1>1, AppendProperties
<1>4. DOMAIN inbound' = 1..(Len(inbound) + 1)
  BY <1>3, LenProperties
<1>5. QueuesOK'
  BY <1>1, <1>2, <1>3, Constants DEF QueuesOK, Submit
<1> QED BY <1>1, <1>2, <1>3, <1>4, <1>5 DEF Submit

\* A step of the demo's thread counts what it submits.
LEMMA CountingKept ==
  ASSUME Typed, processed' = processed, engine' = engine, at \notin {"stop", "done"},
         at' \in Places,
         \/ inbound' = inbound /\ submitted' = submitted
         \/ Len(inbound') = Len(inbound) + 1 /\ submitted' = submitted + 1
  PROVE  Counting'
<1>1. Len(inbound) \in Nat /\ processed \in Nat /\ submitted \in Nat /\ InHandCount \in Nat
  BY LenProperties DEF Typed, QueuesOK, EngineOK, InHandCount
<1>2. InHandCount' = InHandCount
  BY DEF InHandCount
<1>3. processed + Len(inbound) + InHandCount = submitted
  BY DEF Typed, Counting
<1> HIDE DEF InHandCount
<1>4. processed' + Len(inbound') + InHandCount' = submitted' /\ submitted' \in Nat
  BY <1>1, <1>2, <1>3
<1> QED BY <1>4 DEF Counting

\* A noise order keeps the types and the count.
LEMMA NoiseTyped ==
  ASSUME Typed, Noise
  PROVE  Typed'
<1> USE DEF Typed
<1>1. PICK price \in NoisePrices, qty \in NoiseQtys :
        Submit(NewLimit(noise + 1, IF noise % 2 = 0 THEN "Buy" ELSE "Sell", price, qty))
  BY DEF Noise
<1>2. NewLimit(noise + 1, IF noise % 2 = 0 THEN "Buy" ELSE "Sell", price, qty) \in Messages
  BY Constants DEF NewLimit, Messages, NewOrders, ThreadOK, BookSides
<1>3. outbound' = outbound /\ UNCHANGED <<quotes, prices, nextId, mm, lastTrade, booked, cash,
                                          engine, processed, book, traded>>
  BY DEF Noise, account, engineVars
<1>4. QueuesOK' /\ Len(inbound') = Len(inbound) + 1 /\ submitted' = submitted + 1
  BY <1>1, <1>2, <1>3, Submitted
<1>5. AccountOK' /\ EngineOK' /\ OpenIds'
  BY <1>3 DEF AccountOK, EngineOK, OpenIds
<1>6. ThreadOK' /\ at' \in {"noise", "drain"}
  <2>1. noise < NEvents /\ at = "noise" /\ noise' = noise + 1
    BY DEF Noise, ThreadOK
  <2>2. (at' = "drain" /\ then' = "cancelBuy") \/ (at' = at /\ then' = then /\ noise' # NEvents)
    BY DEF Noise, WaitThen
  <2> QED BY <1>3, <2>1, <2>2, Constants DEF ThreadOK, Places
<1>7. at \notin {"stop", "done"} /\ at' \in Places
  BY <1>6 DEF Noise, Places
<1>8. Counting'
  BY <1>3, <1>4, <1>7, CountingKept
<1> QED BY <1>4, <1>5, <1>6, <1>8

\* The steps that only move the demo's thread on.
Moves == Drained \/ CaughtUp \/ TimeOut \/ TailOver \/ Stop

\* So does a wait that goes on, ends or gives up.
LEMMA MovesTyped ==
  ASSUME Typed, Moves
  PROVE  Typed'
<1> USE DEF Typed
<1>1. UNCHANGED <<then, noise, quotes, prices, nextId, mm, lastTrade, booked, cash,
                  engine, processed, book, traded, submitted, inbound, outbound>>
  BY DEF Moves, Drained, CaughtUp, TimeOut, TailOver, Stop, account, engineVars
<1>2. AccountOK' /\ EngineOK' /\ OpenIds' /\ QueuesOK'
  BY <1>1 DEF AccountOK, EngineOK, OpenIds, QueuesOK
<1>3. \/ at = "drain" /\ at' \in {"counter", then}
      \/ at = "counter" /\ at' \in {"drain", then}
      \/ at = "tail" /\ at' = "stop"
      \/ at = "stop" /\ at' = "done"
  BY DEF Moves, Drained, CaughtUp, TimeOut, TailOver, Stop
<1>4. ThreadOK'
  BY <1>1, <1>3 DEF ThreadOK, Places
<1>5. Counting'
  <2>1. CASE at = "stop" /\ at' = "done"
    BY <1>1, <2>1 DEF Counting, InHandCount
  <2>2. CASE at \in {"drain", "counter", "tail"}
    BY <1>1, <1>4, <2>2, CountingKept DEF ThreadOK
  <2> QED BY <1>3, <2>1, <2>2
<1> QED BY <1>2, <1>4, <1>5

\* So does the withdrawal of a quote.
LEMMA CancelTyped ==
  ASSUME Typed, NEW s \in BookSides, Cancel(s)
  PROVE  Typed'
<1> USE DEF Typed
<1>1. UNCHANGED <<noise, quotes, prices, nextId, mm, lastTrade, booked, cash,
                  engine, processed, book, traded, outbound>>
  BY DEF Cancel, account, engineVars
<1>2. AccountOK' /\ EngineOK' /\ OpenIds'
  BY <1>1 DEF AccountOK, EngineOK, OpenIds
<1>3. \/ inbound' = inbound /\ submitted' = submitted
      \/ Submit([msg_type |-> "CancelOrder", order_id |-> quotes[s]])
  BY DEF Cancel
<1>4. [msg_type |-> "CancelOrder", order_id |-> quotes[s]] \in Messages
  BY DEF Messages, Cancels, ThreadOK, Quantities
<1>5. QueuesOK' /\ (\/ inbound' = inbound /\ submitted' = submitted
                    \/ Len(inbound') = Len(inbound) + 1 /\ submitted' = submitted + 1)
  <2>1. CASE inbound' = inbound /\ submitted' = submitted
    BY <1>1, <2>1 DEF QueuesOK
  <2>2. CASE Submit([msg_type |-> "CancelOrder", order_id |-> quotes[s]])
    BY <1>1, <1>4, <2>2, Submitted
  <2> QED BY <1>3, <2>1, <2>2
<1>6. /\ at \in {"cancelBuy", "cancelSell"}
      /\ \/ at' = "cancelSell" /\ then' = then
         \/ at' = "drain" /\ then' \in {"tail", "quote"}
  BY DEF Cancel, CancelAt, BookSides, WaitThen
<1>7. ThreadOK'
  BY <1>1, <1>6 DEF ThreadOK, Places
<1>8. Counting'
  BY <1>1, <1>5, <1>6, <1>7, CountingKept DEF ThreadOK
<1> QED BY <1>2, <1>5, <1>7, <1>8

\* compute_quote(): a bid and an ask of one reservation price do not meet.
LEMMA QuoteType ==
  ASSUME NEW m \in Accounts, NEW mid \in Int
  PROVE  LET q == ComputeQuote(m, mid)
         IN /\ q \in [BookSides -> Int \cup {PRICE_INVALID}]
            /\ q["Buy"] \in Int => m.position + QuoteQty <= PositionLimit
            /\ q["Sell"] \in Int => -m.position + QuoteQty <= PositionLimit
            /\ q["Buy"] \in Int /\ q["Sell"] \in Int => q["Buy"] < q["Sell"]
<1> DEFINE res == mid - m.position * InventorySkew
           b == IF m.position + QuoteQty <= PositionLimit THEN res - HalfSpread ELSE PRICE_INVALID
           a == IF m.position - QuoteQty >= -PositionLimit THEN res + HalfSpread ELSE PRICE_INVALID
           q == [Buy |-> b, Sell |-> a]
<1>1. m.position \in Int
  BY DEF Accounts
<1>2. m.position * InventorySkew \in Int
  BY <1>1, Constants
<1>3. res \in Int
  BY <1>2
<1>4. ComputeQuote(m, mid) = q
  BY Zenon DEF ComputeQuote
<1> HIDE DEF res
<1>5. b \in Int \cup {PRICE_INVALID} /\ a \in Int \cup {PRICE_INVALID}
  BY <1>3, Constants
<1>6. b \in Int => m.position + QuoteQty <= PositionLimit
  BY Constants
<1>7. a \in Int => -m.position + QuoteQty <= PositionLimit
  BY <1>1, Constants
<1>8. b \in Int /\ a \in Int => b < a
  <2>1. (b \in Int => b = res - HalfSpread) /\ (a \in Int => a = res + HalfSpread)
    BY Constants
  <2> HIDE DEF a, b
  <2> QED BY <1>3, <2>1, Constants
<1> HIDE DEF a, b
<1>9. q \in [BookSides -> Int \cup {PRICE_INVALID}] /\ q["Buy"] = b /\ q["Sell"] = a
  BY <1>5 DEF BookSides
<1> QED BY <1>4, <1>6, <1>7, <1>8, <1>9

\* So does compute_quote().
LEMMA MakeQuoteTyped ==
  ASSUME Typed, MakeQuote
  PROVE  Typed'
<1> USE DEF Typed
<1>1. UNCHANGED <<then, noise, nextId, mm, lastTrade, booked, cash,
                  engine, processed, book, traded, submitted, inbound, outbound>>
  BY DEF MakeQuote, account, engineVars
<1>2. AccountOK' /\ EngineOK' /\ OpenIds' /\ QueuesOK'
  BY <1>1 DEF AccountOK, EngineOK, OpenIds, QueuesOK
<1>3. prices' \in [BookSides -> Int \cup {PRICE_INVALID}]
  BY QuoteType DEF MakeQuote, AccountOK
<1>4. quotes' \in Quantities
  BY DEF MakeQuote, Quantities
<1>5. at = "quote" /\ at' = "postBuy"
  BY DEF MakeQuote
<1>6. ThreadOK'
  BY <1>1, <1>3, <1>4, <1>5 DEF ThreadOK, Places
<1>7. Counting'
  BY <1>1, <1>5, <1>6, CountingKept DEF ThreadOK
<1> QED BY <1>2, <1>6, <1>7

----------------------------------------------------------------------------
(***************************************************************************)
(* Posting a quote and reading a report.                                   *)
(***************************************************************************)
\* register_order() adds one id, with its side, and touches nothing else.
LEMMA Registered ==
  ASSUME NEW m \in Accounts, NEW id \in Nat, NEW side \in BookSides
  PROVE  LET f == RegisterOrder(m, id, side)
         IN /\ f \in Accounts
            /\ f.position = m.position /\ f.avg_cost = m.avg_cost /\ f.realized = m.realized
            /\ DOMAIN f.open = DOMAIN m.open \cup {id}
            /\ f.open[id] = side
            /\ \A i \in DOMAIN m.open \ {id} : f.open[i] = m.open[i]
<1> DEFINE f == RegisterOrder(m, id, side)
           open == [i \in DOMAIN m.open \cup {id} |-> IF i = id THEN side ELSE m.open[i]]
<1>1. f = [m EXCEPT !.open = open]
  BY Zenon DEF RegisterOrder
<1>2. m.open \in Opens
  BY DEF Accounts
<1>3. DOMAIN m.open \subseteq Nat /\ m.open \in [DOMAIN m.open -> BookSides]
  BY <1>2, OpenOrders
<1>4. /\ DOMAIN open = DOMAIN m.open \cup {id} /\ open[id] = side
      /\ \A i \in DOMAIN m.open \ {id} : open[i] = m.open[i]
  OBVIOUS
<1>5. DOMAIN open \subseteq Nat /\ open \in [DOMAIN open -> BookSides]
  BY <1>3
<1> HIDE DEF open, f
<1>6. open \in Opens
  BY <1>5, OpenOrders
<1>7. /\ f \in Accounts /\ f.position = m.position /\ f.avg_cost = m.avg_cost
      /\ f.realized = m.realized /\ f.open = open
  BY <1>1, <1>6 DEF Accounts
<1> QED BY <1>4, <1>7 DEF f

\* Where Post() leads, and what it leaves alone.
LEMMA PostFrame ==
  ASSUME Typed, NEW s \in BookSides, Post(s)
  PROVE  /\ at = PostAt[s] /\ at \in {"postBuy", "postSell"} /\ (s = "Buy" <=> at = "postBuy")
         /\ UNCHANGED <<noise, prices, late, lastTrade, booked, cash,
                        engine, processed, book, dropped, traded, outbound>>
         /\ \/ s = "Buy" /\ at' = "postSell" /\ then' = then
            \/ s = "Sell" /\ at' = "drain" /\ then' = "cancelBuy"
            \/ s = "Sell" /\ at' = "drain" /\ then' = "noise" /\ noise < NEvents
         /\ prices[s] = PRICE_INVALID => UNCHANGED <<submitted, inbound, mm, quotes, nextId>>
         /\ prices[s] # PRICE_INVALID =>
              /\ prices[s] \in Int
              /\ Submit(NewLimit(nextId, s, prices[s], QuoteQty))
              /\ NewLimit(nextId, s, prices[s], QuoteQty) \in Messages
              /\ mm' = RegisterOrder(mm, nextId, s)
              /\ quotes' = [quotes EXCEPT ![s] = nextId]
              /\ nextId' = nextId + 1
<1>1. at = PostAt[s] /\ at \in {"postBuy", "postSell"} /\ (s = "Buy" <=> at = "postBuy")
  BY DEF Post, PostAt, BookSides
<1>2. UNCHANGED <<noise, prices, late, lastTrade, booked, cash,
                  engine, processed, book, dropped, traded, outbound>>
  BY DEF Post, engineVars
<1>3. \/ s = "Buy" /\ at' = "postSell" /\ then' = then
      \/ s = "Sell" /\ at' = "drain" /\ then' = "cancelBuy"
      \/ s = "Sell" /\ at' = "drain" /\ then' = "noise" /\ noise # NEvents
  BY DEF Post, BookSides, WaitThen
<1>4. noise # NEvents => noise < NEvents
  BY Constants DEF Typed, ThreadOK
<1>5. prices[s] # PRICE_INVALID =>
        /\ prices[s] \in Int
        /\ NewLimit(nextId, s, prices[s], QuoteQty) \in Messages
  BY Constants DEF Typed, ThreadOK, NewLimit, Messages, NewOrders
<1> QED BY <1>1, <1>2, <1>3, <1>4, <1>5 DEF Post

\* Posting keeps the types and the count, and the new id is ours.
LEMMA PostTyped ==
  ASSUME Typed, NEW s \in BookSides, Post(s)
  PROVE  Typed'
<1> USE DEF Typed
<1>1. /\ UNCHANGED <<noise, prices, lastTrade, booked, cash, engine, processed, book, traded, outbound>>
      /\ at \in {"postBuy", "postSell"}
      /\ \/ at' = "postSell" /\ then' = then
         \/ at' = "drain" /\ then' = "cancelBuy"
         \/ at' = "drain" /\ then' = "noise" /\ noise < NEvents
  BY PostFrame
<1>2. EngineOK'
  BY <1>1 DEF EngineOK
<1>3. CASE prices[s] = PRICE_INVALID
  <2>1. UNCHANGED <<submitted, inbound, mm, quotes, nextId>>
    BY <1>3, PostFrame
  <2>2. AccountOK' /\ OpenIds' /\ QueuesOK' /\ ThreadOK'
    BY <1>1, <2>1 DEF AccountOK, OpenIds, QueuesOK, ThreadOK, Places
  <2>3. Counting'
    BY <1>1, <2>1, <2>2, CountingKept DEF ThreadOK
  <2> QED BY <1>2, <2>2, <2>3
<1>4. CASE prices[s] # PRICE_INVALID
  <2>1. /\ Submit(NewLimit(nextId, s, prices[s], QuoteQty))
        /\ NewLimit(nextId, s, prices[s], QuoteQty) \in Messages
        /\ mm' = RegisterOrder(mm, nextId, s)
        /\ quotes' = [quotes EXCEPT ![s] = nextId]
        /\ nextId' = nextId + 1
    BY <1>4, PostFrame
  <2>2. QueuesOK' /\ Len(inbound') = Len(inbound) + 1 /\ submitted' = submitted + 1
    BY <1>1, <2>1, Submitted
  <2>3. /\ mm' \in Accounts /\ mm'.position = mm.position /\ mm'.avg_cost = mm.avg_cost
        /\ mm'.realized = mm.realized /\ DOMAIN mm'.open = DOMAIN mm.open \cup {nextId}
    BY <2>1, Registered DEF ThreadOK, AccountOK
  <2>4. AccountOK'
    BY <1>1, <2>3 DEF AccountOK
  <2>5. nextId \in Nat /\ nextId > NEvents /\ NEvents \in Nat
    BY Constants DEF ThreadOK
  <2>6. \A id \in DOMAIN mm.open : id \in Nat
    BY OpenOrders DEF AccountOK, Accounts
  <2>7. OpenIds'
    BY <2>1, <2>3, <2>5, <2>6 DEF OpenIds
  <2>8. ThreadOK'
    BY <1>1, <2>1, <2>5 DEF ThreadOK, Quantities, Places
  <2>9. Counting'
    BY <1>1, <2>2, <2>8, CountingKept DEF ThreadOK
  <2> QED BY <1>2, <2>2, <2>4, <2>7, <2>8, <2>9
<1> QED BY <1>3, <1>4

\* What drain_reports() leaves of the report queue.
LEMMA DrainFrame ==
  ASSUME Typed, Drain
  PROVE  /\ at \in {"drain", "tail"} /\ Len(outbound) \in Nat /\ Len(outbound) > 0
         /\ DOMAIN outbound = 1..Len(outbound)
         /\ outbound[1] \in Entries /\ outbound[1].rpt \in Reports /\ Head(outbound) = outbound[1]
         /\ mm' = OnFill(mm, outbound[1].rpt)
         /\ outbound' \in Seq(Entries) /\ Len(outbound') = Len(outbound) - 1
         /\ DOMAIN outbound' = 1..(Len(outbound) - 1)
         /\ \A k \in DOMAIN outbound' : outbound'[k] = outbound[k + 1]
         /\ UNCHANGED <<at, then, closing, noise, quotes, prices, nextId, late,
                        engine, processed, book, dropped, traded, submitted, inbound>>
<1>1. outbound \in Seq(Entries) /\ outbound # <<>> /\ outbound' = Tail(outbound)
  BY DEF Drain, Typed, QueuesOK
<1>2. /\ Len(outbound) \in Nat /\ Len(outbound) > 0 /\ DOMAIN outbound = 1..Len(outbound)
      /\ Head(outbound) = outbound[1]
  BY <1>1, LenProperties, EmptySeq
<1>3. outbound[1] \in Entries
  BY <1>1, <1>2, ElementOfSeq
<1>4. outbound[1].rpt \in Reports
  BY <1>3 DEF Entries
<1>5. /\ outbound' \in Seq(Entries) /\ Len(outbound') = Len(outbound) - 1
      /\ \A k \in 1..(Len(outbound) - 1) : outbound'[k] = outbound[k + 1]
  BY <1>1, <1>2, HeadTailProperties
<1>6. DOMAIN outbound' = 1..(Len(outbound) - 1)
  BY <1>5, LenProperties
<1>7. mm' = OnFill(mm, Head(outbound).rpt) /\ at \in {"drain", "tail"}
  BY DEF Drain
<1>8. UNCHANGED <<at, then, closing, noise, quotes, prices, nextId, late,
                  engine, processed, book, dropped, traded, submitted, inbound>>
  BY DEF Drain, thread, engineVars
<1> QED BY <1>2, <1>3, <1>4, <1>5, <1>6, <1>7, <1>8

\* on_fill() keeps the types.
LEMMA DrainTyped ==
  ASSUME Typed, Drain
  PROVE  Typed'
<1> USE DEF Typed
<1> DEFINE rpt == outbound[1].rpt
           signed == mm'.position - mm.position
<1>1. /\ at \in {"drain", "tail"} /\ rpt \in Reports /\ mm' = OnFill(mm, rpt)
      /\ outbound' \in Seq(Entries) /\ Len(outbound') = Len(outbound) - 1 /\ Len(outbound) \in Nat
      /\ UNCHANGED <<at, then, noise, quotes, prices, nextId, engine, processed, book, traded,
                     submitted, inbound>>
  BY DrainFrame
<1>2. Head(outbound) = outbound[1]
  BY DrainFrame
<1>3. /\ lastTrade' = rpt.exec_price
      /\ booked' = [booked EXCEPT ![IF signed > 0 THEN "Buy" ELSE "Sell"] = @ + Magnitude(signed)]
      /\ cash' = cash - signed * rpt.exec_price
  BY <1>2 DEF Drain
<1>4. cash \in Int /\ mm \in Accounts
  BY DEF AccountOK
<1> HIDE DEF rpt
<1>5. /\ mm' \in Accounts /\ DOMAIN mm'.open \subseteq DOMAIN mm.open
  BY <1>1, <1>4, OnFillAccount
<1>6. signed \in Int /\ rpt.exec_price \in Int
  BY <1>1, <1>4, <1>5 DEF Accounts, Reports
<1>7. Magnitude(signed) \in Nat
  BY <1>6, MagnitudeType
<1>8. AccountOK'
  <2> HIDE DEF signed
  <2>1. booked' \in Quantities
    BY <1>3, <1>7 DEF AccountOK, Quantities, BookSides
  <2>2. signed * rpt.exec_price \in Int
    BY <1>6
  <2>3. cash' \in Int /\ lastTrade' \in Int
    BY <1>3, <1>4, <1>6, <1>7, <2>2
  <2> QED BY <1>5, <2>1, <2>3 DEF AccountOK
<1>9. OpenIds'
  BY <1>1, <1>5 DEF OpenIds
<1>10. EngineOK' /\ ThreadOK'
  BY <1>1 DEF EngineOK, ThreadOK
<1>11. QueuesOK'
  BY <1>1, Constants DEF QueuesOK
<1>12. Counting'
  BY <1>1, <1>10, CountingKept DEF ThreadOK
<1> QED BY <1>8, <1>9, <1>10, <1>11, <1>12

----------------------------------------------------------------------------
(***************************************************************************)
(* The engine's steps.                                                     *)
(***************************************************************************)
\* The order a message brings.
OrderIn(m) == [id |-> m.order_id, side |-> m.side, price |-> m.price, qty |-> m.qty]

\* What Pop() takes, and what it does with it.
TakesOrder ==
  /\ inbound[1] \in NewOrders /\ book' = book /\ processed' = processed
  /\ engine'.at = "match" /\ engine'.order = OrderIn(inbound[1])
  /\ engine' \in [at: {"pop", "match"}, order: Orders]

TakesCancel ==
  /\ inbound[1] \in Cancels /\ engine' = Polling
  /\ book' = CancelOrder(book, inbound[1].order_id)
  /\ processed' = processed + 1 \/ (at = "stop" /\ processed' = processed)

\* try_pop() takes the oldest message, and the engine is idle before.
LEMMA PopFrame ==
  ASSUME Typed, Pop
  PROVE  /\ engine = Polling /\ Len(inbound) \in Nat /\ Len(inbound) > 0
         /\ DOMAIN inbound = 1..Len(inbound) /\ inbound[1] \in Messages
         /\ inbound' \in Seq(Messages) /\ Len(inbound') = Len(inbound) - 1
         /\ DOMAIN inbound' = 1..(Len(inbound) - 1)
         /\ \A k \in DOMAIN inbound' : inbound'[k] = inbound[k + 1]
         /\ TakesOrder \/ TakesCancel
         /\ UNCHANGED <<at, then, closing, noise, quotes, prices, nextId, late, mm, lastTrade, booked,
                        cash, dropped, traded, submitted, outbound>>
<1>1. /\ inbound \in Seq(Messages) /\ inbound # <<>> /\ inbound' = Tail(inbound)
      /\ engine = Polling
  BY DEF Pop, Typed, QueuesOK, EngineOK
<1>2. /\ Len(inbound) \in Nat /\ Len(inbound) > 0 /\ DOMAIN inbound = 1..Len(inbound)
      /\ Head(inbound) = inbound[1]
  BY <1>1, LenProperties, EmptySeq
<1>3. inbound[1] \in Messages
  BY <1>1, <1>2, ElementOfSeq
<1>4. /\ inbound' \in Seq(Messages) /\ Len(inbound') = Len(inbound) - 1
      /\ \A k \in 1..(Len(inbound) - 1) : inbound'[k] = inbound[k + 1]
  BY <1>1, <1>2, HeadTailProperties
<1>5. DOMAIN inbound' = 1..(Len(inbound) - 1)
  BY <1>4, LenProperties
<1>6. /\ engine' = InHand(inbound[1]) /\ book' = Amended(book, inbound[1])
      /\ IF engine'.at = "pop" THEN CountMessage ELSE UNCHANGED processed
  BY <1>2 DEF Pop
<1>7. ASSUME inbound[1] \in NewOrders PROVE TakesOrder
  <2>1. inbound[1].msg_type = "NewOrder"
    BY <1>7 DEF NewOrders
  <2>2. engine' = [at |-> "match", order |-> OrderIn(inbound[1])] /\ book' = book
    BY <1>6, <2>1 DEF InHand, Amended, OrderIn
  <2>3. OrderIn(inbound[1]) \in Orders
    BY <1>7 DEF NewOrders, Orders, OrderIn
  <2>4. engine'.at = "match" /\ engine'.order = OrderIn(inbound[1])
        /\ engine' \in [at: {"pop", "match"}, order: Orders]
    BY <2>2, <2>3
  <2> QED BY <1>6, <1>7, <2>2, <2>4 DEF TakesOrder
<1>8. ASSUME inbound[1] \in Cancels PROVE TakesCancel
  <2>1. inbound[1].msg_type = "CancelOrder"
    BY <1>8 DEF Cancels
  <2>2. engine' = Polling /\ book' = CancelOrder(book, inbound[1].order_id)
    BY <1>6, <2>1 DEF InHand, Amended
  <2>3. engine'.at = "pop"
    BY <2>2 DEF Polling
  <2>4. processed' = processed + 1 \/ (at = "stop" /\ processed' = processed)
    BY <1>6, <2>3 DEF CountMessage
  <2> QED BY <1>8, <2>2, <2>4 DEF TakesCancel
<1>9. UNCHANGED <<at, then, closing, noise, quotes, prices, nextId, late, mm, lastTrade, booked,
                  cash, dropped, traded, submitted, outbound>>
  BY DEF Pop, thread, account
<1>10. inbound[1] \in NewOrders \/ inbound[1] \in Cancels
  BY <1>3 DEF Messages
<1> QED BY <1>1, <1>2, <1>3, <1>4, <1>5, <1>7, <1>8, <1>9, <1>10

\* An idle engine has no order in hand.
LEMMA PollingType ==
  /\ Polling \in [at: {"pop", "match"}, order: Orders] /\ Polling.at = "pop"
  /\ Polling.order.id = 0 /\ Polling.order.qty = 0
BY DEF Polling, NoOrder, Orders, BookSides

\* Taking a message keeps the types and the count.
LEMMA PopTyped ==
  ASSUME Typed, Pop
  PROVE  Typed'
<1> USE DEF Typed, TakesOrder, TakesCancel
<1>1. /\ engine = Polling /\ Len(inbound) \in Nat /\ Len(inbound) > 0
      /\ inbound' \in Seq(Messages) /\ Len(inbound') = Len(inbound) - 1
      /\ UNCHANGED <<at, then, noise, quotes, prices, nextId, mm, lastTrade, booked,
                     cash, traded, submitted, outbound>>
  BY PopFrame
<1>2. AccountOK' /\ OpenIds' /\ ThreadOK'
  BY <1>1 DEF AccountOK, OpenIds, ThreadOK
<1>3. QueuesOK'
  BY <1>1, Constants DEF QueuesOK
<1>4. processed \in Nat /\ submitted \in Nat /\ InHandCount = 0
  BY <1>1, PollingType DEF EngineOK, QueuesOK, InHandCount
<1>5. CASE TakesOrder
  <2>1. EngineOK'
    BY <1>1, <1>5 DEF EngineOK
  <2>2. InHandCount' = 1
    BY <1>5 DEF InHandCount
  <2>3. Counting'
    BY <1>1, <1>4, <1>5, <2>2 DEF Counting
  <2> QED BY <1>2, <1>3, <2>1, <2>3
<1>6. CASE TakesCancel
  <2>1. book \in Seq(Orders) /\ \A j \in DOMAIN book : book[j].qty > 0
    BY DEF EngineOK
  <2>2. book' \in Seq(Orders)
    BY <1>6, <2>1, CancelThins
  <2>3. PICK g : Thinned(book', book, g) /\ \A j \in DOMAIN book' : book'[j] = book[g[j]]
    BY <1>6, <2>1, CancelThins
  <2>4. \A j \in DOMAIN book' : book'[j].qty > 0
    BY <2>1, <2>3 DEF Thinned
  <2>5. processed' \in Nat
    BY <1>4, <1>6
  <2>6. EngineOK'
    BY <1>1, <1>6, <2>2, <2>4, <2>5, PollingType DEF EngineOK
  <2>7. InHandCount' = 0
    BY <1>6, PollingType DEF InHandCount
  <2>8. Counting'
    BY <1>1, <1>4, <1>6, <2>7 DEF Counting
  <2> QED BY <1>2, <1>3, <2>6, <2>8
<1> QED BY <1>5, <1>6, PopFrame

\* What an execution takes, and what it reports.
ReportQty(rpt, s) ==
  IF (IsOurs(rpt.order_id) /\ rpt.side = s) \/ (IsOurs(rpt.contra_order_id) /\ Other(rpt.side) = s)
  THEN rpt.exec_qty ELSE 0

\* The entry an execution makes in the report queue.
Appended(entry) ==
  /\ outbound' \in Seq(Entries) /\ Len(outbound') = Len(outbound) + 1
  /\ Len(outbound) < OutboundBound
  /\ DOMAIN outbound' = 1..(Len(outbound) + 1)
  /\ outbound'[Len(outbound) + 1] = entry
  /\ \A k \in DOMAIN outbound : outbound'[k] = outbound[k]

\* What one round of try_match() changes, and what it reports.
LEMMA ExecuteFrame ==
  ASSUME Typed, Execute
  PROVE  /\ engine.at = "match" /\ engine.order \in Orders
         /\ Len(outbound) \in Nat /\ DOMAIN outbound = 1..Len(outbound)
         /\ \E i \in DOMAIN book, qty \in Nat, rpt \in Reports :
              /\ i \in Opposite(book, engine.order) /\ book[i] \in Orders
              /\ qty > 0 /\ qty <= engine.order.qty /\ qty = FillQty(book, engine.order, i)
              /\ rpt.order_id = engine.order.id /\ rpt.contra_order_id = book[i].id
              /\ rpt.side = engine.order.side /\ rpt.exec_qty = qty
              /\ book[i].side = Other(engine.order.side)
              /\ book' = Hit(book, engine.order, i)
              /\ engine' \in [at: {"pop", "match"}, order: Orders] /\ engine'.at = "match"
              /\ engine'.order.qty = engine.order.qty - qty
              /\ engine'.order.id = engine.order.id /\ engine'.order.side = engine.order.side
              /\ engine'.order.price = engine.order.price
              /\ traded' \in Quantities
              /\ \A s \in BookSides : traded'[s] = traded[s] + ReportQty(rpt, s)
              /\ \/ Appended([rpt |-> rpt, traded |-> traded']) /\ dropped' = dropped
                 \/ outbound' = outbound /\ Len(outbound) >= OutboundBound /\ dropped' = TRUE
         /\ UNCHANGED <<at, then, closing, noise, quotes, prices, nextId, late, mm, lastTrade, booked,
                        cash, processed, submitted, inbound>>
<1> DEFINE o == engine.order
<1>1. engine.at = "match" /\ engine \in [at: {"pop", "match"}, order: Orders] /\ o \in Orders
  BY DEF Execute, Typed, EngineOK
<1>2. outbound \in Seq(Entries) /\ book \in Seq(Orders) /\ \A j \in DOMAIN book : book[j].qty > 0
  BY DEF Typed, QueuesOK, EngineOK
<1>3. Len(outbound) \in Nat /\ DOMAIN outbound = 1..Len(outbound)
  BY <1>2, LenProperties
<1>4. PICK i \in Best(book, o) :
        LET qty == FillQty(book, engine.order, i)
            rpt == ExecutionReport(book, engine.order, i)
        IN /\ book' = Hit(book, engine.order, i)
           /\ engine' = [engine EXCEPT !.order.qty = @ - qty]
           /\ traded' = [s \in BookSides |-> traded[s] + OurQty(engine.order, book[i], qty, s)]
           /\ IF Len(outbound) < OutboundBound
              THEN outbound' = Append(outbound, [rpt |-> rpt, traded |-> traded']) /\ UNCHANGED dropped
              ELSE dropped' = TRUE /\ UNCHANGED outbound
  BY DEF Execute
<1> DEFINE qty == FillQty(book, o, i)
           rpt == ExecutionReport(book, o, i)
<1>5. i \in Opposite(book, o)
  BY DEF Best
<1>6. i \in DOMAIN book /\ o.qty > 0 /\ book[i].side = Other(o.side)
  BY <1>5 DEF Opposite
<1>7. book[i] \in Orders
  BY <1>2, <1>6, LenProperties, ElementOfSeq
<1>8. qty \in Nat /\ qty > 0 /\ qty <= o.qty
  BY <1>1, <1>2, <1>6, FillBounds
<1>9. /\ rpt.order_id = o.id /\ rpt.contra_order_id = book[i].id /\ rpt.side = o.side
      /\ rpt.exec_qty = qty /\ rpt.leaves_qty = o.qty - qty /\ rpt.exec_price = book[i].price
      /\ rpt = [order_id |-> o.id, contra_order_id |-> book[i].id, exec_price |-> book[i].price,
                exec_qty |-> qty, leaves_qty |-> o.qty - qty, side |-> o.side]
  BY DEF ExecutionReport
<1>10. rpt \in Reports
  <2>1. o.qty - qty \in Nat
    BY <1>1, <1>8 DEF Orders
  <2> HIDE DEF rpt, qty
  <2> QED BY <1>1, <1>7, <1>8, <1>9, <2>1 DEF Reports, Orders
<1>11. \A s \in BookSides : OurQty(o, book[i], qty, s) = ReportQty(rpt, s)
  <2> HIDE DEF rpt, qty
  <2> QED BY <1>6, <1>9 DEF OurQty, ReportQty
<1>12. /\ engine' \in [at: {"pop", "match"}, order: Orders] /\ engine'.at = "match"
       /\ engine'.order.qty = o.qty - qty /\ engine'.order.id = o.id
       /\ engine'.order.side = o.side /\ engine'.order.price = o.price
  <2>1. o.qty - qty \in Nat
    BY <1>1, <1>8 DEF Orders
  <2>2. engine' = [engine EXCEPT !.order.qty = o.qty - qty]
    BY <1>4
  <2> HIDE DEF qty
  <2> QED BY <1>1, <2>1, <2>2 DEF Orders
<1>13. \A s \in BookSides : ReportQty(rpt, s) \in Nat
  <2> HIDE DEF rpt
  <2> QED BY <1>10 DEF ReportQty, Reports
<1>14. /\ traded' \in Quantities
       /\ \A s \in BookSides : traded'[s] = traded[s] + ReportQty(rpt, s)
  <2>1. traded' = [s \in BookSides |-> traded[s] + OurQty(o, book[i], qty, s)] /\ traded \in Quantities
    BY <1>4 DEF Typed, EngineOK
  <2> HIDE DEF qty, rpt
  <2> QED BY <1>11, <1>13, <2>1 DEF Quantities
<1>15. \/ Appended([rpt |-> rpt, traded |-> traded']) /\ dropped' = dropped
       \/ outbound' = outbound /\ Len(outbound) >= OutboundBound /\ dropped' = TRUE
  <2>1. CASE Len(outbound) < OutboundBound
    <3>1. outbound' = Append(outbound, [rpt |-> rpt, traded |-> traded']) /\ dropped' = dropped
      BY <1>4, <2>1
    <3> HIDE DEF rpt
    <3>2. [rpt |-> rpt, traded |-> traded'] \in Entries
      BY <1>10, <1>14 DEF Entries
    <3>3. /\ outbound' \in Seq(Entries) /\ Len(outbound') = Len(outbound) + 1
          /\ outbound'[Len(outbound) + 1] = [rpt |-> rpt, traded |-> traded']
          /\ \A k \in 1..Len(outbound) : outbound'[k] = outbound[k]
      BY <1>2, <3>1, <3>2, AppendProperties
    <3>4. DOMAIN outbound' = 1..(Len(outbound) + 1)
      BY <3>3, LenProperties
    <3> QED BY <1>3, <2>1, <3>1, <3>3, <3>4 DEF Appended
  <2>2. CASE ~(Len(outbound) < OutboundBound)
    <3>1. dropped' = TRUE /\ outbound' = outbound
      BY <1>4, <2>2, Zenon
    <3>2. Len(outbound) >= OutboundBound
      BY <1>3, <2>2, Constants
    <3> QED BY <3>1, <3>2
  <2> QED BY <2>1, <2>2
<1>16. UNCHANGED <<at, then, closing, noise, quotes, prices, nextId, late, mm, lastTrade, booked,
                   cash, processed, submitted, inbound>>
  BY DEF Execute, thread, account
<1>17. book' = Hit(book, o, i)
  BY <1>4
<1> HIDE DEF qty, rpt
<1>18. qty = FillQty(book, engine.order, i)
  BY DEF qty
<1> QED BY <1>1, <1>3, <1>5, <1>6, <1>7, <1>8, <1>9, <1>10, <1>12, <1>14, <1>15, <1>16, <1>17, <1>18

----------------------------------------------------------------------------
(***************************************************************************)
(* Type correctness and the accounts, always.                              *)
(***************************************************************************)
\* An execution keeps the types and the count.
LEMMA ExecuteTyped ==
  ASSUME Typed, Execute
  PROVE  Typed'
<1> USE DEF Typed
<1>1. /\ engine.at = "match" /\ Len(outbound) \in Nat
      /\ UNCHANGED <<at, then, closing, noise, quotes, prices, nextId, late, mm, lastTrade, booked,
                     cash, processed, submitted, inbound>>
  BY ExecuteFrame
<1>2. PICK i \in DOMAIN book, qty \in Nat, rpt \in Reports :
        /\ engine.order \in Orders /\ qty > 0 /\ qty <= engine.order.qty
        /\ book' = Hit(book, engine.order, i)
        /\ engine' \in [at: {"pop", "match"}, order: Orders] /\ engine'.at = "match"
        /\ traded' \in Quantities
        /\ Appended([rpt |-> rpt, traded |-> traded']) \/ outbound' = outbound
  BY ExecuteFrame
<1>3. AccountOK' /\ OpenIds' /\ ThreadOK'
  BY <1>1 DEF AccountOK, OpenIds, ThreadOK
<1>4. QueuesOK'
  BY <1>1, <1>2, Constants DEF QueuesOK, Appended
<1>5. book \in Seq(Orders) /\ \A j \in DOMAIN book : book[j].qty > 0
  BY DEF EngineOK
<1>6. engine.order.qty > 0
  BY <1>2 DEF Orders
<1>7. book' \in Seq(Orders) /\ \A j \in DOMAIN book' : book'[j].qty > 0
  BY <1>2, <1>5, <1>6, HitThins
<1>8. EngineOK'
  BY <1>1, <1>2, <1>7 DEF EngineOK
<1>9. InHandCount' = InHandCount
  BY <1>1, <1>2 DEF InHandCount
<1>10. Counting'
  BY <1>1, <1>9 DEF Counting
<1> QED BY <1>3, <1>4, <1>8, <1>10

\* Count(): the order in hand joins the book, or is gone.
Joins ==
  /\ engine.order.qty > 0
  /\ book' \in Seq(Orders) /\ DOMAIN book' = 1..(Len(book) + 1)
  /\ book'[Len(book) + 1] = engine.order
  /\ \A j \in DOMAIN book : book'[j] = book[j]

\* What the end of process_message() changes.
LEMMA CountFrame ==
  ASSUME Typed, Count
  PROVE  /\ engine.at = "match" /\ engine.order \in Orders /\ engine' = Polling
         /\ Len(book) \in Nat /\ DOMAIN book = 1..Len(book)
         /\ book' = book \/ Joins
         /\ processed' = processed + 1 \/ (at = "stop" /\ processed' = processed)
         /\ UNCHANGED <<at, then, closing, noise, quotes, prices, nextId, late, mm, lastTrade, booked,
                        cash, dropped, traded, submitted, inbound, outbound>>
<1>1. engine.at = "match" /\ engine.order \in Orders /\ engine' = Polling /\ book \in Seq(Orders)
  BY DEF Count, Typed, EngineOK
<1>2. Len(book) \in Nat /\ DOMAIN book = 1..Len(book)
  BY <1>1, LenProperties
<1>3. book' = book \/ (engine.order.qty > 0 /\ book' = Append(book, engine.order))
  BY DEF Count, Rested
<1>4. book' = book \/ Joins
  <2> SUFFICES ASSUME engine.order.qty > 0, book' = Append(book, engine.order)
               PROVE  Joins
    BY <1>3
  <2>1. /\ book' \in Seq(Orders) /\ Len(book') = Len(book) + 1
        /\ book'[Len(book) + 1] = engine.order /\ \A j \in 1..Len(book) : book'[j] = book[j]
    BY <1>1, AppendProperties
  <2>2. DOMAIN book' = 1..(Len(book) + 1)
    BY <2>1, LenProperties
  <2> QED BY <1>2, <2>1, <2>2 DEF Joins
<1>5. processed' = processed + 1 \/ (at = "stop" /\ processed' = processed)
  BY DEF Count, CountMessage
<1>6. UNCHANGED <<at, then, closing, noise, quotes, prices, nextId, late, mm, lastTrade, booked,
                  cash, dropped, traded, submitted, inbound, outbound>>
  BY DEF Count, thread, account
<1> QED BY <1>1, <1>2, <1>4, <1>5, <1>6

\* It keeps the types and the count.
LEMMA CountTyped ==
  ASSUME Typed, Count
  PROVE  Typed'
<1> USE DEF Typed
<1>1. /\ engine.at = "match" /\ engine' = Polling /\ Len(book) \in Nat /\ DOMAIN book = 1..Len(book)
      /\ book' = book \/ Joins
      /\ processed' = processed + 1 \/ (at = "stop" /\ processed' = processed)
      /\ UNCHANGED <<at, then, closing, noise, quotes, prices, nextId, late, mm, lastTrade, booked,
                     cash, traded, submitted, inbound, outbound>>
  BY CountFrame
<1>2. AccountOK' /\ OpenIds' /\ ThreadOK' /\ QueuesOK'
  BY <1>1 DEF AccountOK, OpenIds, ThreadOK, QueuesOK
<1>3. book' \in Seq(Orders) /\ \A j \in DOMAIN book' : book'[j].qty > 0
  <2>1. CASE book' = book
    BY <2>1 DEF EngineOK
  <2>2. CASE Joins
    BY <1>1, <2>2 DEF EngineOK, Joins
  <2> QED BY <1>1, <2>1, <2>2
<1>4. processed \in Nat /\ submitted \in Nat /\ InHandCount = 1 /\ InHandCount' = 0 /\ Len(inbound) \in Nat
  BY <1>1, PollingType, LenProperties DEF EngineOK, QueuesOK, InHandCount
<1>5. processed' \in Nat
  BY <1>1, <1>4
<1>6. EngineOK'
  BY <1>1, <1>3, <1>5, PollingType DEF EngineOK
<1>7. Counting'
  BY <1>1, <1>4 DEF Counting
<1> QED BY <1>2, <1>6, <1>7

\* The demo starts well-typed, with nothing counted and nothing booked.
LEMMA InitTyped ==
  ASSUME Init
  PROVE  Typed
<1>1. NewMarketMaker \in Accounts /\ NewMarketMaker.open = <<>>
  <2>1. <<>> \in Opens
    <3>1. DOMAIN <<>> = {}
      OBVIOUS
    <3>2. <<>> \in [DOMAIN <<>> -> BookSides]
      BY <3>1
    <3> QED BY <3>1, <3>2, OpenOrders
  <2> QED BY <2>1 DEF NewMarketMaker, Accounts
<1>2. ThreadOK
  BY Constants DEF Init, ThreadOK, Places, Quantities
<1>3. AccountOK
  BY <1>1, Constants DEF Init, AccountOK, Quantities
<1>4. EngineOK
  BY PollingType, EmptySeq DEF Init, EngineOK, Quantities
<1>5. QueuesOK
  BY Constants, EmptySeq DEF Init, QueuesOK
<1>6. OpenIds
  BY <1>1 DEF Init, OpenIds
<1>7. Counting
  BY PollingType, EmptySeq DEF Init, Counting, InHandCount
<1> QED BY <1>2, <1>3, <1>4, <1>5, <1>6, <1>7 DEF Typed

\* A step that changes nothing keeps all that.
LEMMA StutterTyped ==
  ASSUME Typed, UNCHANGED vars
  PROVE  Typed'
BY DEF Typed, vars, thread, account, engineVars, ThreadOK, AccountOK, EngineOK,
       QueuesOK, OpenIds, Counting, InHandCount

\* Every step keeps the types and the count.
LEMMA NextTyped ==
  ASSUME Typed, [Next]_vars
  PROVE  Typed'
<1>1. CASE Demo
  <2>1. CASE \E s \in BookSides : Cancel(s) \/ Post(s)
    BY <2>1, CancelTyped, PostTyped
  <2>2. CASE Noise \/ Drain \/ MakeQuote
    BY <2>2, NoiseTyped, DrainTyped, MakeQuoteTyped
  <2>3. CASE Moves
    BY <2>3, MovesTyped
  <2> QED BY <1>1, <2>1, <2>2, <2>3 DEF Demo, Moves
<1>2. CASE Pop \/ Execute \/ Count
  BY <1>2, PopTyped, ExecuteTyped, CountTyped
<1>3. CASE Done \/ UNCHANGED vars
  BY <1>3, StutterTyped DEF Done
<1> QED BY <1>1, <1>2, <1>3 DEF Next

\* Types and count hold always.
LEMMA TypedAlways == Spec => []Typed
<1>1. Init => Typed
  BY InitTyped
<1>2. Typed /\ [Next]_vars => Typed'
  BY NextTyped
<1> QED BY <1>1, <1>2, PTL DEF Spec

\* The three flags are Boolean always.
LEMMA FlagsAlways == Spec => []Flags
<1>1. Init => Flags
  BY DEF Init, Flags
<1>2. ASSUME Flags, [Next]_vars
      PROVE  Flags'
  <2>1. closing' \in BOOLEAN
    BY <1>2, Zenon DEF Flags, Next, Demo, Noise, Drain, Drained, CaughtUp, TimeOut, MakeQuote, TailOver, Stop,
       Cancel, Post, Pop, Execute, Count, Done, vars, thread
  <2>2. late' \in BOOLEAN
    BY <1>2, Zenon DEF Flags, Next, Demo, Noise, Drain, Drained, CaughtUp, TimeOut, MakeQuote, TailOver, Stop,
       Cancel, Post, Pop, Execute, Count, Done, vars, thread
  <2>3. dropped' \in BOOLEAN
    BY <1>2, Zenon DEF Flags, Next, Demo, Noise, Drain, Drained, CaughtUp, TimeOut, MakeQuote, TailOver, Stop,
       Cancel, Post, Pop, Execute, Count, Done, vars, engineVars
  <2> QED BY <2>1, <2>2, <2>3 DEF Flags
<1> QED BY <1>1, <1>2, PTL DEF Spec

\* Types always hold, the queues never pass their capacities, and the engine never counts
\* more messages than were submitted.
THEOREM TypeCorrect == Spec => []TypeOK
<1>1. Typed /\ Flags => TypeOK
  <2> SUFFICES ASSUME Typed, Flags PROVE TypeOK
    OBVIOUS
  <2>1. {closing, late, dropped} \subseteq BOOLEAN
    BY DEF Flags
  <2>2. {mm.position, mm.avg_cost, mm.realized, cash} \subseteq Int /\ mm.open \in Opens
    BY DEF Typed, AccountOK, Accounts
  <2>3. \A id \in DOMAIN mm.open : id > NEvents /\ id < nextId /\ mm.open[id] \in BookSides
    BY <2>2, OpenOrders DEF Typed, OpenIds
  <2>4. processed <= submitted
    <3>1. processed \in Nat /\ Len(inbound) \in Nat /\ InHandCount \in Nat /\ submitted \in Nat
      BY LenProperties DEF Typed, EngineOK, QueuesOK, InHandCount
    <3> QED BY <3>1 DEF Typed, Counting
  <2>5. noise \in 0..NEvents
    BY Constants DEF Typed, ThreadOK
  <2> QED BY <2>1, <2>2, <2>3, <2>4, <2>5 DEF TypeOK, Typed, ThreadOK, Places, QueuesOK
<1> QED BY <1>1, TypedAlways, FlagsAlways, PTL

\* A step of the demo explains its change of the profit.
StepExplained ==
  Unexplained' # Unexplained =>
    /\ mm.position * (mm'.position - mm.position) > 0
    /\ Magnitude(Unexplained' - Unexplained) < Magnitude(mm'.position)

\* Unexplained is the error of the market maker and the money it has taken in.
LEMMA UnexplainedError ==
  Unexplained = Error(mm, cash) /\ Unexplained' = Error(mm', cash')
BY DEF Unexplained, Error

\* A report that is read is explained.
LEMMA DrainExplained ==
  ASSUME Typed, Drain
  PROVE  StepExplained
<1> DEFINE rpt == outbound[1].rpt
           signed == mm'.position - mm.position
<1>1. rpt \in Reports /\ mm' = OnFill(mm, rpt) /\ Head(outbound) = outbound[1]
  BY DrainFrame
<1>2. cash' = cash - signed * rpt.exec_price
  BY <1>1 DEF Drain
<1>3. cash \in Int /\ mm \in Accounts
  BY DEF Typed, AccountOK
<1> HIDE DEF rpt
<1>4. Explained(mm, mm', signed, rpt.exec_price, cash)
  BY <1>1, <1>3, OnFillAccount
<1>5. Error(mm', cash') = Error(mm', cash - signed * rpt.exec_price)
  BY <1>2
<1> QED BY <1>4, <1>5, UnexplainedError DEF Explained, StepExplained

\* No other step touches position, average cost, profit or cash.
LEMMA OthersExplained ==
  ASSUME Typed, [Next]_vars, ~Drain
  PROVE  Unexplained' = Unexplained
<1>1. cash' = cash /\ mm'.position = mm.position /\ mm'.avg_cost = mm.avg_cost /\ mm'.realized = mm.realized
  <2>1. CASE \E s \in BookSides : Post(s)
    <3>1. PICK s \in BookSides : Post(s)
      BY <2>1
    <3>2. cash' = cash /\ (mm' = mm \/ mm' = RegisterOrder(mm, nextId, s))
      BY <3>1 DEF Post
    <3>3. nextId \in Nat /\ mm \in Accounts
      BY DEF Typed, ThreadOK, AccountOK
    <3> QED BY <3>2, <3>3, Registered
  <2>2. CASE ~\E s \in BookSides : Post(s)
    <3>1. mm' = mm /\ cash' = cash
      BY <2>2 DEF Next, Demo, Noise, Drained, CaughtUp, TimeOut, MakeQuote, TailOver, Stop, Cancel,
                  Pop, Execute, Count, Done, vars, account
    <3> QED BY <3>1
  <2> QED BY <2>1, <2>2
<1> QED BY <1>1 DEF Unexplained

\* Whatever the fills, profit changes by their cash flow: opening, reducing, closing and
\* reversing a position lose nothing, and adding to one less than a unit of price per unit
\* of it, the remainder of the division in apply_fill().
THEOREM ProfitIsKept == Spec => ProfitIsCashFlow
<1>1. ASSUME Typed, [Next]_vars
      PROVE  StepExplained
  <2>1. CASE Drain
    BY <1>1, <2>1, DrainExplained
  <2>2. CASE ~Drain
    BY <1>1, <2>2, OthersExplained DEF StepExplained
  <2> QED BY <2>1, <2>2
<1>2. Typed /\ [Next]_vars => [StepExplained]_vars
  BY <1>1
<1>3. [][StepExplained]_vars => ProfitIsCashFlow
  BY DEF StepExplained, ProfitIsCashFlow
<1> QED BY <1>2, <1>3, TypedAlways, PTL DEF Spec

----------------------------------------------------------------------------
(***************************************************************************)
(* The orders of ours that the engine still has to do with.                *)
(***************************************************************************)
\* An order of ours the engine still has to do with: in the book or in its
\* hand (k = 0), or the k-th message of its queue.
Ours(k, o) ==
  /\ IsOurs(o.id)
  /\ \/ k = 0 /\ (o = engine.order \/ \E i \in DOMAIN book : o = book[i])
     \/ k \in DOMAIN inbound /\ inbound[k] \in NewOrders /\ o = OrderIn(inbound[k])

Withdraws(m, id) == inbound[m] \in Cancels /\ inbound[m].order_id = id

\* A cancel follows the order; a cancel lies between it and position l.
Covered(k, o) == \E m \in DOMAIN inbound : m > k /\ Withdraws(m, o.id)
Between(k, o, l) == \E m \in DOMAIN inbound : m > k /\ m < l /\ Withdraws(m, o.id)

\* Our ids grow from the oldest order in the book to the hand ...
BookAscending ==
  /\ \A i, j \in DOMAIN book :
       i < j /\ IsOurs(book[i].id) /\ IsOurs(book[j].id) => book[i].id < book[j].id
  /\ \A i \in DOMAIN book :
       IsOurs(book[i].id) /\ IsOurs(engine.order.id) => book[i].id < engine.order.id

\* ... and on towards the end of the queue.
QueueAscending ==
  /\ \A k, l \in Nat, o, p \in Orders : Ours(k, o) /\ Ours(l, p) /\ k < l => o.id < p.id
  /\ \A k \in Nat, o \in Orders : Ours(k, o) => o.id < nextId

\* Where an order comes from: d messages have been taken from the queue.
From(k, o, l, p, d) ==
  /\ Ours(l, p) /\ Same(o, p)
  /\ l = k + d \/ (l = 0 /\ k = 0)
  /\ d = 1 /\ l = 0 => ~Withdraws(1, p.id)

Shifts(d) ==
  /\ d \in {0, 1}
  /\ \A m \in DOMAIN inbound : m > d => m - d \in DOMAIN inbound' /\ inbound'[m - d] = inbound[m]

Inherits(d) ==
  /\ Shifts(d)
  /\ \A k \in Nat, o \in Orders : Ours(k, o)' => \E l \in Nat, p \in Orders : From(k, o, l, p, d)

\* The messages and orders the invariants speak of.
LEMMA OursType ==
  ASSUME Typed
  PROVE  /\ Len(inbound) \in Nat /\ DOMAIN inbound = 1..Len(inbound)
         /\ \A i \in DOMAIN book : book[i] \in Orders
         /\ engine.order \in Orders
         /\ \A k \in DOMAIN inbound : inbound[k] \in Messages
         /\ \A k \in DOMAIN inbound : inbound[k] \in NewOrders => OrderIn(inbound[k]) \in Orders
         /\ \A o \in Orders : o.id \in Nat /\ o.side \in BookSides /\ o.price \in Int /\ o.qty \in Nat
         /\ \A o \in Orders : Same(o, o)
<1>1. inbound \in Seq(Messages) /\ book \in Seq(Orders) /\ engine \in [at: {"pop", "match"}, order: Orders]
  BY DEF Typed, QueuesOK, EngineOK
<1>2. Len(inbound) \in Nat /\ DOMAIN inbound = 1..Len(inbound) /\ \A k \in DOMAIN inbound : inbound[k] \in Messages
  BY <1>1, LenProperties, ElementOfSeq
<1>3. \A i \in DOMAIN book : book[i] \in Orders
  BY <1>1, LenProperties, ElementOfSeq
<1>4. \A m \in NewOrders : OrderIn(m) \in Orders
  BY DEF NewOrders, OrderIn, Orders
<1>5. engine.order \in Orders
  BY <1>1
<1>6. /\ \A o \in Orders : o.id \in Nat /\ o.side \in BookSides /\ o.price \in Int /\ o.qty \in Nat
      /\ \A o \in Orders : Same(o, o)
  BY DEF Orders, Same
<1> QED BY <1>2, <1>3, <1>4, <1>5, <1>6

\* A cancel that follows an order follows it still, until it takes effect.
LEMMA CoveredKept ==
  ASSUME Typed, NEW d \in {0, 1}, Shifts(d), NEW k \in Nat, NEW o \in Orders, NEW l \in Nat, NEW p \in Orders,
         From(k, o, l, p, d), Covered(l, p)
  PROVE  Covered(k, o)'
<1>1. PICK m \in DOMAIN inbound : m > l /\ Withdraws(m, p.id)
  BY DEF Covered
<1>2. m \in Nat
  BY OursType
<1>3. m > d
  BY <1>1, <1>2 DEF From
<1>4. m - d \in DOMAIN inbound' /\ inbound'[m - d] = inbound[m]
  BY <1>3 DEF Shifts
<1>5. Withdraws(m - d, o.id)'
  BY <1>1, <1>4 DEF Withdraws, From, Same
<1>6. m - d > k
  BY <1>1, <1>2, <1>3 DEF From
<1> QED BY <1>4, <1>5, <1>6 DEF Covered

\* A cancel between two orders stays between them.
LEMMA BetweenKept ==
  ASSUME Typed, NEW d \in {0, 1}, Shifts(d), NEW k \in Nat, NEW o \in Orders, NEW l \in Nat, NEW p \in Orders,
         From(k, o, l, p, d), NEW n \in Nat, Between(l, p, n), NEW h \in Nat, n <= h + d
  PROVE  Between(k, o, h)'
<1>1. PICK m \in DOMAIN inbound : m > l /\ m < n /\ Withdraws(m, p.id)
  BY DEF Between
<1>2. m \in Nat
  BY OursType
<1>3. m > d
  BY <1>1, <1>2 DEF From
<1>4. m - d \in DOMAIN inbound' /\ inbound'[m - d] = inbound[m]
  BY <1>3 DEF Shifts
<1>5. Withdraws(m - d, o.id)'
  BY <1>1, <1>4 DEF Withdraws, From, Same
<1>6. m - d > k /\ m - d < h
  BY <1>1, <1>2, <1>3 DEF From
<1> QED BY <1>4, <1>5, <1>6 DEF Between

\* A step of the demo's thread that submits nothing.
LEMMA IdleInherits ==
  ASSUME Typed, engine' = engine, book' = book, inbound' = inbound
  PROVE  Inherits(0)
<1>1. Shifts(0)
  BY OursType DEF Shifts
<1>2. ASSUME NEW k \in Nat, NEW o \in Orders, Ours(k, o)'
      PROVE  From(k, o, k, o, 0)
  <2>1. Ours(k, o)
    BY <1>2 DEF Ours
  <2> QED BY <2>1, OursType DEF From
<1> QED BY <1>1, <1>2 DEF Inherits

\* A step that submits a message: only that message may be a new order of ours.
LEMMA SubmitInherits ==
  ASSUME Typed, engine' = engine, book' = book, outbound' = outbound, NEW m \in Messages, Submit(m)
  PROVE  /\ Shifts(0)
         /\ \A k \in Nat, o \in Orders : Ours(k, o)' =>
              \/ From(k, o, k, o, 0)
              \/ k = Len(inbound) + 1 /\ m \in NewOrders /\ IsOurs(m.order_id) /\ o = OrderIn(m)
<1>1. /\ Len(inbound) \in Nat /\ DOMAIN inbound = 1..Len(inbound)
      /\ DOMAIN inbound' = 1..(Len(inbound) + 1) /\ inbound'[Len(inbound) + 1] = m
      /\ \A k \in DOMAIN inbound : inbound'[k] = inbound[k]
  BY Submitted DEF Typed
<1>2. Shifts(0)
  BY <1>1 DEF Shifts
<1>3. ASSUME NEW k \in Nat, NEW o \in Orders, Ours(k, o)'
      PROVE  \/ From(k, o, k, o, 0)
             \/ k = Len(inbound) + 1 /\ m \in NewOrders /\ IsOurs(m.order_id) /\ o = OrderIn(m)
  <2>1. CASE k = Len(inbound) + 1
    <3>1. inbound'[k] = m /\ k # 0
      BY <1>1, <2>1
    <3>2. m \in NewOrders /\ IsOurs(o.id) /\ o = OrderIn(m)
      BY <1>3, <3>1 DEF Ours
    <3>3. IsOurs(m.order_id)
      BY <3>2 DEF OrderIn
    <3> QED BY <2>1, <3>2, <3>3
  <2>2. CASE k # Len(inbound) + 1
    <3>1. k \in DOMAIN inbound' => k \in DOMAIN inbound /\ inbound'[k] = inbound[k]
      BY <1>1, <2>2
    <3>2. Ours(k, o)
      BY <1>3, <3>1 DEF Ours
    <3> QED BY <3>2, OursType DEF From
  <2> QED BY <2>1, <2>2
<1> QED BY <1>2, <1>3

----------------------------------------------------------------------------
(***************************************************************************)
(* Where they come from, for each step of the engine.                      *)
(***************************************************************************)
\* Taking a message moves the queue up by one; the order a cancel names is gone.
LEMMA PopInherits ==
  ASSUME Typed, BookAscending, Pop
  PROVE  Inherits(1)
<1>1. /\ engine = Polling /\ Len(inbound) \in Nat /\ Len(inbound) > 0
      /\ DOMAIN inbound = 1..Len(inbound) /\ DOMAIN inbound' = 1..(Len(inbound) - 1)
      /\ \A k \in DOMAIN inbound' : inbound'[k] = inbound[k + 1]
      /\ TakesOrder \/ TakesCancel
  BY PopFrame
<1>2. Shifts(1)
  BY <1>1 DEF Shifts
<1>3. ~IsOurs(engine.order.id) /\ ~IsOurs(Polling.order.id)
  BY <1>1, PollingType, Constants DEF IsOurs
<1> SUFFICES ASSUME NEW k \in Nat, NEW o \in Orders, Ours(k, o)'
             PROVE  \E l \in Nat, p \in Orders : From(k, o, l, p, 1)
  BY <1>2 DEF Inherits
<1>4. Same(o, o) /\ IsOurs(o.id)
  BY OursType DEF Ours
<1>5. CASE k \in DOMAIN inbound'
  <2>1. inbound'[k] = inbound[k + 1] /\ k + 1 \in DOMAIN inbound /\ k # 0
    BY <1>1, <1>5
  <2>2. Ours(k + 1, o)
    BY <1>5, <2>1 DEF Ours
  <2> QED BY <1>4, <2>2 DEF From
<1>6. CASE k \notin DOMAIN inbound'
  <2>1. k = 0 /\ (o = engine'.order \/ \E i \in DOMAIN book' : o = book'[i])
    BY <1>6 DEF Ours
  <2>2. CASE TakesOrder
    <3>1. CASE o = engine'.order
      <4>1. Ours(1, o)
        BY <1>1, <1>4, <2>2, <3>1 DEF Ours, TakesOrder
      <4> QED BY <1>4, <2>1, <4>1 DEF From
    <3>2. CASE \E i \in DOMAIN book' : o = book'[i]
      <4>1. Ours(0, o)
        BY <1>4, <2>2, <3>2 DEF Ours, TakesOrder
      <4>2. ~Withdraws(1, o.id)
        BY <2>2 DEF TakesOrder, Withdraws, NewOrders, Cancels
      <4> QED BY <1>4, <2>1, <4>1, <4>2 DEF From
    <3> QED BY <2>1, <3>1, <3>2
  <2>3. CASE TakesCancel
    <3> DEFINE id == inbound[1].order_id
    <3>1. o # engine'.order
      BY <1>3, <1>4, <2>3 DEF TakesCancel
    <3>2. PICK j \in DOMAIN book' : o = book'[j]
      BY <2>1, <3>1
    <3>3. book \in Seq(Orders) /\ book' = CancelOrder(book, id)
      BY <2>3 DEF Typed, EngineOK, TakesCancel
    <3>4. PICK g : Thinned(book', book, g) /\ \A n \in DOMAIN book' : book'[n] = book[g[n]]
      BY <3>3, CancelThins
    <3>5. g[j] \in DOMAIN book /\ o = book[g[j]]
      BY <3>2, <3>4 DEF Thinned
    <3>6. Ours(0, o)
      BY <1>4, <3>5 DEF Ours
    <3>7. ~Withdraws(1, o.id)
      <4> SUFFICES ASSUME o.id = id PROVE FALSE
        BY DEF Withdraws
      <4>1. \A m, n \in DOMAIN book : book[m].id = id /\ book[n].id = id => m = n
        <5> SUFFICES ASSUME NEW m \in DOMAIN book, NEW n \in DOMAIN book, book[m].id = id, book[n].id = id
                     PROVE  m = n
          OBVIOUS
        <5>1. m \in Nat /\ n \in Nat
          BY <3>3, LenProperties
        <5>2. ~(m < n) /\ ~(n < m)
          BY <1>4, OursType DEF BookAscending
        <5> QED BY <5>1, <5>2
      <4> HIDE DEF id
      <4>2. \A n \in DOMAIN book' : book'[n].id # id
        BY <3>3, <4>1, CancelThins
      <4> QED BY <3>2, <4>2
    <3> QED BY <1>4, <2>1, <3>6, <3>7 DEF From
  <2> QED BY <1>1, <2>2, <2>3
<1> QED BY <1>5, <1>6

\* What an execution leaves of the orders of ours; the one it hits, and the
\* one in hand, are left with less.
LEMMA ExecuteInherits ==
  ASSUME Typed, BookAscending, Execute
  PROVE  Inherits(0)
<1>1. inbound' = inbound
  BY ExecuteFrame
<1>2. PICK i \in DOMAIN book, qty \in Nat, rpt \in Reports :
        /\ engine.order \in Orders /\ qty > 0 /\ qty <= engine.order.qty
        /\ book' = Hit(book, engine.order, i)
        /\ engine' \in [at: {"pop", "match"}, order: Orders]
        /\ engine'.order.qty = engine.order.qty - qty
        /\ engine'.order.id = engine.order.id /\ engine'.order.side = engine.order.side
        /\ engine'.order.price = engine.order.price
  BY ExecuteFrame
<1>3. book \in Seq(Orders) /\ \A j \in DOMAIN book : book[j].qty > 0
  BY DEF Typed, EngineOK
<1>4. engine.order.qty > 0 /\ engine.order.qty \in Nat
  BY <1>2 DEF Orders
<1>5. PICK g : Thinned(book', book, g)
  BY <1>2, <1>3, <1>4, HitThins
<1>6. Shifts(0)
  BY <1>1, OursType DEF Shifts
<1> SUFFICES ASSUME NEW k \in Nat, NEW o \in Orders, Ours(k, o)'
             PROVE  \E l \in Nat, p \in Orders : From(k, o, l, p, 0)
  BY <1>6 DEF Inherits
<1>7. IsOurs(o.id) /\ Same(o, o)
  BY OursType DEF Ours
<1>8. CASE k \in DOMAIN inbound
  <2>1. k # 0
    BY <1>8, OursType
  <2>2. Ours(k, o)
    BY <1>1, <1>8, <2>1 DEF Ours
  <2> QED BY <1>7, <2>2 DEF From
<1>9. CASE k = 0 /\ o = engine'.order
  <2>1. Same(o, engine.order)
    BY <1>2, <1>4, <1>9 DEF Same
  <2>2. Ours(0, engine.order)
    BY <1>7, <2>1 DEF Ours, Same
  <2> QED BY <1>2, <1>9, <2>1, <2>2 DEF From
<1>10. CASE k = 0 /\ \E j \in DOMAIN book' : o = book'[j]
  <2>1. PICK j \in DOMAIN book' : o = book'[j]
    BY <1>10
  <2>2. g[j] \in DOMAIN book /\ Same(o, book[g[j]])
    BY <1>5, <2>1 DEF Thinned
  <2>3. Ours(0, book[g[j]])
    BY <1>7, <2>2 DEF Ours, Same
  <2>4. book[g[j]] \in Orders
    BY <2>2, OursType
  <2> QED BY <1>10, <2>2, <2>3, <2>4 DEF From
<1> QED BY <1>1, <1>8, <1>9, <1>10 DEF Ours

\* Resting, or being refused, brings no order of ours.
LEMMA CountInherits ==
  ASSUME Typed, Count
  PROVE  Inherits(0)
<1>1. /\ inbound' = inbound /\ engine' = Polling /\ Len(book) \in Nat /\ DOMAIN book = 1..Len(book)
      /\ book' = book \/ Joins
  BY CountFrame
<1>2. Shifts(0)
  BY <1>1, OursType DEF Shifts
<1>3. ~IsOurs(engine'.order.id)
  BY <1>1, PollingType, Constants DEF IsOurs
<1>4. ASSUME NEW k \in Nat, NEW o \in Orders, Ours(k, o)'
      PROVE  From(k, o, k, o, 0)
  <2>1. o # engine'.order
    BY <1>3, <1>4 DEF Ours
  <2>2. (\E i \in DOMAIN book' : o = book'[i]) => (o = engine.order \/ \E i \in DOMAIN book : o = book[i])
    BY <1>1 DEF Joins
  <2>3. Ours(k, o)
    BY <1>1, <1>4, <2>1, <2>2 DEF Ours
  <2> QED BY <2>3, OursType DEF From
<1> QED BY <1>2, <1>4 DEF Inherits

----------------------------------------------------------------------------
(***************************************************************************)
(* No two of them meet: the invariant, and what inheriting preserves.      *)
(***************************************************************************)
\* The cancels of this round have been submitted, for side s.
Withdrawn(s) ==
  \/ at = "cancelSell" /\ s = "Buy"
  \/ at \in {"quote", "tail", "stop", "done"}
  \/ at \in {"drain", "counter"} /\ then \in {"quote", "tail"}

Standing(o) == o.id = quotes[o.side] /\ o.price = prices[o.side] /\ ~Withdrawn(o.side)

\* An order of ours is the current quote of its side, or a cancel follows it.
Posted == \A k \in Nat, o \in Orders : Ours(k, o) => Covered(k, o) \/ Standing(o)

\* The two sides of a quote do not meet, and a quote is made from nothing.
QuoteOK ==
  /\ at = "postBuy" => quotes["Buy"] = 0
  /\ at \in {"postBuy", "postSell"} => quotes["Sell"] = 0
  /\ prices["Buy"] \in Int /\ prices["Sell"] \in Int => prices["Buy"] < prices["Sell"]

Crosses(a, b) == a.side # b.side /\ AsGood(a.side, a.price, b.price)

\* Two orders of ours do not meet, or the older one is withdrawn before.
NoCross ==
  \A k, l \in Nat, o, p \in Orders :
    Ours(k, o) /\ Ours(l, p) /\ o.id < p.id => ~Crosses(p, o) \/ Between(k, o, l)

\* What an order of ours inherits.
LEMMA Ancestor ==
  ASSUME NEW d, Inherits(d), NEW k \in Nat, NEW o \in Orders, Ours(k, o)'
  PROVE  \E l \in Nat, p \in Orders : From(k, o, l, p, d)
BY DEF Inherits

\* Ids stay ascending when orders only move up.
LEMMA QueueAscendingKept ==
  ASSUME Typed, QueueAscending, NEW d \in {0, 1}, Inherits(d), nextId' = nextId
  PROVE  QueueAscending'
<1>1. ASSUME NEW k \in Nat, NEW l \in Nat, NEW o \in Orders, NEW p \in Orders,
             Ours(k, o)', Ours(l, p)', k < l
      PROVE  o.id < p.id
  <2>1. PICK m \in Nat, a \in Orders : From(k, o, m, a, d)
    BY <1>1, Ancestor
  <2>2. PICK n \in Nat, b \in Orders : From(l, p, n, b, d)
    BY <1>1, Ancestor
  <2>3. m < n
    BY <1>1, <2>1, <2>2 DEF From
  <2>4. a.id < b.id
    BY <2>1, <2>2, <2>3 DEF QueueAscending, From
  <2> QED BY <2>1, <2>2, <2>4 DEF From, Same
<1>2. ASSUME NEW k \in Nat, NEW o \in Orders, Ours(k, o)'
      PROVE  o.id < nextId'
  <2>1. PICK m \in Nat, a \in Orders : From(k, o, m, a, d)
    BY <1>2, Ancestor
  <2> QED BY <2>1 DEF QueueAscending, From, Same
<1> QED BY <1>1, <1>2 DEF QueueAscending

\* Two orders of ours that did not meet do not meet now.
LEMMA NoCrossKept ==
  ASSUME Typed, NoCross, NEW d \in {0, 1}, Shifts(d),
         NEW k \in Nat, NEW o \in Orders, NEW m \in Nat, NEW a \in Orders, From(k, o, m, a, d),
         NEW l \in Nat, NEW p \in Orders, NEW n \in Nat, NEW b \in Orders, From(l, p, n, b, d),
         o.id < p.id, Crosses(p, o)
  PROVE  Between(k, o, l)'
<1>1. Ours(m, a) /\ Ours(n, b) /\ a.id < b.id
  BY DEF From, Same
<1>2. Crosses(b, a)
  BY DEF Crosses, AsGood, From, Same
<1>3. Between(m, a, n)
  BY <1>1, <1>2 DEF NoCross
<1>4. n <= l + d
  BY DEF From
<1> QED BY <1>3, <1>4, BetweenKept

\* ... hence no two do, after a step that brings none.
LEMMA NoCrossInherited ==
  ASSUME Typed, NoCross, NEW d \in {0, 1}, Inherits(d)
  PROVE  NoCross'
<1> SUFFICES ASSUME NEW k \in Nat, NEW l \in Nat, NEW o \in Orders, NEW p \in Orders,
                    Ours(k, o)', Ours(l, p)', o.id < p.id, Crosses(p, o)
             PROVE  Between(k, o, l)'
  BY DEF NoCross, Crosses
<1>1. PICK m \in Nat, a \in Orders : From(k, o, m, a, d)
  BY Ancestor
<1>2. PICK n \in Nat, b \in Orders : From(l, p, n, b, d)
  BY Ancestor
<1> QED BY <1>1, <1>2, NoCrossKept DEF Inherits

\* Current quotes stay current, and withdrawn ones withdrawn.
LEMMA PostedInherited ==
  ASSUME Typed, Posted, NEW d \in {0, 1}, Inherits(d), quotes' = quotes, prices' = prices,
         \A s \in BookSides : Withdrawn(s)' => Withdrawn(s)
  PROVE  Posted'
<1> SUFFICES ASSUME NEW k \in Nat, NEW o \in Orders, Ours(k, o)'
             PROVE  Covered(k, o)' \/ Standing(o)'
  BY DEF Posted
<1>1. PICK m \in Nat, a \in Orders : From(k, o, m, a, d)
  BY Ancestor
<1>2. CASE Covered(m, a)
  BY <1>1, <1>2, CoveredKept DEF Inherits
<1>3. CASE Standing(a)
  <2>1. o.side \in BookSides
    BY OursType
  <2>2. o.id = a.id /\ o.side = a.side /\ o.price = a.price
    BY <1>1 DEF From, Same
  <2> QED BY <1>3, <2>1, <2>2 DEF Standing
<1> QED BY <1>1, <1>2, <1>3 DEF Posted, From

----------------------------------------------------------------------------
(***************************************************************************)
(* ... for the steps that bring no order of ours.                          *)
(***************************************************************************)
Orderly == BookAscending /\ QueueAscending /\ Posted /\ QuoteOK /\ NoCross

\* A step that brings no order of ours and leaves the quotes alone.
LEMMA OrderlyInherited ==
  ASSUME Typed, Orderly, NEW d \in {0, 1}, Inherits(d), BookAscending',
         UNCHANGED <<quotes, prices, nextId>>,
         at' = at \/ at' \notin {"postBuy", "postSell"},
         \A s \in BookSides : Withdrawn(s)' => Withdrawn(s)
  PROVE  Orderly'
<1>1. QueueAscending'
  BY QueueAscendingKept DEF Orderly
<1>2. Posted'
  BY PostedInherited DEF Orderly
<1>3. NoCross'
  BY NoCrossInherited DEF Orderly
<1>4. QuoteOK'
  BY DEF Orderly, QuoteOK
<1> QED BY <1>1, <1>2, <1>3, <1>4 DEF Orderly

\* The steps of the demo's thread that neither post a quote nor read a report.
Silent ==
  \/ Noise \/ Moves \/ MakeQuote \/ UNCHANGED vars
  \/ \E s \in BookSides : Cancel(s)

\* They bring no order of ours and leave the engine and the accounts alone.
LEMMA SilentInherits ==
  ASSUME Typed, Silent
  PROVE  /\ Inherits(0)
         /\ UNCHANGED <<nextId, mm, booked, engine, book, traded, outbound>>
<1>1. UNCHANGED <<nextId, mm, booked, engine, book, traded, outbound>>
  BY DEF Silent, Noise, Moves, Drained, CaughtUp, TimeOut, TailOver, Stop, MakeQuote, Cancel,
         vars, thread, account, engineVars
<1>2. CASE inbound' = inbound
  BY <1>1, <1>2, IdleInherits
<1>3. CASE Noise
  <2>1. PICK price \in NoisePrices, qty \in NoiseQtys :
          Submit(NewLimit(noise + 1, IF noise % 2 = 0 THEN "Buy" ELSE "Sell", price, qty))
    BY <1>3 DEF Noise
  <2> DEFINE m == NewLimit(noise + 1, IF noise % 2 = 0 THEN "Buy" ELSE "Sell", price, qty)
  <2>2. m \in Messages
    BY Constants DEF NewLimit, Messages, NewOrders, Typed, ThreadOK, BookSides
  <2>3. m.order_id = noise + 1
    BY DEF NewLimit
  <2>4. noise \in Nat /\ noise < NEvents
    BY <1>3 DEF Noise, Typed, ThreadOK
  <2>5. ~IsOurs(m.order_id)
    BY <2>3, <2>4, Constants DEF IsOurs
  <2> HIDE DEF m
  <2>6. Inherits(0)
    BY <1>1, <2>1, <2>2, <2>5, SubmitInherits DEF Inherits, m
  <2> QED BY <1>1, <2>6
<1>4. CASE \E s \in BookSides : Cancel(s)
  <2>1. PICK s \in BookSides : Cancel(s)
    BY <1>4
  <2> DEFINE m == [msg_type |-> "CancelOrder", order_id |-> quotes[s]]
  <2>2. m \in Messages /\ m \notin NewOrders
    BY DEF Messages, Cancels, NewOrders, Typed, ThreadOK, Quantities
  <2>3. inbound' = inbound \/ Submit(m)
    BY <2>1 DEF Cancel
  <2> HIDE DEF m
  <2>4. ASSUME Submit(m) PROVE Inherits(0)
    BY <1>1, <2>2, <2>4, SubmitInherits DEF Inherits
  <2> QED BY <1>1, <1>2, <2>3, <2>4
<1>5. inbound' = inbound \/ Noise \/ \E s \in BookSides : Cancel(s)
  BY DEF Silent, Moves, Drained, CaughtUp, TimeOut, TailOver, Stop, MakeQuote, vars
<1> QED BY <1>2, <1>3, <1>4, <1>5

\* Without the engine the book stays as it is.
LEMMA BookAscendingIdle ==
  ASSUME BookAscending, engine' = engine, book' = book
  PROVE  BookAscending'
BY DEF BookAscending

\* A noise order is not ours.
LEMMA NoiseOrderly ==
  ASSUME Typed, Orderly, Noise
  PROVE  Orderly'
<1>1. Inherits(0) /\ UNCHANGED <<nextId, engine, book>>
  BY SilentInherits DEF Silent
<1>2. UNCHANGED <<quotes, prices>> /\ at = "noise"
  BY DEF Noise
<1>3. (at' = at /\ then' = then) \/ (at' = "drain" /\ then' = "cancelBuy")
  BY DEF Noise, WaitThen
<1>4. \A s \in BookSides : Withdrawn(s)' => Withdrawn(s)
  BY <1>3 DEF Withdrawn
<1>5. BookAscending'
  BY <1>1, BookAscendingIdle DEF Orderly
<1> QED BY <1>1, <1>2, <1>3, <1>4, <1>5, OrderlyInherited

\* Reading a report moves no order.
LEMMA DrainOrderly ==
  ASSUME Typed, Orderly, Drain
  PROVE  Orderly'
<1>1. UNCHANGED <<at, then, quotes, prices, nextId, engine, book, inbound>>
  BY DrainFrame
<1>2. Inherits(0) /\ BookAscending'
  BY <1>1, IdleInherits, BookAscendingIdle DEF Orderly
<1>3. \A s \in BookSides : Withdrawn(s)' => Withdrawn(s)
  BY <1>1 DEF Withdrawn
<1> QED BY <1>1, <1>2, <1>3, OrderlyInherited

\* A wait moves no order; it ends where the cancels it waited for are submitted.
LEMMA MovesOrderly ==
  ASSUME Typed, Orderly, Moves
  PROVE  Orderly'
<1>1. UNCHANGED <<then, quotes, prices, nextId, engine, book, inbound>>
  BY DEF Moves, Drained, CaughtUp, TimeOut, TailOver, Stop, engineVars
<1>2. \/ at = "drain" /\ at' \in {"counter", then}
      \/ at = "counter" /\ at' \in {"drain", then}
      \/ at = "tail" /\ at' = "stop"
      \/ at = "stop" /\ at' = "done"
  BY DEF Moves, Drained, CaughtUp, TimeOut, TailOver, Stop
<1>3. then \in {"noise", "cancelBuy", "quote", "tail"}
  BY DEF Typed, ThreadOK
<1>4. Inherits(0) /\ BookAscending'
  BY <1>1, IdleInherits, BookAscendingIdle DEF Orderly
<1>5. \A s \in BookSides : Withdrawn(s)' => Withdrawn(s)
  BY <1>1, <1>2, <1>3 DEF Withdrawn
<1>6. at' \notin {"postBuy", "postSell"}
  BY <1>2, <1>3
<1> QED BY <1>1, <1>4, <1>5, <1>6, OrderlyInherited

\* The cancel of a side covers the quote of that side.
LEMMA CancelOrderly ==
  ASSUME Typed, Orderly, NEW s \in BookSides, Cancel(s)
  PROVE  Orderly'
<1> DEFINE m == [msg_type |-> "CancelOrder", order_id |-> quotes[s]]
<1>1. UNCHANGED <<quotes, prices, nextId, engine, book, outbound>>
  BY DEF Cancel, engineVars
<1>2. quotes \in Quantities /\ quotes[s] \in Nat
  BY DEF Typed, ThreadOK, Quantities
<1>3. m \in Messages /\ m \in Cancels /\ m \notin NewOrders /\ m.order_id = quotes[s]
  BY <1>2 DEF Messages, Cancels, NewOrders
<1>4. \/ quotes[s] = 0 /\ inbound' = inbound
      \/ quotes[s] # 0 /\ Submit(m)
  BY DEF Cancel
<1> HIDE DEF m
<1>5. Inherits(0)
  BY SilentInherits DEF Silent
<1>6. /\ s = "Buy" => at = "cancelBuy" /\ at' = "cancelSell"
      /\ s = "Sell" => at = "cancelSell" /\ at' = "drain" /\ then' \in {"tail", "quote"}
  BY DEF Cancel, CancelAt, WaitThen, BookSides
<1>7. QueueAscending' /\ NoCross' /\ BookAscending'
  BY <1>1, <1>5, QueueAscendingKept, NoCrossInherited, BookAscendingIdle DEF Orderly
<1>8. QuoteOK'
  BY <1>1, <1>6 DEF Orderly, QuoteOK, BookSides
<1>9. Posted'
  <2> SUFFICES ASSUME NEW k \in Nat, NEW o \in Orders, Ours(k, o)'
               PROVE  Covered(k, o)' \/ Standing(o)'
    BY DEF Posted
  <2>1. PICK n \in Nat, a \in Orders : From(k, o, n, a, 0)
    BY <1>5, Ancestor
  <2>2. CASE Covered(n, a)
    BY <1>5, <2>1, <2>2, CoveredKept DEF Inherits
  <2>3. ASSUME Standing(a), a.side = s PROVE Covered(k, o)'
    <3>0. n = k /\ Ours(n, a) /\ o.id = a.id
      BY <2>1 DEF From, Same
    <3>1. IsOurs(o.id) /\ o.id = quotes[s] /\ Ours(k, a)
      <4>1. IsOurs(a.id)
        BY <3>0 DEF Ours
      <4>2. a.id = quotes[s]
        BY <2>3 DEF Standing
      <4> QED BY <3>0, <4>1, <4>2
    <3>2. quotes[s] # 0
      <4>1. quotes[s] > NEvents
        BY <3>1 DEF IsOurs
      <4> QED BY <1>2, <4>1, Constants
    <3>3. /\ Len(inbound) \in Nat /\ DOMAIN inbound = 1..Len(inbound)
          /\ DOMAIN inbound' = 1..(Len(inbound) + 1) /\ inbound'[Len(inbound) + 1] = m
      BY <1>1, <1>3, <1>4, <3>2, Submitted DEF Typed
    <3>4. PICK h \in DOMAIN inbound' : h = Len(inbound) + 1
      BY <3>3
    <3>5. k < h
      BY <3>1, <3>3, <3>4 DEF Ours
    <3>6. Withdraws(h, o.id)'
      BY <1>3, <3>1, <3>3, <3>4 DEF Withdraws
    <3> QED BY <3>4, <3>5, <3>6 DEF Covered
  <2>4. ASSUME Standing(a), a.side # s PROVE Standing(o)'
    <3>1. o.id = a.id /\ o.side = a.side /\ o.price = a.price /\ o.side \in BookSides
      BY <2>1, OursType DEF From, Same
    <3>2. ~Withdrawn(o.side) /\ o.side # s
      BY <2>4, <3>1 DEF Standing
    <3>3. s = "Buy" /\ o.side = "Sell"
      BY <1>6, <3>1, <3>2 DEF Withdrawn, BookSides
    <3>4. ~Withdrawn(o.side)'
      BY <1>6, <3>3 DEF Withdrawn
    <3> QED BY <1>1, <2>4, <3>1, <3>4 DEF Standing
  <2> QED BY <2>1, <2>2, <2>3, <2>4 DEF Orderly, Posted, From
<1> QED BY <1>7, <1>8, <1>9 DEF Orderly

\* When compute_quote() runs, both sides have been withdrawn.
LEMMA MakeQuoteOrderly ==
  ASSUME Typed, Orderly, MakeQuote
  PROVE  Orderly'
<1>1. UNCHANGED <<nextId, engine, book, inbound>> /\ at = "quote" /\ at' = "postBuy"
  BY DEF MakeQuote, engineVars
<1>2. Inherits(0) /\ BookAscending'
  BY <1>1, IdleInherits, BookAscendingIdle DEF Orderly
<1>3. QueueAscending' /\ NoCross'
  BY <1>1, <1>2, QueueAscendingKept, NoCrossInherited DEF Orderly
<1>4. mm \in Accounts /\ lastTrade \in Int /\ prices' = ComputeQuote(mm, lastTrade)
      /\ quotes' = [s \in BookSides |-> 0]
  BY DEF MakeQuote, Typed, AccountOK
<1>5. QuoteOK'
  BY <1>4, QuoteType DEF QuoteOK, BookSides
<1>6. Posted'
  <2> SUFFICES ASSUME NEW k \in Nat, NEW o \in Orders, Ours(k, o)'
               PROVE  Covered(k, o)'
    BY DEF Posted
  <2>1. PICK n \in Nat, a \in Orders : From(k, o, n, a, 0)
    BY <1>2, Ancestor
  <2>2. ~Standing(a)
    BY <1>1 DEF Standing, Withdrawn
  <2>3. Covered(n, a)
    BY <2>1, <2>2 DEF Orderly, Posted, From
  <2> QED BY <1>2, <2>1, <2>3, CoveredKept DEF Inherits
<1> QED BY <1>2, <1>3, <1>5, <1>6 DEF Orderly

----------------------------------------------------------------------------
(***************************************************************************)
(* ... for a new quote.                                                    *)
(***************************************************************************)
\* Where an order of ours can be.
LEMMA OursPlace ==
  ASSUME Typed, NEW k \in Nat, NEW o \in Orders, Ours(k, o)
  PROVE  IsOurs(o.id) /\ o.id \in Nat /\ o.id > NEvents /\ o.id # 0 /\ k <= Len(inbound)
<1>1. IsOurs(o.id) /\ (k = 0 \/ k \in DOMAIN inbound)
  BY DEF Ours
<1>2. o.id > NEvents /\ o.id \in Nat
  BY <1>1, OursType DEF IsOurs
<1> QED BY <1>1, <1>2, OursType, Constants

\* A new quote: the last order of ours, above all ids, and not meeting any
\* order that stands.
LEMMA PostOrderly ==
  ASSUME Typed, Orderly, NEW s \in BookSides, Post(s)
  PROVE  Orderly'
<1>1. /\ UNCHANGED <<prices, engine, book, outbound>>
      /\ at \in {"postBuy", "postSell"} /\ (s = "Buy" <=> at = "postBuy")
      /\ \/ s = "Buy" /\ at' = "postSell"
         \/ s = "Sell" /\ at' = "drain" /\ then' \in {"cancelBuy", "noise"}
  BY PostFrame
<1>2. \A t \in BookSides : ~Withdrawn(t) /\ ~Withdrawn(t)'
  BY <1>1 DEF Withdrawn
<1>3. BookAscending'
  BY <1>1, BookAscendingIdle DEF Orderly
<1>4. CASE prices[s] = PRICE_INVALID
  <2>1. UNCHANGED <<quotes, nextId, inbound>>
    BY <1>4, PostFrame
  <2>2. Inherits(0)
    BY <1>1, <2>1, IdleInherits
  <2>3. QueueAscending' /\ NoCross' /\ Posted'
    BY <1>1, <1>2, <2>1, <2>2, QueueAscendingKept, NoCrossInherited, PostedInherited DEF Orderly
  <2>4. QuoteOK'
    BY <1>1, <2>1 DEF Orderly, QuoteOK
  <2> QED BY <1>3, <2>3, <2>4 DEF Orderly
<1>5. CASE prices[s] # PRICE_INVALID
  <2> DEFINE m == NewLimit(nextId, s, prices[s], QuoteQty)
  <2>1. /\ prices[s] \in Int /\ Submit(m) /\ m \in Messages
        /\ quotes' = [quotes EXCEPT ![s] = nextId] /\ nextId' = nextId + 1
    BY <1>5, PostFrame
  <2>2. nextId \in Nat /\ quotes \in Quantities /\ DOMAIN quotes = BookSides
    BY DEF Typed, ThreadOK, Quantities
  <2>3. PICK new : new = OrderIn(m)
    OBVIOUS
  <2>4. new.id = nextId /\ new.side = s /\ new.price = prices[s]
    BY <2>3 DEF NewLimit, OrderIn
  <2> HIDE DEF m
  <2>5. PICK end : end = Len(inbound) + 1
    OBVIOUS
  <2>6. Len(inbound) \in Nat /\ DOMAIN inbound = 1..Len(inbound)
    BY OursType
  <2>7. Shifts(0)
    BY <1>1, <2>1, SubmitInherits
  <2>8. ASSUME NEW k \in Nat, NEW o \in Orders, Ours(k, o)'
        PROVE  \/ From(k, o, k, o, 0) /\ Ours(k, o) /\ k < end /\ o.id < nextId
               \/ k = end /\ o = new
    <3>1. CASE From(k, o, k, o, 0)
      <4>1. Ours(k, o)
        BY <3>1 DEF From
      <4>2. k <= Len(inbound) /\ o.id < nextId
        BY <4>1, OursPlace DEF Orderly, QueueAscending
      <4> QED BY <2>5, <2>6, <3>1, <4>1, <4>2
    <3>2. CASE k = Len(inbound) + 1 /\ o = OrderIn(m)
      BY <2>3, <2>5, <3>2
    <3> QED BY <1>1, <2>1, <2>8, <3>1, <3>2, SubmitInherits
  <2>9. quotes'[s] = nextId /\ \A t \in BookSides : t # s => quotes'[t] = quotes[t]
    BY <2>1, <2>2
  <2>10. quotes[s] = 0
    BY <1>1 DEF Orderly, QuoteOK, BookSides
  <2>11. QuoteOK'
    BY <1>1, <2>9 DEF Orderly, QuoteOK, BookSides
  <2>12. QueueAscending'
    <3>1. ASSUME NEW k \in Nat, NEW l \in Nat, NEW o \in Orders, NEW p \in Orders,
                 Ours(k, o)', Ours(l, p)', k < l
          PROVE  o.id < p.id
      <4>1. \/ Ours(k, o) /\ k < end /\ o.id < nextId
            \/ k = end /\ o = new
        BY <2>8, <3>1
      <4>2. \/ Ours(l, p) /\ l < end /\ p.id < nextId
            \/ l = end /\ p = new
        BY <2>8, <3>1
      <4>3. k # end
        BY <2>5, <2>6, <3>1, <4>2
      <4> QED BY <2>4, <3>1, <4>1, <4>2, <4>3 DEF Orderly, QueueAscending
    <3>2. ASSUME NEW k \in Nat, NEW o \in Orders, Ours(k, o)'
          PROVE  o.id < nextId'
      BY <2>1, <2>2, <2>4, <2>8, <3>2, OursType
    <3> QED BY <3>1, <3>2 DEF QueueAscending
  <2>13. Posted'
    <3> SUFFICES ASSUME NEW k \in Nat, NEW o \in Orders, Ours(k, o)'
                 PROVE  Covered(k, o)' \/ Standing(o)'
      BY DEF Posted
    <3>1. CASE o = new
      BY <1>1, <1>2, <2>4, <2>9, <3>1 DEF Standing
    <3>2. ASSUME From(k, o, k, o, 0), Covered(k, o) PROVE Covered(k, o)'
      BY <2>7, <3>2, CoveredKept
    <3>3. ASSUME Ours(k, o), Standing(o) PROVE Standing(o)'
      <4>1. o.side \in BookSides /\ o.id # 0
        BY <3>3, OursPlace, OursType
      <4>2. o.side # s
        BY <2>10, <3>3, <4>1 DEF Standing
      <4> QED BY <1>1, <1>2, <2>9, <3>3, <4>1, <4>2 DEF Standing
    <3> QED BY <2>8, <3>1, <3>2, <3>3 DEF Orderly, Posted
  <2>14. ASSUME NEW k \in Nat, NEW o \in Orders, Ours(k, o), From(k, o, k, o, 0), Crosses(new, o)
         PROVE  Between(k, o, end)'
    <3>1. ~Standing(o)
      <4> SUFFICES ASSUME Standing(o) PROVE FALSE
        OBVIOUS
      <4>1. o.side \in BookSides /\ o.id # 0 /\ o.side # s
        BY <2>4, <2>14, OursPlace, OursType DEF Crosses
      <4>2. o.id = quotes[o.side] /\ o.price = prices[o.side]
        BY DEF Standing
      <4>3. o.side = "Buy" /\ s = "Sell"
        BY <1>1, <4>1, <4>2 DEF Orderly, QuoteOK, BookSides
      <4>4. prices["Buy"] \in Int
        BY <4>2, <4>3, OursType
      <4>5. prices["Buy"] < prices["Sell"] /\ prices["Sell"] \in Int
        BY <2>1, <4>3, <4>4 DEF Orderly, QuoteOK
      <4>6. prices["Sell"] <= prices["Buy"]
        BY <2>4, <2>14, <4>2, <4>3 DEF Crosses, AsGood
      <4> QED BY <4>4, <4>5, <4>6
    <3>2. Covered(k, o)
      BY <2>14, <3>1 DEF Orderly, Posted
    <3>3. Between(k, o, end)
      BY <2>5, <2>6, <3>2 DEF Covered, Between
    <3> QED BY <2>5, <2>6, <2>7, <2>14, <3>3, BetweenKept
  <2>15. NoCross'
    <3> SUFFICES ASSUME NEW k \in Nat, NEW l \in Nat, NEW o \in Orders, NEW p \in Orders,
                        Ours(k, o)', Ours(l, p)', o.id < p.id, Crosses(p, o)
                 PROVE  Between(k, o, l)'
      BY DEF NoCross, Crosses
    <3>1. CASE o = new
      <4>1. p = new \/ p.id < nextId
        BY <2>8
      <4> QED BY <2>2, <2>4, <3>1, <4>1, OursType
    <3>2. CASE o # new /\ p = new /\ l = end
      <4>1. From(k, o, k, o, 0) /\ Ours(k, o)
        BY <2>8, <3>2
      <4> QED BY <2>14, <3>2, <4>1
    <3>3. CASE o # new /\ From(l, p, l, p, 0)
      <4>1. From(k, o, k, o, 0)
        BY <2>8, <3>3
      <4> QED BY <2>7, <3>3, <4>1, NoCrossKept DEF Orderly
    <3> QED BY <2>8, <3>1, <3>2, <3>3
  <2> QED BY <1>3, <2>11, <2>12, <2>13, <2>15 DEF Orderly
<1> QED BY <1>4, <1>5

----------------------------------------------------------------------------
(***************************************************************************)
(* ... for the engine, and always.                                         *)
(***************************************************************************)
\* What is left of an ascending book is ascending.
LEMMA ThinnedAscending ==
  ASSUME Typed, BookAscending, NEW g, Thinned(book', book, g)
  PROVE  \A i, j \in DOMAIN book' :
           i < j /\ IsOurs(book'[i].id) /\ IsOurs(book'[j].id) => book'[i].id < book'[j].id
<1> SUFFICES ASSUME NEW i \in DOMAIN book', NEW j \in DOMAIN book', i < j,
                    IsOurs(book'[i].id), IsOurs(book'[j].id)
             PROVE  book'[i].id < book'[j].id
  OBVIOUS
<1>1. g[i] \in DOMAIN book /\ g[j] \in DOMAIN book /\ g[i] < g[j]
  BY DEF Thinned
<1>2. book'[i].id = book[g[i]].id /\ book'[j].id = book[g[j]].id
  BY DEF Thinned, Same
<1> QED BY <1>1, <1>2 DEF BookAscending

\* An order taken in hand is newer than all in the book; a cancel removes its order.
LEMMA PopOrderly ==
  ASSUME Typed, Orderly, Pop
  PROVE  Orderly'
<1>1. /\ engine = Polling /\ Len(inbound) \in Nat /\ Len(inbound) > 0 /\ DOMAIN inbound = 1..Len(inbound)
      /\ TakesOrder \/ TakesCancel
      /\ UNCHANGED <<at, then, quotes, prices, nextId>>
  BY PopFrame
<1>2. BookAscending
  BY DEF Orderly
<1>3. Inherits(1)
  BY <1>2, PopInherits
<1>4. \A s \in BookSides : Withdrawn(s)' => Withdrawn(s)
  BY <1>1 DEF Withdrawn
<1>5. BookAscending'
  <2>1. CASE TakesOrder
    <3>1. book' = book /\ engine'.order = OrderIn(inbound[1]) /\ inbound[1] \in NewOrders
      BY <2>1 DEF TakesOrder
    <3>2. ASSUME NEW i \in DOMAIN book, IsOurs(book[i].id), IsOurs(engine'.order.id)
          PROVE  book[i].id < engine'.order.id
      <4>1. book[i] \in Orders /\ engine'.order \in Orders
        BY <1>1, <3>1, OursType
      <4>2. Ours(0, book[i])
        BY <3>2 DEF Ours
      <4>3. Ours(1, engine'.order)
        BY <1>1, <3>1, <3>2 DEF Ours
      <4> QED BY <4>1, <4>2, <4>3 DEF Orderly, QueueAscending
    <3> QED BY <3>1, <3>2 DEF Orderly, BookAscending
  <2>2. CASE TakesCancel
    <3>1. book \in Seq(Orders) /\ engine' = Polling /\ book' = CancelOrder(book, inbound[1].order_id)
      BY <2>2 DEF TakesCancel, Typed, EngineOK
    <3>2. PICK g : Thinned(book', book, g)
      BY <3>1, CancelThins
    <3>3. ~IsOurs(engine'.order.id)
      BY <3>1, PollingType, Constants DEF IsOurs
    <3>4. BookAscending
      BY DEF Orderly
    <3> QED BY <3>2, <3>3, <3>4, ThinnedAscending DEF BookAscending
  <2> QED BY <1>1, <2>1, <2>2
<1> QED BY <1>1, <1>3, <1>4, <1>5, OrderlyInherited

\* An execution takes quantity, or an order, away.
LEMMA ExecuteOrderly ==
  ASSUME Typed, Orderly, Execute
  PROVE  Orderly'
<1>1. UNCHANGED <<at, then, quotes, prices, nextId>>
  BY ExecuteFrame
<1>2. Inherits(0)
  BY ExecuteInherits DEF Orderly
<1>3. \A s \in BookSides : Withdrawn(s)' => Withdrawn(s)
  BY <1>1 DEF Withdrawn
<1>4. PICK i \in DOMAIN book, qty \in Nat :
        /\ engine.order \in Orders /\ qty > 0 /\ qty <= engine.order.qty
        /\ book' = Hit(book, engine.order, i) /\ engine'.order.id = engine.order.id
  BY ExecuteFrame
<1>5. book \in Seq(Orders) /\ \A j \in DOMAIN book : book[j].qty > 0
  BY DEF Typed, EngineOK
<1>6. engine.order.qty > 0
  BY <1>4 DEF Orders
<1>7. PICK g : Thinned(book', book, g)
  BY <1>4, <1>5, <1>6, HitThins
<1>8. BookAscending'
  <2>1. ASSUME NEW j \in DOMAIN book', IsOurs(book'[j].id), IsOurs(engine'.order.id)
        PROVE  book'[j].id < engine'.order.id
    <3>1. g[j] \in DOMAIN book /\ book'[j].id = book[g[j]].id
      BY <1>7, <2>1 DEF Thinned, Same
    <3> QED BY <1>4, <2>1, <3>1 DEF Orderly, BookAscending
  <2>2. BookAscending
    BY DEF Orderly
  <2> QED BY <1>7, <2>1, <2>2, ThinnedAscending DEF BookAscending
<1> QED BY <1>1, <1>2, <1>3, <1>8, OrderlyInherited

\* An order that comes to rest is the newest in the book.
LEMMA CountOrderly ==
  ASSUME Typed, Orderly, Count
  PROVE  Orderly'
<1>1. /\ engine' = Polling /\ Len(book) \in Nat /\ DOMAIN book = 1..Len(book)
      /\ book' = book \/ Joins
      /\ UNCHANGED <<at, then, quotes, prices, nextId>>
  BY CountFrame
<1>2. Inherits(0)
  BY CountInherits
<1>3. \A s \in BookSides : Withdrawn(s)' => Withdrawn(s)
  BY <1>1 DEF Withdrawn
<1>4. ~IsOurs(engine'.order.id)
  BY <1>1, PollingType, Constants DEF IsOurs
<1>5. BookAscending'
  <2>1. CASE book' = book
    BY <1>4, <2>1 DEF Orderly, BookAscending
  <2>2. CASE Joins
    BY <1>1, <1>4, <2>2 DEF Orderly, BookAscending, Joins
  <2> QED BY <1>1, <2>1, <2>2
<1> QED BY <1>1, <1>2, <1>3, <1>5, OrderlyInherited

\* At the start no order is ours.
LEMMA InitOrderly ==
  ASSUME Init
  PROVE  Orderly
<1>1. DOMAIN book = {} /\ DOMAIN inbound = {} /\ engine = Polling /\ at = "noise"
      /\ prices = [s \in BookSides |-> PRICE_INVALID]
  BY DEF Init
<1>2. \A k, o : ~Ours(k, o)
  BY <1>1, PollingType, Constants DEF Ours, IsOurs
<1>3. QuoteOK
  BY <1>1, Constants DEF QuoteOK, BookSides
<1> QED BY <1>1, <1>2, <1>3 DEF Orderly, BookAscending, QueueAscending, Posted, NoCross

\* A step that changes nothing keeps the order.
LEMMA StutterOrderly ==
  ASSUME Typed, Orderly, UNCHANGED vars
  PROVE  Orderly'
<1>1. UNCHANGED <<at, then, quotes, prices, nextId, engine, book, inbound>>
  BY DEF vars, thread, engineVars
<1>2. Inherits(0) /\ BookAscending'
  BY <1>1, IdleInherits, BookAscendingIdle DEF Orderly
<1>3. \A s \in BookSides : Withdrawn(s)' => Withdrawn(s)
  BY <1>1 DEF Withdrawn
<1> QED BY <1>1, <1>2, <1>3, OrderlyInherited

\* Every step keeps our orders apart.
LEMMA NextOrderly ==
  ASSUME Typed, Orderly, [Next]_vars
  PROVE  Orderly'
<1>1. CASE Demo
  <2>1. CASE \E s \in BookSides : Cancel(s) \/ Post(s)
    BY <2>1, CancelOrderly, PostOrderly
  <2>2. CASE Noise \/ Drain \/ MakeQuote
    BY <2>2, NoiseOrderly, DrainOrderly, MakeQuoteOrderly
  <2>3. CASE Moves
    BY <2>3, MovesOrderly
  <2> QED BY <1>1, <2>1, <2>2, <2>3 DEF Demo, Moves
<1>2. CASE Pop \/ Execute \/ Count
  BY <1>2, PopOrderly, ExecuteOrderly, CountOrderly
<1>3. CASE Done \/ UNCHANGED vars
  BY <1>3, StutterOrderly DEF Done
<1> QED BY <1>1, <1>2, <1>3 DEF Next

\* Our orders are current or withdrawn, and apart, always.
LEMMA OrderlyAlways == Spec => []Orderly
<1>1. Init => Orderly
  BY InitOrderly
<1>2. Typed /\ Orderly /\ [Next]_vars => Orderly'
  BY NextOrderly
<1> QED BY <1>1, <1>2, TypedAlways, PTL DEF Spec

\* Our orders never execute against each other, although the engine would let them:
\* MarketDataMsg carries no account, and cancels and quotes share one queue with the noise.
THEOREM NeverWithItself == Spec => []NoSelfTrade
<1>1. Typed /\ Orderly => NoSelfTrade
  <2> SUFFICES ASSUME Typed, Orderly, NEW i \in Best(book, engine.order),
                      IsOurs(engine.order.id), IsOurs(book[i].id)
               PROVE  FALSE
    BY DEF NoSelfTrade
  <2>1. /\ i \in DOMAIN book /\ book[i].side = Other(engine.order.side)
        /\ AsGood(engine.order.side, engine.order.price, book[i].price)
    BY DEF Best, Opposite
  <2>2. book[i] \in Orders /\ engine.order \in Orders /\ engine.order.side \in BookSides
    BY <2>1, OursType
  <2>3. Ours(0, book[i]) /\ Ours(0, engine.order)
    BY <2>1 DEF Ours
  <2>4. book[i].id < engine.order.id
    BY <2>1 DEF Orderly, BookAscending
  <2>5. Crosses(engine.order, book[i])
    BY <2>1, <2>2 DEF Crosses, Other, BookSides
  <2>6. Between(0, book[i], 0)
    BY <2>2, <2>3, <2>4, <2>5 DEF Orderly, NoCross
  <2> QED BY <2>6, OursType DEF Between
<1> QED BY <1>1, TypedAlways, OrderlyAlways, PTL

----------------------------------------------------------------------------
(***************************************************************************)
(* Reports are attributed to the right side.                               *)
(***************************************************************************)
\* The side the market maker knows of an order is the side of that order.
KnownOrders ==
  \A k \in Nat, o \in Orders : Ours(k, o) /\ o.id \in DOMAIN mm.open => mm.open[o.id] = o.side

KnownReport(r) ==
  /\ r.order_id \in DOMAIN mm.open => mm.open[r.order_id] = r.side
  /\ r.contra_order_id \in DOMAIN mm.open => mm.open[r.contra_order_id] = Other(r.side)
  /\ IsOurs(r.order_id) => r.order_id < nextId
  /\ IsOurs(r.contra_order_id) => r.contra_order_id < nextId

KnownReports == \A k \in DOMAIN outbound : KnownReport(outbound[k].rpt)

\* What was booked, then the reports on their way one after the other, add up
\* to no more than what was traded.
Chain ==
  \A s \in BookSides :
    /\ booked[s] <= traded[s]
    /\ \A k \in DOMAIN outbound : outbound[k].traded[s] <= traded[s]
    /\ outbound # <<>> => booked[s] + ReportQty(outbound[1].rpt, s) <= outbound[1].traded[s]
    /\ \A k \in DOMAIN outbound :
         k > 1 => outbound[k - 1].traded[s] + ReportQty(outbound[k].rpt, s) <= outbound[k].traded[s]

Attributed == KnownOrders /\ KnownReports /\ Chain

\* What a report says of ours on a side is its quantity, or nothing.
LEMMA ReportQtyType ==
  ASSUME NEW r \in Reports, NEW s \in BookSides
  PROVE  ReportQty(r, s) \in Nat /\ (ReportQty(r, s) = 0 \/ ReportQty(r, s) = r.exec_qty)
BY DEF ReportQty, Reports

\* The reports and quantities the invariants speak of.
LEMMA EntryType ==
  ASSUME Typed
  PROVE  /\ Len(outbound) \in Nat /\ DOMAIN outbound = 1..Len(outbound)
         /\ outbound = <<>> <=> Len(outbound) = 0
         /\ \A k \in DOMAIN outbound :
              /\ outbound[k].rpt \in Reports
              /\ \A s \in BookSides : outbound[k].traded[s] \in Nat
              /\ \A s \in BookSides : ReportQty(outbound[k].rpt, s) \in Nat
         /\ \A s \in BookSides : traded[s] \in Nat /\ booked[s] \in Nat
         /\ mm.position \in Int
         /\ DOMAIN mm.open \subseteq Nat /\ \A id \in DOMAIN mm.open : mm.open[id] \in BookSides
<1>1. outbound \in Seq(Entries) /\ traded \in Quantities /\ booked \in Quantities /\ mm \in Accounts
  BY DEF Typed, QueuesOK, EngineOK, AccountOK
<1>2. /\ Len(outbound) \in Nat /\ DOMAIN outbound = 1..Len(outbound)
      /\ outbound = <<>> <=> Len(outbound) = 0
  BY <1>1, LenProperties, EmptySeq
<1>3. \A k \in DOMAIN outbound : outbound[k] \in Entries
  BY <1>1, <1>2, ElementOfSeq
<1>4. \A e \in Entries : e.rpt \in Reports /\ e.traded \in Quantities
  BY DEF Entries
<1>5. \A q \in Quantities, s \in BookSides : q[s] \in Nat
  BY DEF Quantities
<1>6. mm.position \in Int /\ mm.open \in Opens
  BY <1>1 DEF Accounts
<1>7. DOMAIN mm.open \subseteq Nat /\ \A id \in DOMAIN mm.open : mm.open[id] \in BookSides
  BY <1>6, OpenOrders
<1>8. \A k \in DOMAIN outbound :
        /\ outbound[k].rpt \in Reports
        /\ \A s \in BookSides : outbound[k].traded[s] \in Nat
        /\ \A s \in BookSides : ReportQty(outbound[k].rpt, s) \in Nat
  BY <1>3, <1>4, <1>5, ReportQtyType
<1> QED BY <1>1, <1>2, <1>5, <1>6, <1>7, <1>8

\* A side once known stays right while orders only move up.
LEMMA KnownOrdersKept ==
  ASSUME Typed, KnownOrders, NEW d \in {0, 1}, Inherits(d),
         DOMAIN mm'.open \subseteq DOMAIN mm.open, \A id \in DOMAIN mm'.open : mm'.open[id] = mm.open[id]
  PROVE  KnownOrders'
<1> SUFFICES ASSUME NEW k \in Nat, NEW o \in Orders, Ours(k, o)', o.id \in DOMAIN mm'.open
             PROVE  mm'.open[o.id] = o.side
  BY DEF KnownOrders
<1>1. PICK l \in Nat, p \in Orders : From(k, o, l, p, d)
  BY Ancestor
<1>2. Ours(l, p) /\ o.id = p.id /\ o.side = p.side
  BY <1>1 DEF From, Same
<1> QED BY <1>2 DEF KnownOrders

\* Steps that leave the reports and the accounts alone.
LEMMA AttributedKept ==
  ASSUME Typed, Attributed, NEW d \in {0, 1}, Inherits(d), UNCHANGED <<mm, nextId, booked, traded, outbound>>
  PROVE  Attributed'
<1>1. KnownOrders'
  BY KnownOrdersKept DEF Attributed
<1>2. KnownReports' /\ Chain'
  BY DEF Attributed, KnownReports, KnownReport, Chain
<1> QED BY <1>1, <1>2 DEF Attributed

\* register_order() records the side of the order just submitted, under a fresh id.
LEMMA PostAttributed ==
  ASSUME Typed, Orderly, Attributed, NEW s \in BookSides, Post(s)
  PROVE  Attributed'
<1>1. UNCHANGED <<engine, book, booked, traded, outbound>>
  BY PostFrame
<1>2. CASE prices[s] = PRICE_INVALID
  <2>1. UNCHANGED <<inbound, mm, nextId>>
    BY <1>2, PostFrame
  <2> QED BY <1>1, <2>1, IdleInherits, AttributedKept
<1>3. CASE prices[s] # PRICE_INVALID
  <2> DEFINE m == NewLimit(nextId, s, prices[s], QuoteQty)
  <2>1. Submit(m) /\ m \in Messages /\ nextId' = nextId + 1 /\ mm' = RegisterOrder(mm, nextId, s)
    BY <1>3, PostFrame
  <2>2. nextId \in Nat /\ mm \in Accounts
    BY DEF Typed, ThreadOK, AccountOK
  <2>3. /\ DOMAIN mm'.open = DOMAIN mm.open \cup {nextId} /\ mm'.open[nextId] = s
        /\ \A i \in DOMAIN mm.open \ {nextId} : mm'.open[i] = mm.open[i]
    BY <2>1, <2>2, Registered
  <2>4. OrderIn(m).id = nextId /\ OrderIn(m).side = s
    BY DEF NewLimit, OrderIn
  <2>5. nextId \notin DOMAIN mm.open
    BY <2>2 DEF Typed, OpenIds
  <2> HIDE DEF m
  <2>6. KnownOrders'
    <3> SUFFICES ASSUME NEW k \in Nat, NEW o \in Orders, Ours(k, o)', o.id \in DOMAIN mm'.open
                 PROVE  mm'.open[o.id] = o.side
      BY DEF KnownOrders
    <3>1. CASE From(k, o, k, o, 0)
      <4>1. Ours(k, o) /\ o.id < nextId /\ o.id \in Nat
        BY <3>1, OursType DEF From, Orderly, QueueAscending
      <4>2. o.id # nextId
        BY <2>2, <4>1
      <4> QED BY <2>3, <4>1, <4>2 DEF Attributed, KnownOrders
    <3>2. CASE o = OrderIn(m)
      BY <2>3, <2>4, <3>2
    <3> QED BY <1>1, <2>1, <3>1, <3>2, SubmitInherits
  <2>7. KnownReports'
    <3> SUFFICES ASSUME NEW k \in DOMAIN outbound
                 PROVE  KnownReport(outbound[k].rpt)'
      BY <1>1 DEF KnownReports
    <3>0. PICK r : r = outbound[k].rpt
      OBVIOUS
    <3>1. KnownReport(r) /\ r \in Reports
      BY <3>0, EntryType DEF Attributed, KnownReports
    <3>2. r.order_id \in Nat /\ r.contra_order_id \in Nat /\ NEvents \in Nat /\ nextId > NEvents
      BY <3>1, Constants DEF Reports, Typed, ThreadOK
    <3>4. ~(IsOurs(nextId) /\ (r.order_id = nextId \/ r.contra_order_id = nextId))
      BY <2>2, <3>1 DEF KnownReport
    <3>5. IsOurs(nextId)
      BY <3>2 DEF IsOurs
    <3>6. (IsOurs(r.order_id) => r.order_id < nextId') /\ (IsOurs(r.contra_order_id) => r.contra_order_id < nextId')
      BY <2>1, <2>2, <3>1, <3>2 DEF KnownReport
    <3>7. KnownReport(r)'
      BY <2>3, <3>1, <3>4, <3>5, <3>6 DEF KnownReport
    <3> QED BY <1>1, <3>0, <3>7
  <2>8. Chain'
    BY <1>1 DEF Attributed, Chain
  <2> QED BY <2>6, <2>7, <2>8 DEF Attributed
<1> QED BY <1>2, <1>3

----------------------------------------------------------------------------
(***************************************************************************)
(* ... when one is read, and when one is made.                             *)
(***************************************************************************)
\* The position, seen from a side.
Exposure(s) == IF s = "Buy" THEN mm.position ELSE -mm.position

\* A fill that is booked is booked on the side and with the quantity that our
\* order executed.
LEMMA DrainBooks ==
  ASSUME Typed, Attributed, Drain, NEW s \in BookSides
  PROVE  /\ booked'[s] <= booked[s] + ReportQty(outbound[1].rpt, s)
         /\ Exposure(s)' <= Exposure(s) + ReportQty(outbound[1].rpt, s)
         /\ booked'[s] \in Nat /\ mm'.position \in Int
<1> DEFINE r == outbound[1].rpt
           id == IF r.order_id \in DOMAIN mm.open THEN r.order_id ELSE r.contra_order_id
           signed == mm'.position - mm.position
           q == r.exec_qty
<1>1. /\ r \in Reports /\ mm' = OnFill(mm, r) /\ Head(outbound) = outbound[1]
      /\ Len(outbound) \in Nat /\ Len(outbound) > 0 /\ DOMAIN outbound = 1..Len(outbound)
  BY DrainFrame
<1>2. booked' = [booked EXCEPT ![IF signed > 0 THEN "Buy" ELSE "Sell"] = @ + Magnitude(signed)]
  BY <1>1 DEF Drain
<1>3. cash \in Int /\ mm \in Accounts
  BY DEF Typed, AccountOK
<1>4. KnownReport(r)
  BY <1>1 DEF Attributed, KnownReports
<1>5. q \in Nat /\ q > 0
  BY <1>1 DEF Reports
<1> HIDE DEF r
<1>6. /\ mm' \in Accounts
      /\ IF id \in DOMAIN mm.open
         THEN mm'.position = mm.position + Signed(mm.open[id], q)
         ELSE mm'.position = mm.position
  BY <1>1, <1>3, OnFillAccount
<1>7. mm.position \in Int /\ mm'.position \in Int
  BY <1>3, <1>6 DEF Accounts
<1>8. booked \in [BookSides -> Nat] /\ booked[s] \in Nat
  BY DEF Typed, AccountOK, Quantities
<1>9. ReportQty(r, s) \in Nat
  BY <1>1, ReportQtyType
<1>10. CASE id \in DOMAIN mm.open
  <2>1. IsOurs(id) /\ mm.open[id] \in BookSides
    BY <1>10, EntryType DEF Typed, OpenIds, IsOurs
  <2>2. \/ id = r.order_id /\ mm.open[id] = r.side
        \/ id = r.contra_order_id /\ mm.open[id] = Other(r.side)
    BY <1>4, <1>10 DEF KnownReport
  <2>3. mm.open[id] = s => ReportQty(r, s) = q
    BY <2>1, <2>2 DEF ReportQty
  <2>4. signed = Signed(mm.open[id], q) /\ signed \in Int
    BY <1>5, <1>6, <1>7, <1>10, <2>1 DEF Signed
  <2> HIDE DEF signed, id, q
  <2>5. mm.open[id] = "Buy" => signed = q /\ signed > 0
    BY <1>5, <2>4 DEF Signed
  <2>6. mm.open[id] = "Sell" => signed = -q /\ ~(signed > 0)
    BY <1>5, <2>4 DEF Signed
  <2>7. Magnitude(signed) = q
    BY <1>5, <2>1, <2>5, <2>6 DEF Magnitude, BookSides
  <2>8. booked' = [booked EXCEPT ![mm.open[id]] = @ + q]
    BY <1>2, <2>1, <2>5, <2>6, <2>7 DEF BookSides
  <2>9. booked'[s] = IF mm.open[id] = s THEN booked[s] + q ELSE booked[s]
    BY <1>8, <2>1, <2>8
  <2>10. booked'[s] <= booked[s] + ReportQty(r, s) /\ booked'[s] \in Nat
    BY <1>5, <1>8, <1>9, <2>3, <2>9
  <2>11. mm'.position = mm.position + signed
    BY <1>7 DEF signed
  <2>12. Exposure(s)' <= Exposure(s) + ReportQty(r, s)
    BY <1>5, <1>7, <1>9, <2>1, <2>3, <2>5, <2>6, <2>11 DEF Exposure, BookSides
  <2> QED BY <1>7, <2>10, <2>12 DEF r
<1>11. CASE id \notin DOMAIN mm.open
  <2>1. mm'.position = mm.position
    BY <1>6, <1>11
  <2>2. signed = 0 /\ Magnitude(signed) = 0
    BY <1>7, <2>1 DEF Magnitude
  <2> HIDE DEF signed
  <2>3. booked' = [booked EXCEPT !["Sell"] = @ + 0]
    <3>1. (IF signed > 0 THEN "Buy" ELSE "Sell") = "Sell"
      BY <2>2
    <3> QED BY <1>2, <2>2, <3>1, Zenon
  <2>4. booked'[s] = booked[s]
    <3>1. booked["Sell"] \in Nat
      BY <1>8 DEF BookSides
    <3>2. booked["Sell"] + 0 = booked["Sell"]
      BY <3>1
    <3> QED BY <1>8, <2>3, <3>2
  <2>5. Exposure(s)' = Exposure(s) /\ Exposure(s) \in Int
    BY <1>7, <2>1 DEF Exposure
  <2> QED BY <1>7, <1>8, <1>9, <2>4, <2>5 DEF r
<1> QED BY <1>10, <1>11

\* Reading a report books no more than it says of ours.
LEMMA DrainAttributed ==
  ASSUME Typed, Attributed, Drain
  PROVE  Attributed'
<1>1. /\ outbound[1].rpt \in Reports /\ mm' = OnFill(mm, outbound[1].rpt)
      /\ Len(outbound) \in Nat /\ Len(outbound) > 0 /\ DOMAIN outbound = 1..Len(outbound)
      /\ outbound' \in Seq(Entries) /\ Len(outbound') = Len(outbound) - 1
      /\ DOMAIN outbound' = 1..(Len(outbound) - 1)
      /\ \A k \in DOMAIN outbound' : outbound'[k] = outbound[k + 1]
      /\ UNCHANGED <<nextId, engine, book, traded, inbound>>
  BY DrainFrame
<1>2. cash \in Int /\ mm \in Accounts
  BY DEF Typed, AccountOK
<1>3. DOMAIN mm'.open \subseteq DOMAIN mm.open /\ \A id \in DOMAIN mm'.open : mm'.open[id] = mm.open[id]
  BY <1>1, <1>2, OnFillAccount
<1>4. KnownOrders'
  BY <1>1, <1>3, IdleInherits, KnownOrdersKept DEF Attributed
<1>5. KnownReports'
  <2>1. ASSUME NEW r, KnownReport(r) PROVE KnownReport(r)'
    BY <1>1, <1>3, <2>1 DEF KnownReport
  <2>2. ASSUME NEW k \in DOMAIN outbound' PROVE KnownReport(outbound'[k].rpt)
    BY <1>1, <2>2 DEF Attributed, KnownReports
  <2> SUFFICES ASSUME NEW k \in DOMAIN outbound' PROVE KnownReport(outbound[k].rpt)'
    BY DEF KnownReports
  <2>3. PICK r : r = outbound'[k].rpt
    OBVIOUS
  <2> QED BY <2>1, <2>2, <2>3
<1>6. Chain'
  <2> SUFFICES ASSUME NEW s \in BookSides
               PROVE  /\ booked'[s] <= traded'[s]
                      /\ \A k \in DOMAIN outbound' : outbound'[k].traded[s] <= traded'[s]
                      /\ outbound' # <<>> =>
                           booked'[s] + ReportQty(outbound'[1].rpt, s) <= outbound'[1].traded[s]
                      /\ \A k \in DOMAIN outbound' :
                           k > 1 => outbound'[k - 1].traded[s] + ReportQty(outbound'[k].rpt, s)
                                      <= outbound'[k].traded[s]
    BY DEF Chain
  <2>1. /\ booked[s] + ReportQty(outbound[1].rpt, s) <= outbound[1].traded[s]
        /\ outbound[1].traded[s] <= traded[s]
        /\ traded[s] \in Nat /\ booked[s] \in Nat /\ outbound[1].traded[s] \in Nat
        /\ ReportQty(outbound[1].rpt, s) \in Nat
    BY <1>1, EntryType DEF Attributed, Chain
  <2>2. booked'[s] <= booked[s] + ReportQty(outbound[1].rpt, s) /\ booked'[s] \in Nat
    BY DrainBooks
  <2>3. booked'[s] <= outbound[1].traded[s]
    BY <2>1, <2>2
  <2>4. booked'[s] <= traded'[s]
    BY <1>1, <2>1, <2>3, <2>2
  <2>5. \A k \in DOMAIN outbound' : outbound'[k].traded[s] <= traded'[s]
    BY <1>1 DEF Attributed, Chain
  <2>6. ASSUME outbound' # <<>>
        PROVE  booked'[s] + ReportQty(outbound'[1].rpt, s) <= outbound'[1].traded[s]
    <3>1. Len(outbound) > 1
      BY <1>1, <2>6, EmptySeq
    <3>2. outbound'[1] = outbound[2] /\ 2 \in DOMAIN outbound
      BY <1>1, <3>1
    <3>3. outbound[1].traded[s] + ReportQty(outbound[2].rpt, s) <= outbound[2].traded[s]
      BY <3>2 DEF Attributed, Chain
    <3>4. ReportQty(outbound[2].rpt, s) \in Nat /\ outbound[2].traded[s] \in Nat
      BY <3>2, EntryType
    <3> QED BY <2>1, <2>2, <2>3, <3>2, <3>3, <3>4
  <2>7. ASSUME NEW k \in DOMAIN outbound', k > 1
        PROVE  outbound'[k - 1].traded[s] + ReportQty(outbound'[k].rpt, s) <= outbound'[k].traded[s]
    <3>1. outbound'[k] = outbound[k + 1] /\ outbound'[k - 1] = outbound[k] /\ k + 1 \in DOMAIN outbound /\ k + 1 > 1
          /\ (k + 1) - 1 = k
      BY <1>1, <2>7
    <3>2. outbound[(k + 1) - 1].traded[s] + ReportQty(outbound[k + 1].rpt, s) <= outbound[k + 1].traded[s]
      BY <3>1 DEF Attributed, Chain
    <3> QED BY <3>1, <3>2
  <2> QED BY <2>4, <2>5, <2>6, <2>7
<1> QED BY <1>4, <1>5, <1>6 DEF Attributed

\* A new report names our order with the side it was registered with.
LEMMA ExecuteAttributed ==
  ASSUME Typed, Orderly, Attributed, Execute
  PROVE  Attributed'
<1>1. /\ engine.at = "match" /\ engine.order \in Orders
      /\ Len(outbound) \in Nat /\ DOMAIN outbound = 1..Len(outbound)
      /\ UNCHANGED <<nextId, mm, booked, inbound>>
  BY ExecuteFrame
<1>2. PICK i \in DOMAIN book, qty \in Nat, rpt \in Reports :
        /\ book[i] \in Orders
        /\ rpt.order_id = engine.order.id /\ rpt.contra_order_id = book[i].id
        /\ rpt.side = engine.order.side /\ book[i].side = Other(engine.order.side)
        /\ \A s \in BookSides : traded'[s] = traded[s] + ReportQty(rpt, s)
        /\ Appended([rpt |-> rpt, traded |-> traded']) \/ outbound' = outbound
  BY ExecuteFrame
<1>3. Inherits(0)
  BY ExecuteInherits DEF Orderly
<1>4. KnownOrders'
  BY <1>1, <1>3, KnownOrdersKept DEF Attributed
<1>5. KnownReport(rpt)
  <2>1. ASSUME IsOurs(engine.order.id)
        PROVE  /\ engine.order.id \in DOMAIN mm.open => mm.open[engine.order.id] = engine.order.side
               /\ engine.order.id < nextId
    <3>1. Ours(0, engine.order)
      BY <2>1 DEF Ours
    <3> QED BY <1>1, <3>1 DEF Attributed, KnownOrders, Orderly, QueueAscending
  <2>2. ASSUME IsOurs(book[i].id)
        PROVE  /\ book[i].id \in DOMAIN mm.open => mm.open[book[i].id] = book[i].side
               /\ book[i].id < nextId
    <3>1. Ours(0, book[i])
      BY <2>2 DEF Ours
    <3> QED BY <1>2, <3>1 DEF Attributed, KnownOrders, Orderly, QueueAscending
  <2>3. \A id \in DOMAIN mm.open : IsOurs(id)
    BY DEF Typed, OpenIds, IsOurs
  <2> QED BY <1>2, <2>1, <2>2, <2>3 DEF KnownReport
<1>6. ASSUME NEW r, KnownReport(r) PROVE KnownReport(r)'
  BY <1>1, <1>6 DEF KnownReport
<1>7. \A s \in BookSides : ReportQty(rpt, s) \in Nat /\ traded[s] \in Nat
  BY ReportQtyType, EntryType
<1>8. CASE outbound' = outbound
  <2>1. KnownReports'
    <3> SUFFICES ASSUME NEW k \in DOMAIN outbound PROVE KnownReport(outbound[k].rpt)'
      BY <1>8 DEF KnownReports
    <3>1. PICK r : r = outbound[k].rpt
      OBVIOUS
    <3> QED BY <1>6, <1>8, <3>1 DEF Attributed, KnownReports
  <2>2. Chain'
    <3> SUFFICES ASSUME NEW s \in BookSides
                 PROVE  /\ booked[s] <= traded'[s]
                        /\ \A k \in DOMAIN outbound : outbound[k].traded[s] <= traded'[s]
      BY <1>1, <1>8 DEF Attributed, Chain
    <3>1. traded'[s] = traded[s] + ReportQty(rpt, s) /\ traded[s] <= traded'[s] /\ traded'[s] \in Nat
      BY <1>2, <1>7
    <3>2. booked[s] <= traded[s] /\ \A k \in DOMAIN outbound : outbound[k].traded[s] <= traded[s]
      BY DEF Attributed, Chain
    <3> QED BY <1>7, <3>1, <3>2, EntryType
  <2> QED BY <1>4, <2>1, <2>2 DEF Attributed
<1>9. CASE Appended([rpt |-> rpt, traded |-> traded'])
  <2> DEFINE n == Len(outbound)
  <2>1. /\ DOMAIN outbound' = 1..(n + 1) /\ n \in Nat
        /\ outbound'[n + 1].rpt = rpt /\ outbound'[n + 1].traded = traded'
        /\ \A k \in 1..n : outbound'[k] = outbound[k]
    BY <1>1, <1>9 DEF Appended
  <2>2. KnownReports'
    <3> SUFFICES ASSUME NEW k \in DOMAIN outbound' PROVE KnownReport(outbound[k].rpt)'
      BY DEF KnownReports
    <3>1. PICK r : r = outbound'[k].rpt
      OBVIOUS
    <3>2. KnownReport(r)
      BY <1>1, <1>5, <2>1, <3>1 DEF Attributed, KnownReports
    <3> QED BY <1>6, <3>1, <3>2
  <2>3. Chain'
    <3> SUFFICES ASSUME NEW s \in BookSides
                 PROVE  /\ booked[s] <= traded'[s]
                        /\ \A k \in DOMAIN outbound' : outbound'[k].traded[s] <= traded'[s]
                        /\ booked[s] + ReportQty(outbound'[1].rpt, s) <= outbound'[1].traded[s]
                        /\ \A k \in DOMAIN outbound' :
                             k > 1 => outbound'[k - 1].traded[s] + ReportQty(outbound'[k].rpt, s)
                                        <= outbound'[k].traded[s]
      BY <1>1 DEF Chain
    <3>1. traded'[s] = traded[s] + ReportQty(rpt, s) /\ traded[s] <= traded'[s] /\ traded'[s] \in Nat
      BY <1>2, <1>7
    <3>2. booked[s] <= traded[s] /\ \A k \in DOMAIN outbound : outbound[k].traded[s] <= traded[s]
      BY DEF Attributed, Chain
    <3>3. booked[s] <= traded'[s]
      BY <1>7, <3>1, <3>2, EntryType
    <3>4. \A k \in DOMAIN outbound' : outbound'[k].traded[s] <= traded'[s]
      <4> SUFFICES ASSUME NEW k \in 1..(n + 1) PROVE outbound'[k].traded[s] <= traded'[s]
        BY <2>1
      <4>1. CASE k = n + 1
        BY <2>1, <3>1, <4>1
      <4>2. CASE k \in 1..n
        BY <1>1, <1>7, <2>1, <3>1, <3>2, <4>2, EntryType
      <4> QED BY <2>1, <4>1, <4>2
    <3>5. booked[s] + ReportQty(outbound'[1].rpt, s) <= outbound'[1].traded[s]
      <4>1. CASE n = 0
        BY <1>7, <2>1, <3>1, <3>2, <4>1, EntryType
      <4>2. CASE n > 0
        BY <1>1, <2>1, <4>2, EmptySeq, EntryType DEF Attributed, Chain
      <4> QED BY <2>1, <4>1, <4>2
    <3>6. ASSUME NEW k \in 1..(n + 1), k > 1
          PROVE  outbound'[k - 1].traded[s] + ReportQty(outbound'[k].rpt, s) <= outbound'[k].traded[s]
      <4>1. CASE k = n + 1
        <5>1. outbound'[k - 1] = outbound[n] /\ n \in DOMAIN outbound
          BY <1>1, <2>1, <3>6, <4>1
        <5>2. outbound[n].traded[s] <= traded[s] /\ outbound[n].traded[s] \in Nat
          BY <3>2, <5>1, EntryType
        <5> QED BY <1>7, <2>1, <3>1, <4>1, <5>1, <5>2
      <4>2. CASE k \in 1..n
        <5>1. outbound'[k - 1] = outbound[k - 1] /\ outbound'[k] = outbound[k] /\ k \in DOMAIN outbound
          BY <1>1, <2>1, <3>6, <4>2
        <5> QED BY <3>6, <5>1 DEF Attributed, Chain
      <4> QED BY <2>1, <4>1, <4>2
    <3> QED BY <2>1, <3>3, <3>4, <3>5, <3>6
  <2> QED BY <1>4, <2>2, <2>3 DEF Attributed
<1> QED BY <1>2, <1>8, <1>9

----------------------------------------------------------------------------
(***************************************************************************)
(* ... always; and the market is settled when a quote is made.             *)
(***************************************************************************)
\* At the start nothing is traded and nothing booked.
LEMMA InitAttributed ==
  ASSUME Init
  PROVE  Attributed
<1>1. /\ DOMAIN outbound = {} /\ outbound = <<>> /\ mm = NewMarketMaker
      /\ \A s \in BookSides : traded[s] = 0 /\ booked[s] = 0
  BY DEF Init
<1>2. DOMAIN mm.open = {}
  BY <1>1 DEF NewMarketMaker
<1> QED BY <1>1, <1>2 DEF Attributed, KnownOrders, KnownReports, Chain

\* Every step keeps what is booked covered by what was traded.
LEMMA NextAttributed ==
  ASSUME Typed, Orderly, Attributed, [Next]_vars
  PROVE  Attributed'
<1>1. CASE Silent
  BY <1>1, SilentInherits, AttributedKept
<1>2. CASE Pop
  <2>1. UNCHANGED <<mm, nextId, booked, traded, outbound>>
    BY <1>2, PopFrame
  <2>2. Inherits(1)
    BY <1>2, PopInherits DEF Orderly
  <2> QED BY <2>1, <2>2, AttributedKept
<1>3. CASE Count
  <2>1. UNCHANGED <<mm, nextId, booked, traded, outbound>>
    BY <1>3, CountFrame
  <2>2. Inherits(0)
    BY <1>3, CountInherits
  <2> QED BY <2>1, <2>2, AttributedKept
<1>4. CASE Drain \/ Execute
  BY <1>4, DrainAttributed, ExecuteAttributed
<1>5. CASE \E s \in BookSides : Post(s)
  BY <1>5, PostAttributed
<1>6. Silent \/ Pop \/ Count \/ Drain \/ Execute \/ \E s \in BookSides : Post(s)
  BY DEF Next, Demo, Done, Silent, Moves
<1> QED BY <1>1, <1>2, <1>3, <1>4, <1>5, <1>6

\* It is covered always.
LEMMA AttributedAlways == Spec => []Attributed
<1>1. Init => Attributed
  BY InitAttributed
<1>2. Typed /\ Orderly /\ Attributed /\ [Next]_vars => Attributed'
  BY NextAttributed
<1> QED BY <1>1, <1>2, TypedAlways, OrderlyAlways, PTL DEF Spec

\* On each side on_fill() never records more than our orders have executed, whichever
\* party of the execution we were.
THEOREM BooksOnlyItsTrades == Spec => []NeverOverbooked
<1>1. Attributed => NeverOverbooked
  BY DEF Attributed, Chain, NeverOverbooked
<1> QED BY <1>1, AttributedAlways, PTL

\* No wait has given up.
InTime == ~late

\* Only the deadline of wait_caught_up() makes it late, for good.
LEMMA InTimeKept ==
  ASSUME [Next]_vars, InTime'
  PROVE  InTime /\ ~TimeOut
<1>1. ~TimeOut
  BY Zenon DEF InTime, TimeOut
<1>2. late' = late
  BY <1>1, Zenon DEF Next, Demo, Noise, Drain, Drained, CaughtUp, MakeQuote, TailOver, Stop,
     Cancel, Post, Pop, Execute, Count, Done, vars, thread
<1> QED BY <1>1, <1>2, Zenon DEF InTime

NoneLeft == \A k \in Nat, o \in Orders : ~Ours(k, o)

\* The thread has settled the market once, and withdraws its quotes.
Withdrawing ==
  at \in {"cancelBuy", "cancelSell"} \/ (at \in {"drain", "counter"} /\ then \in {"quote", "tail"})

OnlyCancels == engine = Polling /\ \A k \in DOMAIN inbound : inbound[k] \in Cancels

Settled ==
  /\ Withdrawing => OnlyCancels
  /\ at = "counter" /\ then \in {"quote", "tail"} => outbound = <<>>
  /\ at \in {"quote", "postBuy"} =>
       inbound = <<>> /\ outbound = <<>> /\ engine = Polling /\ NoneLeft

\* The counter has caught up: nothing is queued and nothing is in hand.
LEMMA CaughtUpMeans ==
  ASSUME Typed, at = "counter", processed >= submitted
  PROVE  inbound = <<>> /\ engine = Polling
<1>1. processed \in Nat /\ submitted \in Nat /\ Len(inbound) \in Nat /\ inbound \in Seq(Messages)
  BY OursType DEF Typed, EngineOK, QueuesOK
<1>2. processed + Len(inbound) + InHandCount = submitted
  BY DEF Typed, Counting
<1>3. InHandCount \in {0, 1}
  BY DEF InHandCount
<1>4. Len(inbound) = 0 /\ InHandCount = 0
  BY <1>1, <1>2, <1>3
<1>5. engine.at = "pop"
  BY <1>4 DEF InHandCount, Typed, EngineOK
<1> QED BY <1>1, <1>4, <1>5, EmptySeq DEF Typed, EngineOK

\* A message is a new order or a cancel, never both.
LEMMA NewIsNoCancel ==
  ASSUME NEW m \in NewOrders
  PROVE  m \notin Cancels
BY DEF NewOrders, Cancels

\* wait_caught_up() returns to an empty queue and an idle engine; the second time, with
\* the cancels done, to a market without an order of ours.
LEMMA SettledMoves ==
  ASSUME Typed, Orderly, Settled, Moves, ~TimeOut
  PROVE  Settled'
<1>1. UNCHANGED <<then, engine, inbound, outbound, book>>
  BY DEF Moves, Drained, CaughtUp, TimeOut, TailOver, Stop, engineVars
<1>2. then \in {"noise", "cancelBuy", "quote", "tail"}
  BY DEF Typed, ThreadOK
<1>3. CASE Drained
  BY <1>1, <1>2, <1>3 DEF Drained, Settled, Withdrawing, OnlyCancels
<1>4. CASE CaughtUp /\ ~(processed >= submitted)
  <2>1. at = "counter" /\ at' = "drain"
    BY <1>4 DEF CaughtUp
  <2> QED BY <1>1, <1>2, <2>1 DEF Settled, Withdrawing, OnlyCancels
<1>5. CASE CaughtUp /\ processed >= submitted
  <2>1. at = "counter" /\ at' = then
    BY <1>5 DEF CaughtUp
  <2>2. inbound = <<>> /\ engine = Polling
    BY <1>5, <2>1, CaughtUpMeans
  <2>3. OnlyCancels'
    BY <1>1, <2>2 DEF OnlyCancels
  <2>4. ASSUME then = "quote" PROVE outbound = <<>> /\ NoneLeft'
    <3>1. outbound = <<>>
      BY <2>1, <2>4 DEF Settled
    <3>2. NoneLeft
      <4> SUFFICES ASSUME NEW k \in Nat, NEW o \in Orders, Ours(k, o) PROVE FALSE
        BY DEF NoneLeft
      <4>1. ~Standing(o)
        BY <2>1, <2>4 DEF Standing, Withdrawn
      <4>2. ~Covered(k, o)
        BY <2>2 DEF Covered
      <4> QED BY <4>1, <4>2 DEF Orderly, Posted
    <3> QED BY <1>1, <3>1, <3>2 DEF NoneLeft, Ours
  <2> QED BY <1>1, <1>2, <2>1, <2>2, <2>3, <2>4 DEF Settled, Withdrawing
<1>6. CASE TailOver \/ Stop
  BY <1>6 DEF TailOver, Stop, Settled, Withdrawing
<1> QED BY <1>3, <1>4, <1>5, <1>6 DEF Moves

\* After the first wait only cancels enter the queue.
LEMMA SettledCancel ==
  ASSUME Typed, Settled, NEW s \in BookSides, Cancel(s)
  PROVE  Settled'
<1> DEFINE m == [msg_type |-> "CancelOrder", order_id |-> quotes[s]]
<1>1. engine' = engine /\ outbound' = outbound
  BY DEF Cancel, engineVars
<1>2. /\ at \in {"cancelBuy", "cancelSell"}
      /\ at' = "cancelSell" \/ (at' = "drain" /\ then' \in {"tail", "quote"})
  BY DEF Cancel, CancelAt, WaitThen, BookSides
<1>3. m \in Cancels /\ m \in Messages
  BY DEF Messages, Cancels, Typed, ThreadOK, Quantities
<1>4. inbound' = inbound \/ Submit(m)
  BY DEF Cancel
<1>5. OnlyCancels
  BY <1>2 DEF Settled, Withdrawing
<1> HIDE DEF m
<1>6. OnlyCancels'
  <2>1. CASE inbound' = inbound
    BY <1>1, <1>5, <2>1 DEF OnlyCancels
  <2>2. CASE Submit(m)
    <3>1. /\ Len(inbound) \in Nat /\ DOMAIN inbound = 1..Len(inbound)
          /\ DOMAIN inbound' = 1..(Len(inbound) + 1)
          /\ inbound'[Len(inbound) + 1] = m
          /\ \A k \in DOMAIN inbound : inbound'[k] = inbound[k]
      BY <1>1, <1>3, <2>2, Submitted DEF Typed
    <3> QED BY <1>1, <1>3, <1>5, <3>1 DEF OnlyCancels
  <2> QED BY <1>4, <2>1, <2>2
<1> QED BY <1>2, <1>6 DEF Settled

\* The engine then does nothing but cancel: it makes no report.
LEMMA SettledEngine ==
  ASSUME Typed, Settled, Pop \/ Execute \/ Count
  PROVE  Settled'
<1>1. CASE Pop
  <2>1. /\ Len(inbound) \in Nat /\ Len(inbound) > 0
        /\ DOMAIN inbound = 1..Len(inbound) /\ DOMAIN inbound' = 1..(Len(inbound) - 1)
        /\ \A k \in DOMAIN inbound' : inbound'[k] = inbound[k + 1]
        /\ TakesOrder \/ TakesCancel
        /\ UNCHANGED <<at, then, outbound>>
    BY <1>1, PopFrame
  <2>2. inbound # <<>>
    BY <1>1 DEF Pop
  <2>3. ASSUME OnlyCancels PROVE OnlyCancels'
    <3>1. inbound[1] \in Cancels
      BY <2>1, <2>3 DEF OnlyCancels
    <3>2. ~TakesOrder
      BY <3>1, NewIsNoCancel DEF TakesOrder
    <3>3. engine' = Polling
      BY <2>1, <3>2 DEF TakesCancel
    <3> QED BY <2>1, <2>3, <3>3 DEF OnlyCancels
  <2> QED BY <2>1, <2>2, <2>3 DEF Settled, Withdrawing
<1>2. CASE Execute \/ Count
  <2>1. engine.at = "match" /\ UNCHANGED <<at, then>>
    BY <1>2, ExecuteFrame, CountFrame
  <2>2. engine # Polling
    BY <2>1, PollingType
  <2> QED BY <2>1, <2>2 DEF Settled, Withdrawing, OnlyCancels
<1> QED BY <1>1, <1>2

\* The other steps of the thread are taken elsewhere.
LEMMA SettledRest ==
  ASSUME Typed, Settled, Noise \/ Drain \/ MakeQuote \/ (\E s \in BookSides : Post(s)) \/ UNCHANGED vars
  PROVE  Settled'
<1>1. CASE Noise
  <2>1. at = "noise" /\ ((at' = at /\ then' = then) \/ (at' = "drain" /\ then' = "cancelBuy"))
    BY <1>1 DEF Noise, WaitThen
  <2> QED BY <2>1 DEF Settled, Withdrawing
<1>2. CASE Drain
  <2>1. at \in {"drain", "tail"} /\ UNCHANGED <<at, then, engine, inbound>>
    BY <1>2, DrainFrame
  <2> QED BY <2>1 DEF Settled, Withdrawing, OnlyCancels
<1>3. CASE MakeQuote
  <2>1. at = "quote" /\ at' = "postBuy" /\ UNCHANGED <<engine, book, inbound, outbound>>
    BY <1>3 DEF MakeQuote, engineVars
  <2>2. NoneLeft => NoneLeft'
    BY <2>1 DEF NoneLeft, Ours
  <2> QED BY <2>1, <2>2 DEF Settled, Withdrawing
<1>4. CASE \E s \in BookSides : Post(s)
  <2>1. at' = "postSell" \/ (at' = "drain" /\ then' \in {"cancelBuy", "noise"})
    BY <1>4, PostFrame
  <2> QED BY <2>1 DEF Settled, Withdrawing
<1>5. CASE UNCHANGED vars
  <2>1. UNCHANGED <<at, then, engine, book, inbound, outbound>>
    BY <1>5 DEF vars, thread, engineVars
  <2>2. NoneLeft => NoneLeft'
    BY <2>1 DEF NoneLeft, Ours
  <2> QED BY <2>1, <2>2 DEF Settled, Withdrawing, OnlyCancels
<1> QED BY <1>1, <1>2, <1>3, <1>4, <1>5

\* Unless a wait gave up, the market is settled where the code counts on it.
LEMMA SettledAlways == Spec => [](InTime => Settled)
<1>1. Init => Settled
  BY DEF Init, Settled, Withdrawing
<1>2. ASSUME Typed, Orderly, InTime => Settled, [Next]_vars, InTime'
      PROVE  Settled'
  <2>1. Settled /\ ~TimeOut
    BY <1>2, InTimeKept
  <2>2. CASE Moves
    BY <1>2, <2>1, <2>2, SettledMoves
  <2>3. CASE \E s \in BookSides : Cancel(s)
    BY <1>2, <2>1, <2>3, SettledCancel
  <2>4. CASE Pop \/ Execute \/ Count
    BY <1>2, <2>1, <2>4, SettledEngine
  <2>5. CASE Noise \/ Drain \/ MakeQuote \/ (\E s \in BookSides : Post(s)) \/ UNCHANGED vars
    BY <1>2, <2>1, <2>5, SettledRest
  <2>6. \/ Moves \/ (\E s \in BookSides : Cancel(s)) \/ Pop \/ Execute \/ Count
        \/ Noise \/ Drain \/ MakeQuote \/ (\E s \in BookSides : Post(s)) \/ UNCHANGED vars
    BY <1>2 DEF Next, Demo, Done, Moves
  <2> QED BY <2>2, <2>3, <2>4, <2>5, <2>6
<1>3. Typed /\ Orderly /\ (InTime => Settled) /\ [Next]_vars => (InTime => Settled)'
  BY <1>2
<1> QED BY <1>1, <1>3, TypedAlways, OrderlyAlways, PTL DEF Spec

\* compute_quote() sees a settled market: both waits have done their work although the
\* counter is read after the reports.
THEOREM QuotesOnSettledMarket == Spec => []QuoteOnSettledMarket
<1>1. ASSUME Typed, InTime => Settled
      PROVE  QuoteOnSettledMarket
  <2> SUFFICES ASSUME at = "quote", InTime
               PROVE  /\ inbound = <<>> /\ outbound = <<>> /\ engine = Polling
                      /\ \A i \in DOMAIN book : ~IsOurs(book[i].id)
    BY DEF QuoteOnSettledMarket, InTime
  <2>1. inbound = <<>> /\ outbound = <<>> /\ engine = Polling /\ NoneLeft
    BY <1>1 DEF Settled
  <2>2. ASSUME NEW i \in DOMAIN book, IsOurs(book[i].id) PROVE FALSE
    <3>1. Ours(0, book[i]) /\ book[i] \in Orders
      BY <1>1, <2>2, OursType DEF Ours
    <3> QED BY <2>1, <3>1 DEF NoneLeft
  <2> QED BY <2>1, <2>2
<1>2. Typed /\ (InTime => Settled) => QuoteOnSettledMarket
  BY <1>1
<1> QED BY <1>2, TypedAlways, SettledAlways, PTL

----------------------------------------------------------------------------
(***************************************************************************)
(* The position, with all that may still be added to it.                   *)
(***************************************************************************)
\* What our orders have executed on side s and the market maker may still
\* have to book, the oldest report on its way included.
Inflight(s) ==
  IF outbound = <<>> THEN 0 ELSE traded[s] - outbound[1].traded[s] + ReportQty(outbound[1].rpt, s)

Reach(s) == Exposure(s) + Inflight(s)

WithinLimit == \A s \in BookSides : Reach(s) <= PositionLimit

OrdersWithinLimit ==
  \A k \in Nat, o \in Orders : Ours(k, o) => Reach(o.side) + o.qty <= PositionLimit

OnePerSide ==
  \A k, l \in Nat, o, p \in Orders : Ours(k, o) /\ Ours(l, p) /\ o.side = p.side => o.id = p.id

Posting ==
  /\ at = "postSell" => Inflight("Sell") = 0 /\ \A k \in Nat, o \in Orders : Ours(k, o) => o.side = "Buy"
  /\ at = "postBuy" /\ prices["Buy"] \in Int => Exposure("Buy") + QuoteQty <= PositionLimit
  /\ at \in {"postBuy", "postSell"} /\ prices["Sell"] \in Int => Exposure("Sell") + QuoteQty <= PositionLimit

Limited == WithinLimit /\ OrdersWithinLimit /\ OnePerSide /\ Posting

\* The position with what is on its way is an integer.
LEMMA ReachType ==
  ASSUME Typed, Attributed, NEW s \in BookSides
  PROVE  /\ Exposure(s) \in Int /\ Inflight(s) \in Nat /\ Reach(s) \in Int
         /\ Reach(s) = Exposure(s) + Inflight(s)
<1>1. Exposure(s) \in Int
  BY EntryType DEF Exposure
<1>2. Inflight(s) \in Nat
  <2>1. CASE outbound = <<>>
    BY <2>1 DEF Inflight
  <2>2. CASE outbound # <<>>
    <3>1. 1 \in DOMAIN outbound
      BY <2>2, EntryType
    <3>2. /\ outbound[1].traded[s] \in Nat /\ traded[s] \in Nat /\ ReportQty(outbound[1].rpt, s) \in Nat
          /\ outbound[1].traded[s] <= traded[s]
      BY <3>1, EntryType DEF Attributed, Chain
    <3> QED BY <2>2, <3>2 DEF Inflight
  <2> QED BY <2>1, <2>2
<1> QED BY <1>1, <1>2 DEF Reach

\* One order of ours per side stays one.
LEMMA OnePerSideKept ==
  ASSUME Typed, OnePerSide, NEW d \in {0, 1}, Inherits(d)
  PROVE  OnePerSide'
<1> SUFFICES ASSUME NEW k \in Nat, NEW l \in Nat, NEW o \in Orders, NEW p \in Orders,
                    Ours(k, o)', Ours(l, p)', o.side = p.side
             PROVE  o.id = p.id
  BY DEF OnePerSide
<1>1. PICK m \in Nat, a \in Orders : From(k, o, m, a, d)
  BY Ancestor
<1>2. PICK n \in Nat, b \in Orders : From(l, p, n, b, d)
  BY Ancestor
<1>3. Ours(m, a) /\ Ours(n, b) /\ a.side = b.side /\ a.id = o.id /\ b.id = p.id
  BY <1>1, <1>2 DEF From, Same
<1> QED BY <1>3 DEF OnePerSide

\* No step that leaves the accounts and the reports alone adds to the risk.
LEMMA OrdersWithinKept ==
  ASSUME Typed, Attributed, OrdersWithinLimit, NEW d \in {0, 1}, Inherits(d),
         \A s \in BookSides : Reach(s)' <= Reach(s) /\ Reach(s)' \in Int
  PROVE  OrdersWithinLimit'
<1> SUFFICES ASSUME NEW k \in Nat, NEW o \in Orders, Ours(k, o)'
             PROVE  (Reach(o.side) + o.qty <= PositionLimit)'
  BY DEF OrdersWithinLimit
<1>1. PICK m \in Nat, a \in Orders : From(k, o, m, a, d)
  BY Ancestor
<1>2. Ours(m, a) /\ a.side = o.side /\ o.qty <= a.qty /\ o.qty \in Nat /\ a.qty \in Nat /\ o.side \in BookSides
  BY <1>1, OursType DEF From, Same
<1>3. Reach(o.side) + a.qty <= PositionLimit
  BY <1>2 DEF OrdersWithinLimit
<1>4. PICK s \in BookSides : s = o.side
  BY <1>2
<1>5. Reach(s)' <= Reach(s) /\ Reach(s)' \in Int /\ Reach(s) \in Int
  BY ReachType
<1>6. Reach(s)' + o.qty <= PositionLimit
  BY <1>2, <1>3, <1>4, <1>5, Constants
<1> QED BY <1>4, <1>6

\* ... nor does it let a quote pass the limit.
LEMMA LimitedKept ==
  ASSUME Typed, Attributed, Limited, NEW d \in {0, 1}, Inherits(d),
         UNCHANGED <<mm, traded, outbound, prices>>, at' = at \/ at' \notin {"postBuy", "postSell"}
  PROVE  Limited'
<1>1. \A s : Exposure(s)' = Exposure(s) /\ Inflight(s)' = Inflight(s)
  BY DEF Exposure, Inflight
<1>2. \A s : Reach(s)' = Reach(s)
  BY <1>1 DEF Reach
<1>3. \A s \in BookSides : Reach(s)' <= Reach(s) /\ Reach(s)' \in Int
  BY <1>2, ReachType
<1>4. WithinLimit'
  BY <1>2 DEF Limited, WithinLimit
<1>5. OrdersWithinLimit' /\ OnePerSide'
  BY <1>3, OrdersWithinKept, OnePerSideKept DEF Limited
<1>6. ASSUME at' = "postSell", NEW k \in Nat, NEW o \in Orders, Ours(k, o)'
      PROVE  o.side = "Buy"
  <2>1. PICK m \in Nat, a \in Orders : From(k, o, m, a, d)
    BY <1>6, Ancestor
  <2>2. at = "postSell"
    BY <1>6
  <2> QED BY <2>1, <2>2 DEF From, Same, Limited, Posting
<1>7. Posting'
  BY <1>1, <1>6 DEF Limited, Posting
<1> QED BY <1>4, <1>5, <1>7 DEF Limited

\* Reading a report turns what was on its way into position, or less.
LEMMA DrainLimited ==
  ASSUME Typed, Attributed, Limited, Drain
  PROVE  Limited'
<1>1. /\ at \in {"drain", "tail"}
      /\ Len(outbound) \in Nat /\ Len(outbound) > 0 /\ DOMAIN outbound = 1..Len(outbound)
      /\ outbound' \in Seq(Entries) /\ Len(outbound') = Len(outbound) - 1
      /\ DOMAIN outbound' = 1..(Len(outbound) - 1)
      /\ \A k \in DOMAIN outbound' : outbound'[k] = outbound[k + 1]
      /\ UNCHANGED <<at, engine, book, traded, inbound>>
  BY DrainFrame
<1>2. Inherits(0)
  BY <1>1, IdleInherits
<1>3. ASSUME NEW s \in BookSides
      PROVE  Reach(s)' <= Reach(s) /\ Reach(s)' \in Int
  <2> DEFINE q == ReportQty(outbound[1].rpt, s)
             t == outbound[1].traded[s]
  <2>1. Exposure(s)' <= Exposure(s) + q /\ Exposure(s)' \in Int
    BY DrainBooks DEF Exposure
  <2>2. outbound # <<>> /\ 1 \in DOMAIN outbound
    BY <1>1, EntryType
  <2>3. q \in Nat /\ t \in Nat /\ traded[s] \in Nat /\ t <= traded[s]
    BY <2>2, EntryType DEF Attributed, Chain
  <2>4. Inflight(s) = traded[s] - t + q
    BY <2>2 DEF Inflight
  <2>5. Inflight(s)' <= traded[s] - t /\ Inflight(s)' \in Int
    <3>1. CASE outbound' = <<>>
      BY <2>3, <3>1 DEF Inflight
    <3>2. CASE outbound' # <<>>
      <4>1. Len(outbound) > 1
        BY <1>1, <3>2, EmptySeq
      <4>2. outbound'[1] = outbound[2] /\ 2 \in DOMAIN outbound
        BY <1>1, <4>1
      <4>3. t + ReportQty(outbound[2].rpt, s) <= outbound[2].traded[s]
        BY <4>2 DEF Attributed, Chain
      <4>4. ReportQty(outbound[2].rpt, s) \in Nat /\ outbound[2].traded[s] \in Nat
        BY <4>2, EntryType
      <4>5. Inflight(s)' = traded[s] - outbound[2].traded[s] + ReportQty(outbound[2].rpt, s)
        BY <1>1, <3>2, <4>2 DEF Inflight
      <4> HIDE DEF t
      <4> QED BY <2>3, <4>3, <4>4, <4>5
    <3> QED BY <3>1, <3>2
  <2> HIDE DEF q, t
  <2>6. Exposure(s) \in Int /\ Reach(s) = Exposure(s) + Inflight(s)
    BY ReachType
  <2>7. Reach(s)' = Exposure(s)' + Inflight(s)'
    BY DEF Reach
  <2> QED BY <2>1, <2>3, <2>4, <2>5, <2>6, <2>7
<1>4. OrdersWithinLimit' /\ OnePerSide'
  BY <1>2, <1>3, OrdersWithinKept, OnePerSideKept DEF Limited
<1>5. WithinLimit'
  <2> SUFFICES ASSUME NEW s \in BookSides PROVE Reach(s)' <= PositionLimit
    BY DEF WithinLimit
  <2>1. Reach(s)' <= Reach(s) /\ Reach(s)' \in Int /\ Reach(s) \in Int /\ Reach(s) <= PositionLimit
    BY <1>3, ReachType DEF Limited, WithinLimit
  <2> QED BY <2>1, Constants
<1>6. Posting'
  BY <1>1 DEF Posting
<1> QED BY <1>4, <1>5, <1>6 DEF Limited

\* compute_quote() leaves out a side that could pass the limit.
LEMMA MakeQuoteLimited ==
  ASSUME Typed, Attributed, Settled, Limited, MakeQuote
  PROVE  Limited'
<1>1. /\ at = "quote" /\ at' = "postBuy" /\ prices' = ComputeQuote(mm, lastTrade)
      /\ UNCHANGED <<mm, traded, outbound, engine, book, inbound>>
  BY DEF MakeQuote, account, engineVars
<1>2. NoneLeft
  BY <1>1 DEF Settled
<1>3. NoneLeft'
  BY <1>1, <1>2 DEF NoneLeft, Ours
<1>4. \A s : Exposure(s)' = Exposure(s) /\ Inflight(s)' = Inflight(s) /\ Reach(s)' = Reach(s)
  BY <1>1 DEF Exposure, Inflight, Reach
<1>5. WithinLimit' /\ OrdersWithinLimit' /\ OnePerSide'
  BY <1>3, <1>4 DEF Limited, WithinLimit, OrdersWithinLimit, OnePerSide, NoneLeft
<1>6. mm \in Accounts /\ lastTrade \in Int
  BY DEF Typed, AccountOK
<1>7. /\ prices'["Buy"] \in Int => mm.position + QuoteQty <= PositionLimit
      /\ prices'["Sell"] \in Int => -mm.position + QuoteQty <= PositionLimit
  BY <1>1, <1>6, QuoteType
<1>8. Posting'
  BY <1>1, <1>7 DEF Posting, Exposure
<1> QED BY <1>5, <1>8 DEF Limited

----------------------------------------------------------------------------
(***************************************************************************)
(* ... for a new quote and for an execution, and always.                   *)
(***************************************************************************)
\* A quote goes in when its side is empty and nothing of it is on its way.
LEMMA PostLimited ==
  ASSUME Typed, Orderly, Attributed, Settled, Limited, NEW s \in BookSides, Post(s)
  PROVE  Limited'
<1>1. /\ UNCHANGED <<prices, engine, book, traded, outbound>>
      /\ at \in {"postBuy", "postSell"} /\ (s = "Buy" <=> at = "postBuy")
      /\ \/ s = "Buy" /\ at' = "postSell"
         \/ s = "Sell" /\ at' = "drain"
  BY PostFrame
<1>2. mm'.position = mm.position
  <2>1. CASE prices[s] = PRICE_INVALID
    BY <2>1, PostFrame
  <2>2. CASE prices[s] # PRICE_INVALID
    <3>1. mm' = RegisterOrder(mm, nextId, s) /\ mm \in Accounts /\ nextId \in Nat
      BY <2>2, PostFrame DEF Typed, AccountOK, ThreadOK
    <3> QED BY <3>1, Registered
  <2> QED BY <2>1, <2>2
<1>3. \A t : Exposure(t)' = Exposure(t) /\ Inflight(t)' = Inflight(t)
  BY <1>1, <1>2 DEF Exposure, Inflight
<1>4. \A t : Reach(t)' = Reach(t)
  BY <1>3 DEF Reach
<1>5. WithinLimit'
  BY <1>4 DEF Limited, WithinLimit
\* Nothing of ours is in the market when the bid goes in, and only the bid
\* when the ask does.
<1>6. \A k \in Nat, o \in Orders : Ours(k, o) => s = "Sell" /\ o.side = "Buy"
  BY <1>1 DEF Settled, NoneLeft, Limited, Posting, BookSides
<1>7. s = "Buy" => outbound = <<>>
  BY <1>1 DEF Settled
<1>8. Inflight(s) = 0 /\ Inflight("Sell") = 0
  <2>1. CASE s = "Buy"
    BY <1>7, <2>1 DEF Inflight
  <2>2. CASE s = "Sell"
    BY <1>1, <2>2 DEF Limited, Posting
  <2> QED BY <2>1, <2>2 DEF BookSides
<1>9. prices[s] \in Int => Reach(s) + QuoteQty <= PositionLimit
  <2> SUFFICES ASSUME prices[s] \in Int PROVE Reach(s) + QuoteQty <= PositionLimit
    OBVIOUS
  <2>1. Exposure(s) + QuoteQty <= PositionLimit
    BY <1>1 DEF Limited, Posting, BookSides
  <2>2. Reach(s) = Exposure(s) + 0 /\ Exposure(s) \in Int
    BY <1>8, ReachType
  <2> QED BY <2>1, <2>2
<1>10. ASSUME NEW k \in Nat, NEW o \in Orders, Ours(k, o)'
       PROVE  \/ Ours(k, o)
              \/ o.side = s /\ o.qty = QuoteQty /\ o.id = nextId /\ prices[s] \in Int
  <2>1. CASE prices[s] = PRICE_INVALID
    <3>1. inbound' = inbound
      BY <2>1, PostFrame
    <3> QED BY <1>1, <1>10, <3>1 DEF Ours
  <2>2. CASE prices[s] # PRICE_INVALID
    <3> DEFINE m == NewLimit(nextId, s, prices[s], QuoteQty)
    <3>1. Submit(m) /\ m \in Messages /\ prices[s] \in Int
      BY <2>2, PostFrame
    <3>2. OrderIn(m).side = s /\ OrderIn(m).qty = QuoteQty /\ OrderIn(m).id = nextId
      BY DEF NewLimit, OrderIn
    <3> HIDE DEF m
    <3>3. From(k, o, k, o, 0) \/ o = OrderIn(m)
      BY <1>1, <1>10, <3>1, SubmitInherits
    <3> QED BY <3>1, <3>2, <3>3 DEF From
  <2> QED BY <2>1, <2>2
<1>11. OrdersWithinLimit'
  <2> SUFFICES ASSUME NEW k \in Nat, NEW o \in Orders, Ours(k, o)'
               PROVE  (Reach(o.side) + o.qty <= PositionLimit)'
    BY DEF OrdersWithinLimit
  <2>1. Reach(o.side) + o.qty <= PositionLimit
    BY <1>9, <1>10 DEF Limited, OrdersWithinLimit
  <2> QED BY <1>4, <2>1
<1>12. OnePerSide'
  <2> SUFFICES ASSUME NEW k \in Nat, NEW l \in Nat, NEW o \in Orders, NEW p \in Orders,
                      Ours(k, o)', Ours(l, p)', o.side = p.side
               PROVE  o.id = p.id
    BY DEF OnePerSide
  <2>1. Ours(k, o) \/ (o.side = s /\ o.id = nextId)
    BY <1>10
  <2>2. Ours(l, p) \/ (p.side = s /\ p.id = nextId)
    BY <1>10
  <2> QED BY <1>6, <2>1, <2>2 DEF Limited, OnePerSide
<1>13. ASSUME at' = "postSell", NEW k \in Nat, NEW o \in Orders, Ours(k, o)' PROVE o.side = "Buy"
  BY <1>1, <1>6, <1>10, <1>13
<1>14. Posting'
  BY <1>1, <1>3, <1>8, <1>13 DEF Limited, Posting
<1> QED BY <1>5, <1>11, <1>12, <1>14 DEF Limited

\* What an execution reports of ours is taken from the one order of ours on
\* that side.
Taken(q, s) ==
  \E x \in Orders :
    /\ Ours(0, x) /\ x.side = s /\ q <= x.qty
    /\ \A k \in Nat, o \in Orders : Ours(k, o)' /\ o.side = s => o.qty <= x.qty - q

\* The executed quantity comes from that order's quantity, and from no other.
LEMMA ExecuteTakes ==
  ASSUME Typed, Orderly, OnePerSide, Execute
  PROVE  \E rpt \in Reports :
           /\ \A s \in BookSides : traded'[s] = traded[s] + ReportQty(rpt, s)
           /\ Appended([rpt |-> rpt, traded |-> traded']) \/ outbound' = outbound
           /\ \A s \in BookSides : ReportQty(rpt, s) # 0 => Taken(ReportQty(rpt, s), s)
<1>1. inbound' = inbound
  BY ExecuteFrame
<1>2. PICK i \in DOMAIN book, qty \in Nat, rpt \in Reports :
        /\ engine.order \in Orders /\ book[i] \in Orders
        /\ qty > 0 /\ qty <= engine.order.qty /\ qty = FillQty(book, engine.order, i)
        /\ rpt.order_id = engine.order.id /\ rpt.contra_order_id = book[i].id
        /\ rpt.side = engine.order.side /\ rpt.exec_qty = qty
        /\ book[i].side = Other(engine.order.side)
        /\ book' = Hit(book, engine.order, i)
        /\ engine'.order.qty = engine.order.qty - qty
        /\ engine'.order.id = engine.order.id /\ engine'.order.side = engine.order.side
        /\ \A s \in BookSides : traded'[s] = traded[s] + ReportQty(rpt, s)
        /\ Appended([rpt |-> rpt, traded |-> traded']) \/ outbound' = outbound
  BY ExecuteFrame
<1>3. book \in Seq(Orders) /\ \A j \in DOMAIN book : book[j].qty > 0
  BY DEF Typed, EngineOK
<1>4. engine.order.qty > 0 /\ engine.order.qty \in Nat
  BY <1>2 DEF Orders
<1>5. qty <= book[i].qty
  BY <1>2, <1>3, <1>4, FillBounds
<1>6. PICK g : /\ Thinned(book', book, g)
               /\ \A j \in DOMAIN book' :
                    g[j] = i => book'[j].qty = book[i].qty - FillQty(book, engine.order, i)
  <2> DEFINE b == Hit(book, engine.order, i)
  <2>1. PICK g : /\ Thinned(b, book, g)
                 /\ \A j \in DOMAIN b :
                      /\ b[j].qty > 0
                      /\ g[j] = i => b[j].qty = book[i].qty - FillQty(book, engine.order, i)
    BY <1>2, <1>3, <1>4, HitThins
  <2>2. book' = b
    BY <1>2
  <2> HIDE DEF b
  <2> QED BY <2>1, <2>2
<1>7. Inherits(0)
  BY ExecuteInherits DEF Orderly
<1>8. ASSUME NEW s \in BookSides, NEW x \in Orders, Ours(0, x), x.side = s, qty <= x.qty,
             x = engine.order \/ x = book[i]
      PROVE  Taken(qty, s)
  <2> SUFFICES ASSUME NEW k \in Nat, NEW o \in Orders, Ours(k, o)', o.side = s
               PROVE  o.qty <= x.qty - qty
    BY <1>8 DEF Taken
  <2>1. o.qty \in Nat /\ x.qty \in Nat /\ o.id \in Nat /\ x.id \in Nat
    BY OursType
  <2>2. PICK l \in Nat, a \in Orders : From(k, o, l, a, 0)
    BY <1>7, Ancestor
  <2>3. Ours(l, a) /\ l = k /\ a.side = s /\ a.id = o.id
    BY <2>2 DEF From, Same
  <2>4. o.id = x.id
    BY <1>8, <2>3 DEF OnePerSide
  <2>5. ~(0 < k)
    <3>1. 0 < k => x.id < a.id
      BY <1>8, <2>3 DEF Orderly, QueueAscending
    <3> QED BY <2>1, <2>3, <2>4, <3>1
  <2>6. k = 0 /\ (o = engine'.order \/ \E j \in DOMAIN book' : o = book'[j]) /\ IsOurs(o.id)
    BY <2>5, <1>1, OursType DEF Ours
  <2>7. \A j \in DOMAIN book : IsOurs(book[j].id) /\ IsOurs(engine.order.id) => book[j].id < engine.order.id
    BY DEF Orderly, BookAscending
  <2>8. CASE o = engine'.order
    <3>1. engine.order.id = x.id /\ IsOurs(engine.order.id)
      BY <1>2, <2>4, <2>6, <2>8
    <3>2. x # book[i]
      BY <2>1, <2>7, <3>1
    <3> QED BY <1>2, <1>8, <2>8, <3>2, <2>1
  <2>9. CASE \E j \in DOMAIN book' : o = book'[j]
    <3>1. PICK j \in DOMAIN book' : o = book'[j]
      BY <2>9
    <3>2. g[j] \in DOMAIN book /\ book[g[j]].id = x.id /\ IsOurs(x.id)
      BY <1>6, <2>4, <2>6, <3>1 DEF Thinned, Same
    <3>3. x # engine.order
      BY <2>1, <2>7, <3>2
    <3>4. x = book[i]
      BY <1>8, <3>3
    <3>5. g[j] \in Nat /\ i \in Nat
      BY <1>3, <3>2, LenProperties
    <3>6. ~(g[j] < i) /\ ~(i < g[j])
      BY <2>1, <3>2, <3>4 DEF Orderly, BookAscending
    <3>7. g[j] = i
      BY <3>5, <3>6
    <3> QED BY <1>2, <1>6, <2>1, <3>1, <3>4, <3>7
  <2> QED BY <2>6, <2>8, <2>9
<1>9. ASSUME NEW s \in BookSides, ReportQty(rpt, s) # 0
      PROVE  Taken(ReportQty(rpt, s), s)
  <2>1. ReportQty(rpt, s) = qty
    BY <1>2, <1>9 DEF ReportQty
  <2>2. \/ IsOurs(engine.order.id) /\ engine.order.side = s
        \/ IsOurs(book[i].id) /\ book[i].side = s
    BY <1>2, <1>9 DEF ReportQty
  <2>3. CASE IsOurs(engine.order.id) /\ engine.order.side = s
    <3>1. Ours(0, engine.order)
      BY <2>3 DEF Ours
    <3> QED BY <1>2, <1>8, <2>1, <2>3, <3>1
  <2>4. CASE IsOurs(book[i].id) /\ book[i].side = s
    <3>1. Ours(0, book[i])
      BY <2>4 DEF Ours
    <3> QED BY <1>2, <1>5, <1>8, <2>1, <2>4, <3>1
  <2> QED BY <2>2, <2>3, <2>4
<1> QED BY <1>2, <1>9

\* What an order loses is on its way; the sum stays.
LEMMA ExecuteLimited ==
  ASSUME Typed, Typed', Orderly, Attributed, Attributed', Limited, Execute
  PROVE  Limited'
<1>1. UNCHANGED <<at, prices, mm>> /\ Len(outbound) \in Nat /\ DOMAIN outbound = 1..Len(outbound)
  BY ExecuteFrame
<1>2. PICK rpt \in Reports :
        /\ \A s \in BookSides : traded'[s] = traded[s] + ReportQty(rpt, s)
        /\ Appended([rpt |-> rpt, traded |-> traded']) \/ outbound' = outbound
        /\ \A s \in BookSides : ReportQty(rpt, s) # 0 => Taken(ReportQty(rpt, s), s)
  BY ExecuteTakes DEF Limited
<1>3. Inherits(0)
  BY ExecuteInherits DEF Orderly
<1>4. \A s : Exposure(s)' = Exposure(s)
  BY <1>1 DEF Exposure
<1>5. ASSUME NEW s \in BookSides
      PROVE  /\ Inflight(s)' <= Inflight(s) + ReportQty(rpt, s)
             /\ ReportQty(rpt, s) \in Nat /\ Inflight(s) \in Nat /\ Inflight(s)' \in Nat
  <2>1. Inflight(s) \in Nat /\ ReportQty(rpt, s) \in Nat /\ traded[s] \in Nat /\ traded'[s] \in Nat
    BY <1>2, ReachType, ReportQtyType, EntryType
  <2>2. CASE outbound # <<>>
    <3>1. 1 \in DOMAIN outbound
      BY <2>2, EntryType
    <3>2. outbound'[1] = outbound[1] /\ outbound' # <<>>
      <4>1. CASE outbound' = outbound
        BY <2>2, <4>1
      <4>2. CASE Appended([rpt |-> rpt, traded |-> traded'])
        BY <1>1, <3>1, <4>2, EmptySeq DEF Appended
      <4> QED BY <1>2, <4>1, <4>2
    <3>3. outbound[1].traded[s] \in Nat /\ ReportQty(outbound[1].rpt, s) \in Nat
          /\ outbound[1].traded[s] <= traded[s]
      BY <3>1, EntryType DEF Attributed, Chain
    <3>4. Inflight(s) = traded[s] - outbound[1].traded[s] + ReportQty(outbound[1].rpt, s)
      BY <2>2 DEF Inflight
    <3>5. Inflight(s)' = traded'[s] - outbound[1].traded[s] + ReportQty(outbound[1].rpt, s)
      BY <3>2 DEF Inflight
    <3> QED BY <1>2, <2>1, <3>3, <3>4, <3>5
  <2>3. CASE outbound = <<>> /\ outbound' = outbound
    BY <2>1, <2>3 DEF Inflight
  <2>4. CASE outbound = <<>> /\ Appended([rpt |-> rpt, traded |-> traded'])
    <3>1. Len(outbound) = 0 /\ outbound' # <<>>
      BY <1>1, <2>4, EmptySeq DEF Appended
    <3>2. outbound'[1] = [rpt |-> rpt, traded |-> traded']
      BY <2>4, <3>1 DEF Appended
    <3>3. Inflight(s)' = traded'[s] - traded'[s] + ReportQty(rpt, s)
      BY <3>1, <3>2 DEF Inflight
    <3> QED BY <2>1, <3>3
  <2> QED BY <1>2, <2>2, <2>3, <2>4
<1>6. ASSUME NEW s \in BookSides
      PROVE  /\ Reach(s)' <= Reach(s) + ReportQty(rpt, s) /\ Reach(s) \in Int /\ Reach(s)' \in Int
             /\ ReportQty(rpt, s) \in Nat
  <2>1. Reach(s) = Exposure(s) + Inflight(s) /\ Reach(s)' = Exposure(s) + Inflight(s)' /\ Exposure(s) \in Int
    BY <1>4, ReachType DEF Reach
  <2> QED BY <1>5, <2>1
<1>7. WithinLimit'
  <2> SUFFICES ASSUME NEW s \in BookSides PROVE Reach(s)' <= PositionLimit
    BY DEF WithinLimit
  <2>1. CASE ReportQty(rpt, s) = 0
    <3>1. Reach(s) <= PositionLimit
      BY DEF Limited, WithinLimit
    <3> QED BY <1>6, <2>1, <3>1, Constants
  <2>2. CASE ReportQty(rpt, s) # 0
    <3>1. PICK x \in Orders : Ours(0, x) /\ x.side = s /\ ReportQty(rpt, s) <= x.qty
      BY <1>2, <2>2 DEF Taken
    <3>2. Reach(s) + x.qty <= PositionLimit /\ x.qty \in Nat
      BY <3>1, OursType DEF Limited, OrdersWithinLimit
    <3> QED BY <1>6, <3>1, <3>2, Constants
  <2> QED BY <2>1, <2>2
<1>8. OrdersWithinLimit'
  <2> SUFFICES ASSUME NEW k \in Nat, NEW o \in Orders, Ours(k, o)'
               PROVE  (Reach(o.side) + o.qty <= PositionLimit)'
    BY DEF OrdersWithinLimit
  <2>1. PICK s \in BookSides : s = o.side
    BY OursType
  <2>2. PICK m \in Nat, a \in Orders : From(k, o, m, a, 0)
    BY <1>3, Ancestor
  <2>3. Ours(m, a) /\ a.side = s /\ o.qty <= a.qty /\ o.qty \in Nat /\ a.qty \in Nat
    BY <2>1, <2>2, OursType DEF From, Same
  <2>4. CASE ReportQty(rpt, s) = 0
    <3>1. Reach(s) + a.qty <= PositionLimit
      BY <2>3 DEF Limited, OrdersWithinLimit
    <3>2. Reach(s)' + o.qty <= PositionLimit
      BY <1>6, <2>3, <2>4, <3>1, Constants
    <3> QED BY <2>1, <3>2
  <2>5. CASE ReportQty(rpt, s) # 0
    <3>1. PICK x \in Orders :
            /\ Ours(0, x) /\ x.side = s /\ ReportQty(rpt, s) <= x.qty
            /\ o.qty <= x.qty - ReportQty(rpt, s)
      BY <1>2, <2>1, <2>5 DEF Taken
    <3>2. Reach(s) + x.qty <= PositionLimit /\ x.qty \in Nat
      BY <3>1, OursType DEF Limited, OrdersWithinLimit
    <3>3. Reach(s)' + o.qty <= PositionLimit
      BY <1>6, <2>3, <3>1, <3>2, Constants
    <3> QED BY <2>1, <3>3
  <2> QED BY <2>4, <2>5
<1>9. OnePerSide'
  BY <1>3, OnePerSideKept DEF Limited
<1>10. Posting'
  <2>1. ASSUME at = "postSell" PROVE Inflight("Sell")' = 0
    <3>1. Inflight("Sell") = 0 /\ \A k \in Nat, o \in Orders : Ours(k, o) => o.side = "Buy"
      BY <2>1 DEF Limited, Posting
    <3>2. PICK s \in BookSides : s = "Sell"
      BY DEF BookSides
    <3>3. ReportQty(rpt, s) = 0
      BY <1>2, <3>1, <3>2 DEF Taken
    <3> QED BY <1>5, <3>1, <3>2, <3>3
  <2>2. ASSUME at = "postSell", NEW k \in Nat, NEW o \in Orders, Ours(k, o)'
        PROVE  o.side = "Buy"
    <3>1. PICK m \in Nat, a \in Orders : From(k, o, m, a, 0)
      BY <1>3, <2>2, Ancestor
    <3> QED BY <2>2, <3>1 DEF From, Same, Limited, Posting
  <2> QED BY <1>1, <1>4, <2>1, <2>2 DEF Limited, Posting
<1> QED BY <1>7, <1>8, <1>9, <1>10 DEF Limited

\* At the start there is no position.
LEMMA InitLimited ==
  ASSUME Init
  PROVE  Limited
<1>1. outbound = <<>> /\ mm.position = 0 /\ at = "noise"
  BY DEF Init, NewMarketMaker
<1>2. DOMAIN book = {} /\ DOMAIN inbound = {} /\ engine = Polling
  BY DEF Init
<1>3. \A k, o : ~Ours(k, o)
  BY <1>2, PollingType, Constants DEF Ours, IsOurs
<1>4. WithinLimit
  BY <1>1, Constants DEF WithinLimit, Reach, Exposure, Inflight
<1> QED BY <1>1, <1>3, <1>4 DEF Limited, OrdersWithinLimit, OnePerSide, Posting

\* Every step keeps the position, and all that may be added to it, within the limit.
LEMMA NextLimited ==
  ASSUME Typed, Typed', Orderly, Attributed, Attributed', Settled, Limited, [Next]_vars
  PROVE  Limited'
<1>1. CASE Silent /\ ~MakeQuote
  <2>1. Inherits(0) /\ UNCHANGED <<mm, traded, outbound>>
    BY <1>1, SilentInherits
  <2>2. prices' = prices /\ (at' = at \/ at' \notin {"postBuy", "postSell"})
    BY <1>1 DEF Silent, Noise, Moves, Drained, CaughtUp, TimeOut, TailOver, Stop, Cancel, vars, thread,
                Typed, ThreadOK, WaitThen
  <2> QED BY <2>1, <2>2, LimitedKept
<1>2. CASE Pop
  <2>1. UNCHANGED <<mm, traded, outbound, prices, at>>
    BY <1>2, PopFrame
  <2>2. Inherits(1)
    BY <1>2, PopInherits DEF Orderly
  <2> QED BY <2>1, <2>2, LimitedKept
<1>3. CASE Count
  <2>1. UNCHANGED <<mm, traded, outbound, prices, at>>
    BY <1>3, CountFrame
  <2>2. Inherits(0)
    BY <1>3, CountInherits
  <2> QED BY <2>1, <2>2, LimitedKept
<1>4. CASE Drain \/ Execute \/ MakeQuote
  BY <1>4, DrainLimited, ExecuteLimited, MakeQuoteLimited
<1>5. CASE \E s \in BookSides : Post(s)
  BY <1>5, PostLimited
<1>6. (Silent /\ ~MakeQuote) \/ Pop \/ Count \/ Drain \/ Execute \/ MakeQuote \/ \E s \in BookSides : Post(s)
  BY DEF Next, Demo, Done, Silent, Moves
<1> QED BY <1>1, <1>2, <1>3, <1>4, <1>5, <1>6

\* Unless a wait gave up, that holds always.
LEMMA LimitedAlways == Spec => [](InTime => Limited)
<1>1. Init => Limited
  BY InitLimited
<1>2. ASSUME Typed, Typed', Orderly, Attributed, Attributed', InTime => Settled, InTime => Limited,
             [Next]_vars, InTime'
      PROVE  Limited'
  <2>1. InTime
    BY <1>2, InTimeKept
  <2> QED BY <1>2, <2>1, NextLimited
<1>3. Typed /\ Typed' /\ Orderly /\ Attributed /\ Attributed' /\ (InTime => Settled) /\ (InTime => Limited)
        /\ [Next]_vars => (InTime => Limited)'
  BY <1>2
<1> QED BY <1>1, <1>3, TypedAlways, OrderlyAlways, AttributedAlways, SettledAlways, PTL DEF Spec

\* As long as no wait gave up, the position never passes the limit, with quotes on both
\* sides and fills still on their way.
THEOREM StaysWithinLimit == Spec => []PositionWithinLimit
<1>1. ASSUME Typed, Attributed, InTime => Limited
      PROVE  PositionWithinLimit
  <2> SUFFICES ASSUME InTime PROVE Magnitude(mm.position) <= PositionLimit
    BY DEF PositionWithinLimit, InTime
  <2>1. \A s \in BookSides : Exposure(s) <= PositionLimit
    <3> SUFFICES ASSUME NEW s \in BookSides PROVE Exposure(s) <= PositionLimit
      OBVIOUS
    <3>1. Exposure(s) \in Int /\ Inflight(s) \in Nat /\ Reach(s) = Exposure(s) + Inflight(s)
      BY <1>1, ReachType
    <3>2. Reach(s) <= PositionLimit
      BY <1>1 DEF Limited, WithinLimit
    <3> QED BY <3>1, <3>2, Constants
  <2>2. mm.position \in Int /\ mm.position <= PositionLimit /\ -mm.position <= PositionLimit
    BY <1>1, <2>1, EntryType DEF Exposure, BookSides
  <2> QED BY <2>2 DEF Magnitude
<1>2. Typed /\ Attributed /\ (InTime => Limited) => PositionWithinLimit
  BY <1>1
<1> QED BY <1>2, TypedAlways, AttributedAlways, LimitedAlways, PTL
==============================================================================
