-------------------------- MODULE ItchReplayProofs --------------------------
(***************************************************************************)
(* What holds of a replay of any length, with any prices, sizes, number of *)
(* orders, queue sizes and interleaving of the two threads:                *)
(*                                                                         *)
(*   - the reference book and the translator know the same orders, and the *)
(*     reference book's levels are the sums of its orders;                 *)
(*   - what rests in the engine, what it has in hand and what is under way *)
(*     to it form a trail that is faithful to the feed's orders; the order *)
(*     of the queues and the absence of foreign orders follow;             *)
(*   - the counters account for every message, so that exit code 0 means   *)
(*     the two books are equal and exit code 1 always has a cause.         *)
(***************************************************************************)
EXTENDS ItchReplay, DataLemmas
----------------------------------------------------------------------------
(***************************************************************************)
(* The orders of the two books.                                            *)
(***************************************************************************)
\* What the translator knows of an order.
Known == [side: ItchSides, price: Prices, qty: Nat \ {0}]

\* A map of known orders whose references are below n.
Below(t, n) == t \in [DOMAIN t -> Known] /\ \A r \in DOMAIN t : r \in Nat /\ r < n

\* The C++ std::min of two quantities is a quantity.
LEMMA MinOfTwo ==
  ASSUME NEW a \in Nat, NEW b \in Nat
  PROVE  Min({a, b}) \in Nat /\ Min({a, b}) <= b
<1>1. \E x \in {a, b} : \A y \in {a, b} : x <= y
  <2>1. a <= b \/ b <= a
    OBVIOUS
  <2> QED BY <2>1
<1>2. Min({a, b}) \in {a, b} /\ \A y \in {a, b} : Min({a, b}) <= y
  BY <1>1 DEF Min
<1> QED BY <1>2

\* An order entered under the next reference: the map grows below its successor.
LEMMA Entered ==
  ASSUME NEW t, NEW n \in Nat, NEW o \in Known, Below(t, n)
  PROVE  Below(With(t, n, o), n + 1)
BY DEF Below, With

\* An order erased: what is left is below the same bound.
LEMMA Erased ==
  ASSUME NEW t, NEW n \in Nat, NEW key, Below(t, n)
  PROVE  Below(Without(t, key), n)
BY DEF Below, Without, Restrict

\* A partial reduction changes the quantity of one known order.
LEMMA Shrunk ==
  ASSUME NEW t, NEW n \in Nat, NEW key \in DOMAIN t, NEW q \in Nat \ {0}, Below(t, n)
  PROVE  Below([t EXCEPT ![key].qty = q], n)
<1>1. [t[key] EXCEPT !.qty = q] \in Known
  <2>1. t[key] \in Known
    BY DEF Below
  <2> QED BY <2>1 DEF Known
<1> QED BY <1>1 DEF Below

\* on_add() and RefBook::add() of a reference neither has.
LEMMA AddAgrees ==
  ASSUME NEW b, NEW n \in Nat, NEW o \in Known, Below(b.orders, n)
  PROVE  /\ RefAdd(b, n, o).orders = OnAdd(b.orders, n, o).orders
         /\ Below(OnAdd(b.orders, n, o).orders, n + 1)
<1>1. n \notin DOMAIN b.orders
  BY DEF Below
<1> QED BY <1>1, Entered DEF RefAdd, OnAdd

\* on_delete() and RefBook::remove().
LEMMA DeleteAgrees ==
  ASSUME NEW b, NEW n \in Nat, NEW key, Below(b.orders, n)
  PROVE  /\ RefRemove(b, key).orders = OnDelete(b.orders, key).orders
         /\ Below(OnDelete(b.orders, key).orders, n)
BY Erased DEF RefRemove, OnDelete, Unknown

\* on_reduce() and RefBook::reduce(): both cut at what the order has left, and
\* both forget it when that is nothing.
LEMMA ReduceAgrees ==
  ASSUME NEW b, NEW n \in Nat, NEW key, NEW by \in Nat, Below(b.orders, n)
  PROVE  /\ RefReduce(b, key, by).orders = OnReduce(b.orders, key, by).orders
         /\ Below(OnReduce(b.orders, key, by).orders, n)
<1>1. CASE key \notin DOMAIN b.orders
  BY <1>1 DEF RefReduce, OnReduce, Unknown
<1>2. CASE key \in DOMAIN b.orders
  <2> DEFINE q == b.orders[key].qty
             d == Min({by, q})
  <2>1. q \in Nat
    BY <1>2 DEF Below, Known
  <2>2. d \in Nat /\ d <= q
    BY <2>1, MinOfTwo
  <2>3. RefReduce(b, key, by).orders =
          IF d = q THEN Without(b.orders, key) ELSE [b.orders EXCEPT ![key].qty = q - d]
    BY <1>2 DEF RefReduce
  <2>4. OnReduce(b.orders, key, by).orders =
          IF q - d = 0 THEN Without(b.orders, key) ELSE [b.orders EXCEPT ![key].qty = q - d]
    BY <1>2 DEF OnReduce
  <2> HIDE DEF q, d
  <2>5. q - d \in Nat /\ (q - d = 0 <=> d = q)
    BY <2>1, <2>2
  <2>6. q - d # 0 => Below([b.orders EXCEPT ![key].qty = q - d], n)
    BY <1>2, <2>5, Shrunk
  <2>7. Below(Without(b.orders, key), n)
    BY Erased
  <2> QED BY <2>3, <2>4, <2>5, <2>6, <2>7
<1> QED BY <1>1, <1>2

\* on_replace() and RefBook::replace(): the new order takes the side of the old.
LEMMA ReplaceAgrees ==
  ASSUME NEW b, NEW n \in Nat, NEW key, NEW qty \in Nat \ {0}, NEW price \in Prices,
         Below(b.orders, n)
  PROVE  /\ RefReplace(b, key, n, qty, price).orders
              = OnReplace(b.orders, key, n, qty, price).orders
         /\ Below(OnReplace(b.orders, key, n, qty, price).orders, n + 1)
<1>1. CASE key \notin DOMAIN b.orders
  <2>1. Below(b.orders, n + 1)
    BY DEF Below
  <2> QED BY <1>1, <2>1 DEF RefReplace, OnReplace, Unknown
<1>2. CASE key \in DOMAIN b.orders
  <2> DEFINE o == [side |-> b.orders[key].side, price |-> price, qty |-> qty]
             c == RefRemove(b, key)
  <2>1. o \in Known
    BY <1>2 DEF Below, Known
  <2>2. c.orders = Without(b.orders, key)
    BY <1>2 DEF RefRemove
  <2>3. Below(c.orders, n)
    BY <2>2, Erased
  <2>4. RefReplace(b, key, n, qty, price) = RefAdd(c, n, o)
    BY <1>2 DEF RefReplace
  <2>5. OnReplace(b.orders, key, n, qty, price).orders = With(Without(b.orders, key), n, o)
    BY <1>2 DEF OnReplace
  <2> HIDE DEF o, c
  <2>6. /\ RefAdd(c, n, o).orders = With(c.orders, n, o)
        /\ Below(With(c.orders, n, o), n + 1)
    BY <2>1, <2>3, AddAgrees DEF OnAdd
  <2> QED BY <2>2, <2>4, <2>5, <2>6
<1> QED BY <1>1, <1>2
----------------------------------------------------------------------------
(***************************************************************************)
(* The levels of the reference book.                                       *)
(***************************************************************************)
\* The orders of a map, or the positions of a book, at one price of one side.
AtLevel(o, s, p) == {r \in DOMAIN o : o[r].side = s /\ o[r].price = p}

Totals(o, L) == [qty |-> QtySum(o, L), orders |-> Cardinality(L)]

\* The levels of a side that have orders, and the levels as DepthIsAggregate
\* computes them.
Occupied(o, s) == {o[r].price : r \in {x \in DOMAIN o : o[x].side = s}}
LevelsOf(o, s) == [p \in Occupied(o, s) |-> Totals(o, AtLevel(o, s, p))]

AllLevels(o) == [s \in ItchSides |-> LevelsOf(o, s)]

Aggregated(b) == b.levels = AllLevels(b.orders)

LEMMA AggregatedDepth ==
  ASSUME Aggregated(ref)
  PROVE  DepthIsAggregate
<1>1. \A s \in ItchSides : ref.levels[s] = LevelsOf(ref.orders, s)
  BY DEF Aggregated, AllLevels
<1> QED
  BY <1>1 DEF DepthIsAggregate, LevelsOf, Occupied, Totals, AtLevel,
              MapThenSumSet, MapThenFoldSet, QtySum, SumOver, SumStep, Qty

Sound(t) == \E n \in Nat : Below(t, n)

LEMMA OccupiedLevel ==
  ASSUME NEW o, NEW s, NEW p
  PROVE  p \in Occupied(o, s) <=> AtLevel(o, s, p) # {}
BY DEF Occupied, AtLevel

\* What is at a level is finite, and adds up to nothing only if there is nothing.
LEMMA LevelSum ==
  ASSUME NEW t, Sound(t), NEW s, NEW p, NEW L \in SUBSET AtLevel(t, s, p)
  PROVE  /\ Quantified(t, L) /\ IsFiniteSet(L)
         /\ QtySum(t, L) \in Nat /\ Cardinality(L) \in Nat
         /\ (QtySum(t, L) = 0 <=> L = {}) /\ (Cardinality(L) = 0 <=> L = {})
         /\ \A r \in L : /\ QtySum(t, L) = t[r].qty + QtySum(t, L \ {r})
                         /\ Cardinality(L) = Cardinality(L \ {r}) + 1
                         /\ QtySum(t, L \ {r}) \in Nat /\ Cardinality(L \ {r}) \in Nat
<1>0. PICK n \in Nat : Below(t, n)
  BY DEF Sound
<1>1. \A r \in DOMAIN t : r \in 0..n /\ Qty(t, r) \in Nat /\ Qty(t, r) > 0
  BY <1>0 DEF Below, Known, Qty
<1>2. IsFiniteSet(L)
  <2>1. L \in SUBSET (0..n)
    BY <1>1 DEF AtLevel
  <2>2. IsFiniteSet(0..n)
    BY FS_Interval
  <2> QED BY <2>1, <2>2, FS_Subset
<1>3. Quantified(t, L)
  BY <1>1, <1>2 DEF Quantified, AtLevel
<1>4. QtySum(t, L) \in Nat /\ \A r \in L : QtySum(t, L) = t[r].qty + QtySum(t, L \ {r})
  BY <1>3, SumRemove DEF Qty
<1>5. ASSUME NEW r \in L PROVE QtySum(t, L \ {r}) \in Nat /\ Cardinality(L \ {r}) \in Nat
                              /\ Cardinality(L) = Cardinality(L \ {r}) + 1 /\ QtySum(t, L) # 0
  <2>1. Quantified(t, L \ {r}) /\ IsFiniteSet(L \ {r})
    BY <1>2, <1>3, FS_RemoveElement DEF Quantified
  <2>2. QtySum(t, L \ {r}) \in Nat
    BY <2>1, SumRemove
  <2>3. Cardinality(L \ {r}) \in Nat /\ Cardinality(L) \in Nat /\ Cardinality(L \ {r}) = Cardinality(L) - 1
    BY <1>2, <2>1, FS_RemoveElement, FS_CardinalityType
  <2>4. t[r].qty \in Nat /\ t[r].qty > 0
    BY <1>1 DEF AtLevel, Qty
  <2> QED BY <1>4, <2>2, <2>3, <2>4
<1>6. Cardinality(L) \in Nat /\ (Cardinality(L) = 0 <=> L = {})
  BY <1>2, FS_EmptySet, FS_CardinalityType
<1>7. L = {} => QtySum(t, L) = 0
  BY SumEmpty
<1> QED BY <1>2, <1>3, <1>4, <1>5, <1>6, <1>7

\* Two maps differ in one order, at price p of side s in both.
Changes(t, t2, key, s, p) ==
  /\ Sound(t) /\ Sound(t2)
  /\ DOMAIN t \ {key} = DOMAIN t2 \ {key} /\ \A r \in DOMAIN t \ {key} : t2[r] = t[r]
  /\ key \in DOMAIN t => t[key].side = s /\ t[key].price = p
  /\ key \in DOMAIN t2 => t2[key].side = s /\ t2[key].price = p

\* A change of one order touches the level of that order only ...
LEMMA OtherLevels ==
  ASSUME NEW t, NEW t2, NEW key, NEW s0, NEW p0, Changes(t, t2, key, s0, p0)
  PROVE  \A s, p : ~(s = s0 /\ p = p0) =>
            /\ AtLevel(t2, s, p) = AtLevel(t, s, p)
            /\ Totals(t2, AtLevel(t2, s, p)) = Totals(t, AtLevel(t, s, p))
<1> SUFFICES ASSUME NEW s, NEW p, ~(s = s0 /\ p = p0)
             PROVE  /\ AtLevel(t2, s, p) = AtLevel(t, s, p)
                    /\ Totals(t2, AtLevel(t2, s, p)) = Totals(t, AtLevel(t, s, p))
  OBVIOUS
<1>1. AtLevel(t2, s, p) = AtLevel(t, s, p) /\ key \notin AtLevel(t, s, p)
  BY DEF AtLevel, Changes
<1>2. \A r \in AtLevel(t, s, p) : Qty(t, r) = Qty(t2, r)
  BY <1>1 DEF AtLevel, Qty, Changes
<1>3. Quantified(t, AtLevel(t, s, p))
  BY LevelSum DEF Changes
<1>4. QtySum(t, AtLevel(t, s, p)) = QtySum(t2, AtLevel(t, s, p))
  BY <1>2, <1>3, SumSame
<1> QED BY <1>1, <1>4 DEF Totals

\* ... and of that level only the order.
LEMMA RestOfLevel ==
  ASSUME NEW t, NEW t2, NEW key, NEW s, NEW p, Changes(t, t2, key, s, p)
  PROVE  AtLevel(t2, s, p) \ {key} = AtLevel(t, s, p) \ {key}
BY DEF AtLevel, Changes

LEMMA RestOfSum ==
  ASSUME NEW t, NEW t2, NEW key, NEW s, NEW p, Changes(t, t2, key, s, p)
  PROVE  QtySum(t2, AtLevel(t2, s, p) \ {key}) = QtySum(t, AtLevel(t, s, p) \ {key})
<1> DEFINE L == AtLevel(t, s, p) \ {key}
<1>1. \A r \in L : Qty(t, r) = Qty(t2, r)
  BY DEF AtLevel, Qty, Changes
<1>2. Quantified(t, L)
  BY LevelSum DEF Changes
<1> HIDE DEF L
<1>3. QtySum(t, L) = QtySum(t2, L)
  BY <1>1, <1>2, SumSame
<1> QED BY <1>3, RestOfLevel DEF L

\* A side's levels once the level of price p is recomputed.
SideAfter(t, t2, s, p) ==
  LET L2 == AtLevel(t2, s, p)
  IN IF L2 = {} THEN Without(LevelsOf(t, s), p) ELSE With(LevelsOf(t, s), p, Totals(t2, L2))

\* The levels of the other side, and the other levels of this one.
LEMMA LevelsChange ==
  ASSUME NEW t, NEW t2, NEW key, NEW s0, NEW p0, s0 \in ItchSides,
         Changes(t, t2, key, s0, p0)
  PROVE  AllLevels(t2) = [AllLevels(t) EXCEPT ![s0] = SideAfter(t, t2, s0, p0)]
<1> DEFINE F == LevelsOf(t, s0)
           F2 == SideAfter(t, t2, s0, p0)
<1>0. F2 = IF AtLevel(t2, s0, p0) = {} THEN Without(F, p0)
           ELSE With(F, p0, Totals(t2, AtLevel(t2, s0, p0)))
  BY DEF SideAfter
<1> HIDE DEF F2
<1>1. \A s, p : ~(s = s0 /\ p = p0) =>
         /\ AtLevel(t2, s, p) = AtLevel(t, s, p)
         /\ Totals(t2, AtLevel(t2, s, p)) = Totals(t, AtLevel(t, s, p))
  BY OtherLevels
<1>2. ASSUME NEW s \in ItchSides, s # s0 PROVE LevelsOf(t2, s) = LevelsOf(t, s)
  <2>1. \A p : p \in Occupied(t2, s) <=> p \in Occupied(t, s)
    BY <1>1, <1>2, OccupiedLevel
  <2>2. Occupied(t2, s) = Occupied(t, s)
    BY <2>1
  <2>3. \A p \in Occupied(t, s) : Totals(t2, AtLevel(t2, s, p)) = Totals(t, AtLevel(t, s, p))
    BY <1>1, <1>2
  <2> QED BY <2>2, <2>3 DEF LevelsOf
<1>3. LevelsOf(t2, s0) = F2
  <2>1. \A p : p # p0 => (p \in Occupied(t2, s0) <=> p \in Occupied(t, s0))
    BY <1>1, OccupiedLevel
  <2>2. p0 \in Occupied(t2, s0) <=> AtLevel(t2, s0, p0) # {}
    BY OccupiedLevel
  <2>3. \A p \in Occupied(t, s0) : p # p0 => Totals(t2, AtLevel(t2, s0, p)) = F[p]
    BY <1>1 DEF LevelsOf
  <2>4. DOMAIN F = Occupied(t, s0)
    BY DEF LevelsOf
  <2>5. CASE AtLevel(t2, s0, p0) = {}
    <3>1. Occupied(t2, s0) = DOMAIN F \ {p0}
      BY <2>1, <2>2, <2>4, <2>5
    <3>2. F2 = [p \in DOMAIN F \ {p0} |-> F[p]]
      BY <1>0, <2>5 DEF Without, Restrict
    <3>3. \A p \in DOMAIN F \ {p0} : Totals(t2, AtLevel(t2, s0, p)) = F[p]
      BY <2>3, <2>4
    <3> QED BY <3>1, <3>2, <3>3 DEF LevelsOf
  <2>6. CASE AtLevel(t2, s0, p0) # {}
    <3>1. Occupied(t2, s0) = DOMAIN F \cup {p0}
      BY <2>1, <2>2, <2>4, <2>6
    <3>2. F2 = [p \in DOMAIN F \cup {p0} |-> IF p = p0 THEN Totals(t2, AtLevel(t2, s0, p0)) ELSE F[p]]
      BY <1>0, <2>6 DEF With
    <3>3. \A p \in DOMAIN F \cup {p0} : Totals(t2, AtLevel(t2, s0, p)) =
             IF p = p0 THEN Totals(t2, AtLevel(t2, s0, p0)) ELSE F[p]
      BY <2>3, <2>4
    <3> QED BY <3>1, <3>2, <3>3 DEF LevelsOf
  <2> QED BY <2>5, <2>6
<1>4. \A s \in ItchSides : LevelsOf(t2, s) = IF s = s0 THEN F2 ELSE LevelsOf(t, s)
  BY <1>2, <1>3
<1> DEFINE G(s) == LevelsOf(t, s)
           G2(s) == LevelsOf(t2, s)
<1> HIDE DEF G, G2
<1>5. \A s \in ItchSides : G2(s) = IF s = s0 THEN F2 ELSE G(s)
  BY <1>4 DEF G, G2
<1>6. [[s \in ItchSides |-> G(s)] EXCEPT ![s0] = F2] = [s \in ItchSides |-> G2(s)]
  BY <1>5
<1> QED BY <1>6 DEF F2, G, G2, AllLevels

\* What the book keeps of one level.
LEMMA LevelKept ==
  ASSUME NEW b, Aggregated(b), NEW s \in ItchSides, NEW p
  PROVE  /\ b.levels[s] = LevelsOf(b.orders, s)
         /\ DOMAIN b.levels[s] = Occupied(b.orders, s)
         /\ p \in DOMAIN b.levels[s] <=> AtLevel(b.orders, s, p) # {}
         /\ p \in DOMAIN b.levels[s] => b.levels[s][p] = Totals(b.orders, AtLevel(b.orders, s, p))
<1>1. b.levels[s] = LevelsOf(b.orders, s)
  BY DEF Aggregated, AllLevels
<1>2. DOMAIN LevelsOf(b.orders, s) = Occupied(b.orders, s)
  BY DEF LevelsOf
<1>3. p \in Occupied(b.orders, s) => LevelsOf(b.orders, s)[p] = Totals(b.orders, AtLevel(b.orders, s, p))
  BY DEF LevelsOf
<1> QED BY <1>1, <1>2, <1>3, OccupiedLevel

\* add() of a new reference: one order more at its level.
LEMMA AddAggregates ==
  ASSUME NEW b, Aggregated(b), Sound(b.orders), NEW n, n \notin DOMAIN b.orders, NEW o \in Known,
         Sound(With(b.orders, n, o))
  PROVE  Aggregated(RefAdd(b, n, o))
<1> DEFINE t == b.orders
           t2 == With(b.orders, n, o)
           s == o.side
           p == o.price
           L == AtLevel(t, s, p)
           L2 == AtLevel(t2, s, p)
           F == b.levels[s]
           l == LevelAt(b, s, p)
           new == [qty |-> l.qty + o.qty, orders |-> l.orders + 1]
<1>1. s \in ItchSides /\ o.qty \in Nat
  BY DEF Known
<1>2. /\ DOMAIN t2 = DOMAIN t \cup {n} /\ t2[n] = o /\ \A r \in DOMAIN t \ {n} : t2[r] = t[r]
  BY DEF With
<1>3. Changes(t, t2, n, s, p)
  BY <1>2 DEF Changes
<1>4. n \in L2 /\ n \notin L
  BY <1>2 DEF AtLevel
<1>5. l = Totals(t, L)
  <2>1. CASE p \in DOMAIN F
    BY <1>1, <2>1, LevelKept DEF LevelAt
  <2>2. CASE p \notin DOMAIN F
    <3>1. L = {}
      BY <1>1, <2>2, LevelKept
    <3>2. Totals(t, {}) = [qty |-> 0, orders |-> 0]
      BY SumEmpty, FS_EmptySet DEF Totals
    <3> QED BY <2>2, <3>1, <3>2 DEF LevelAt
  <2> QED BY <2>1, <2>2
<1>6. new = Totals(t2, L2)
  <2>1. L2 \ {n} = L
    <3>1. L2 \ {n} = L \ {n}
      BY <1>3, RestOfLevel
    <3> QED BY <1>4, <3>1
  <2>2. QtySum(t2, L2 \ {n}) = QtySum(t, L)
    <3>1. QtySum(t2, L2 \ {n}) = QtySum(t, L \ {n}) /\ L \ {n} = L
      BY <1>3, <1>4, RestOfSum
    <3> QED BY <3>1
  <2>3. /\ QtySum(t2, L2) = t2[n].qty + QtySum(t2, L2 \ {n})
        /\ Cardinality(L2) = Cardinality(L2 \ {n}) + 1
        /\ QtySum(t2, L2 \ {n}) \in Nat
    <3>1. n \in L2 /\ L2 \in SUBSET AtLevel(t2, s, p) /\ Sound(t2)
      BY <1>4
    <3> HIDE DEF L2, t2, s, p
    <3>2. \A r \in L2 : /\ QtySum(t2, L2) = t2[r].qty + QtySum(t2, L2 \ {r})
                         /\ Cardinality(L2) = Cardinality(L2 \ {r}) + 1
                         /\ QtySum(t2, L2 \ {r}) \in Nat
      BY <3>1, LevelSum
    <3> QED BY <3>1, <3>2
  <2>4. l.qty = QtySum(t, L) /\ l.orders = Cardinality(L)
    BY <1>5 DEF Totals
  <2> HIDE DEF l, L, L2, t, t2
  <2>5. t2[n] = o /\ o.qty \in Nat /\ QtySum(t, L) \in Nat
    BY <1>1, <1>2, <2>2, <2>3 DEF t2
  <2>6. l.qty + o.qty = QtySum(t2, L2)
    BY <2>2, <2>3, <2>4, <2>5
  <2>7. l.orders + 1 = Cardinality(L2)
    BY <2>1, <2>3, <2>4
  <2> QED BY <2>6, <2>7 DEF Totals
<1>7. F = LevelsOf(t, s) /\ L2 # {}
  BY <1>1, <1>4, LevelKept
<1>8. RefAdd(b, n, o).orders = t2 /\ RefAdd(b, n, o).levels = [b.levels EXCEPT ![s] = With(F, p, new)]
  BY <1>1 DEF RefAdd, Aggregated, AllLevels
<1> HIDE DEF F, new, L2
<1>9. [AllLevels(t) EXCEPT ![s] = With(F, p, new)] = AllLevels(t2)
  <2>1. With(F, p, new) = SideAfter(t, t2, s, p)
    BY <1>6, <1>7 DEF SideAfter, L2
  <2> HIDE DEF t, t2, s, p
  <2>2. AllLevels(t2) = [AllLevels(t) EXCEPT ![s] = SideAfter(t, t2, s, p)]
    BY <1>1, <1>3, LevelsChange
  <2> QED BY <2>1, <2>2
<1>10. b.levels = AllLevels(t)
  BY DEF Aggregated
<1> QED BY <1>8, <1>9, <1>10 DEF Aggregated

\* std::min of a quantity and a larger one.
LEMMA MinIsSmaller ==
  ASSUME NEW a \in Nat, NEW b \in Nat, b <= a
  PROVE  Min({a, b}) = b
<1>1. \E x \in {a, b} : \A y \in {a, b} : x <= y
  OBVIOUS
<1>2. Min({a, b}) \in {a, b} /\ \A y \in {a, b} : Min({a, b}) <= y
  BY <1>1 DEF Min
<1> QED BY <1>2

\* An order of t loses d in t2, and goes when that is all it has.
Loses(t, t2, key, s, p, d, gone) ==
  /\ key \in DOMAIN t /\ s \in ItchSides /\ Changes(t, t2, key, s, p)
  /\ d \in Nat /\ d <= t[key].qty /\ gone = (d = t[key].qty)
  /\ key \in DOMAIN t2 <=> d # t[key].qty
  /\ key \in DOMAIN t2 => t2[key].qty = t[key].qty - d

\* sub_level() of what an order loses.
LEMMA SubAggregates ==
  ASSUME NEW b, Aggregated(b), NEW t2, NEW key, NEW s, NEW p, NEW d, NEW gone,
         Loses(b.orders, t2, key, s, p, d, gone)
  PROVE  SubLevel(b, s, p, d, gone) = AllLevels(t2)
<1> DEFINE t == b.orders
           q == t[key].qty
           L == AtLevel(t, s, p)
           L2 == AtLevel(t2, s, p)
           F == b.levels[s]
           l == F[p]
           qty == l.qty - Min({l.qty, d})
           orders == IF d = q /\ l.orders > 0 THEN l.orders - 1 ELSE l.orders
<1>0. /\ key \in DOMAIN t /\ s \in ItchSides /\ Changes(t, t2, key, s, p)
      /\ d \in Nat /\ d <= q /\ gone = (d = q)
      /\ key \in DOMAIN t2 <=> d # q
      /\ key \in DOMAIN t2 => t2[key].qty = q - d
  BY DEF Loses
<1>1. key \in L
  BY <1>0 DEF AtLevel, Changes
<1>2. p \in DOMAIN F /\ F = LevelsOf(t, s) /\ l = Totals(t, L)
  BY <1>0, <1>1, LevelKept
<1>3. l.qty = QtySum(t, L) /\ l.orders = Cardinality(L)
  BY <1>2 DEF Totals
<1>4. /\ QtySum(t, L) = q + QtySum(t, L \ {key}) /\ Cardinality(L) = Cardinality(L \ {key}) + 1
      /\ QtySum(t, L \ {key}) \in Nat /\ Cardinality(L \ {key}) \in Nat
  BY <1>0, <1>1, LevelSum DEF Changes
<1>5. q \in Nat
  BY <1>0 DEF Changes, Sound, Below, Known
<1>6. L2 \ {key} = L \ {key} /\ QtySum(t2, L2 \ {key}) = QtySum(t, L \ {key})
  <2>1. L2 \ {key} = L \ {key}
    BY <1>0, RestOfLevel
  <2>2. QtySum(t2, L2 \ {key}) = QtySum(t, L \ {key})
    BY <1>0, RestOfSum
  <2> QED BY <2>1, <2>2
<1>7. (QtySum(t2, L2) = 0 <=> L2 = {}) /\ QtySum(t2, L2) \in Nat
  BY <1>0, LevelSum DEF Changes
<1>8. Totals(t2, L2) = [qty |-> qty, orders |-> orders] /\ (qty = 0 <=> L2 = {})
  <2> HIDE DEF t, L, L2, F, l, q
  <2>0. d \in Nat /\ d <= q /\ l.qty \in Nat /\ d <= l.qty
    BY <1>0, <1>3, <1>4, <1>5
  <2>1. Min({l.qty, d}) = d
    BY <2>0, MinIsSmaller
  <2>2. qty = (q - d) + QtySum(t, L \ {key})
    BY <1>3, <1>4, <1>5, <2>0, <2>1
  <2>3. CASE d = q
    <3>1. L2 \ {key} = L2
      BY <1>0, <2>3 DEF L2, AtLevel
    <3>2. L \ {key} = L2
      BY <1>6, <3>1
    <3>3. QtySum(t, L \ {key}) = QtySum(t2, L2)
      BY <1>6, <3>2
    <3>4. qty = QtySum(t2, L2)
      <4> HIDE DEF qty
      <4> QED BY <1>4, <1>5, <2>2, <2>3, <3>3
    <3>5. orders = Cardinality(L2)
      <4>1. Cardinality(L \ {key}) = Cardinality(L2)
        BY <3>2
      <4>2. orders = l.orders - 1
        BY <1>3, <1>4, <2>3
      <4> HIDE DEF orders
      <4> QED BY <1>3, <1>4, <4>1, <4>2
    <3> HIDE DEF qty, orders
    <3> QED BY <1>7, <3>4, <3>5 DEF Totals
  <2>4. CASE d # q
    <3>1. key \in L2 /\ t2[key].qty = q - d
      BY <1>0, <2>4 DEF L2, AtLevel, Changes
    <3>2. QtySum(t2, L2) = t2[key].qty + QtySum(t2, L2 \ {key}) /\ Cardinality(L2) = Cardinality(L2 \ {key}) + 1
      BY <1>0, <3>1, LevelSum DEF Changes, L2
    <3>3. qty = QtySum(t2, L2)
      BY <1>4, <1>5, <1>6, <2>2, <3>1, <3>2
    <3>4. orders = Cardinality(L2)
      BY <1>3, <1>4, <1>6, <2>4, <3>2
    <3> HIDE DEF qty, orders
    <3> QED BY <1>7, <3>3, <3>4 DEF Totals
  <2> QED BY <2>3, <2>4
<1>9. SubLevel(b, s, p, d, gone) =
        [b.levels EXCEPT ![s] = IF L2 = {} THEN Without(F, p) ELSE With(F, p, Totals(t2, L2))]
  <2>1. [F EXCEPT ![p] = [qty |-> qty, orders |-> orders]] = With(F, p, [qty |-> qty, orders |-> orders])
    <3> HIDE DEF qty, orders, l
    <3>1. F = [x \in DOMAIN F |-> F[x]]
      <4> HIDE DEF F
      <4> QED BY <1>2 DEF LevelsOf
    <3> HIDE DEF F
    <3> QED BY <1>2, <3>1 DEF With
  <2>2. SubLevel(b, s, p, d, gone) =
          [b.levels EXCEPT ![s] = IF qty = 0 THEN Without(F, p) ELSE [F EXCEPT ![p] = [qty |-> qty, orders |-> orders]]]
    BY <1>0, <1>2 DEF SubLevel, Aggregated, AllLevels
  <2> HIDE DEF qty, orders, F, L2, l, q
  <2> QED BY <1>8, <2>1, <2>2
<1>10. b.levels = AllLevels(t)
  BY DEF Aggregated
<1> HIDE DEF F, L2, q, t
<1>11. SideAfter(t, t2, s, p) = IF L2 = {} THEN Without(F, p) ELSE With(F, p, Totals(t2, L2))
  BY <1>2 DEF SideAfter, L2
<1>12. AllLevels(t2) = [AllLevels(t) EXCEPT ![s] = SideAfter(t, t2, s, p)]
  BY <1>0, LevelsChange DEF t
<1> QED BY <1>9, <1>10, <1>11, <1>12 DEF q, t

\* The orders of a book without one of them, and with a smaller one.
LEMMA RemovalChanges ==
  ASSUME NEW t, NEW n \in Nat, Below(t, n), NEW key \in DOMAIN t
  PROVE  Changes(t, Without(t, key), key, t[key].side, t[key].price)
<1>1. Sound(t) /\ Sound(Without(t, key))
  BY Erased DEF Sound
<1>2. /\ DOMAIN Without(t, key) = DOMAIN t \ {key}
      /\ \A r \in DOMAIN t \ {key} : Without(t, key)[r] = t[r]
  BY DEF Without, Restrict
<1> QED BY <1>1, <1>2 DEF Changes

LEMMA ShrinkingChanges ==
  ASSUME NEW t, NEW n \in Nat, Below(t, n), NEW key \in DOMAIN t, NEW q \in Nat \ {0}
  PROVE  Changes(t, [t EXCEPT ![key].qty = q], key, t[key].side, t[key].price)
<1> DEFINE t2 == [t EXCEPT ![key].qty = q]
<1>1. Sound(t) /\ Sound(t2)
  BY Shrunk DEF Sound
<1>2. /\ DOMAIN t2 = DOMAIN t /\ t2[key] = [t[key] EXCEPT !.qty = q]
      /\ \A r \in DOMAIN t \ {key} : t2[r] = t[r]
  BY DEF Below
<1>3. t[key] \in Known
  BY DEF Below
<1>4. t2[key].side = t[key].side /\ t2[key].price = t[key].price
  BY <1>2, <1>3 DEF Known
<1> QED BY <1>1, <1>2, <1>4 DEF Changes

LEMMA RemoveAggregates ==
  ASSUME NEW b, NEW n \in Nat, NEW key, Below(b.orders, n), Aggregated(b)
  PROVE  Aggregated(RefRemove(b, key))
<1>1. CASE key \notin DOMAIN b.orders
  BY <1>1 DEF RefRemove
<1>2. CASE key \in DOMAIN b.orders
  <2> DEFINE o == b.orders[key]
             t2 == Without(b.orders, key)
  <2>1. o \in Known
    BY <1>2 DEF Below
  <2>2. o.side \in ItchSides /\ o.qty \in Nat /\ o.qty <= o.qty
    BY <2>1 DEF Known
  <2>3. Changes(b.orders, t2, key, o.side, o.price)
    BY <1>2, RemovalChanges
  <2>4. key \notin DOMAIN t2
    BY DEF Without, Restrict
  <2>5. SubLevel(b, o.side, o.price, o.qty, TRUE) = AllLevels(t2)
    <3> HIDE DEF t2
    <3>1. Loses(b.orders, t2, key, o.side, o.price, o.qty, TRUE)
      BY <1>2, <2>2, <2>3, <2>4 DEF Loses
    <3>2. PICK s, p, d, gone : s = o.side /\ p = o.price /\ d = o.qty /\ gone = TRUE
      OBVIOUS
    <3>3. Loses(b.orders, t2, key, s, p, d, gone)
      BY <3>1, <3>2
    <3>4. SubLevel(b, s, p, d, gone) = AllLevels(t2)
      BY <3>3, SubAggregates
    <3> QED BY <3>2, <3>4
  <2> QED BY <1>2, <2>5 DEF RefRemove, Aggregated
<1> QED BY <1>1, <1>2

LEMMA ReduceAggregates ==
  ASSUME NEW b, NEW n \in Nat, NEW key, NEW by \in Nat, Below(b.orders, n), Aggregated(b)
  PROVE  Aggregated(RefReduce(b, key, by))
<1>1. CASE key \notin DOMAIN b.orders
  BY <1>1 DEF RefReduce
<1>2. CASE key \in DOMAIN b.orders
  <2> DEFINE o == b.orders[key]
             d == Min({by, o.qty})
             t2 == IF d = o.qty THEN Without(b.orders, key) ELSE [b.orders EXCEPT ![key].qty = o.qty - d]
  <2>1. o \in Known
    BY <1>2 DEF Below
  <2>2. o.side \in ItchSides /\ o.qty \in Nat \ {0}
    BY <2>1 DEF Known
  <2>3. d \in Nat /\ d <= o.qty
    BY <2>2, MinOfTwo
  <2>4. RefReduce(b, key, by) = [orders |-> t2, levels |-> SubLevel(b, o.side, o.price, d, d = o.qty)]
    BY <1>2 DEF RefReduce
  <2>5. Changes(b.orders, t2, key, o.side, o.price)
    <3> HIDE DEF d
    <3>1. CASE d = o.qty
      BY <1>2, <3>1, RemovalChanges
    <3>2. CASE d # o.qty
      <4>1. o.qty - d \in Nat \ {0}
        BY <2>2, <2>3, <3>2
      <4> QED BY <1>2, <3>2, <4>1, ShrinkingChanges
    <3> QED BY <3>1, <3>2
  <2>6. /\ key \in DOMAIN t2 <=> d # o.qty
        /\ key \in DOMAIN t2 => t2[key].qty = o.qty - d
    <3> HIDE DEF d
    <3>1. CASE d = o.qty
      BY <3>1 DEF Without, Restrict
    <3>2. CASE d # o.qty
      BY <1>2, <2>1, <3>2 DEF Below, Known
    <3> QED BY <3>1, <3>2
  <2>7. SubLevel(b, o.side, o.price, d, d = o.qty) = AllLevels(t2)
    <3> HIDE DEF t2, d
    <3>1. Loses(b.orders, t2, key, o.side, o.price, d, d = o.qty)
      BY <1>2, <2>2, <2>3, <2>5, <2>6 DEF Loses
    <3>2. PICK s, p, gone : s = o.side /\ p = o.price /\ gone = (d = o.qty)
      OBVIOUS
    <3>3. Loses(b.orders, t2, key, s, p, d, gone)
      BY <3>1, <3>2
    <3>4. SubLevel(b, s, p, d, gone) = AllLevels(t2)
      BY <3>3, SubAggregates
    <3> QED BY <3>2, <3>4
  <2> HIDE DEF t2, d
  <2> QED BY <2>4, <2>7 DEF Aggregated
<1> QED BY <1>1, <1>2

LEMMA EntryAggregates ==
  ASSUME NEW b, NEW n \in Nat, NEW o \in Known, Below(b.orders, n), Aggregated(b)
  PROVE  Aggregated(RefAdd(b, n, o))
<1>1. n \notin DOMAIN b.orders
  BY DEF Below
<1>2. Sound(b.orders) /\ Sound(With(b.orders, n, o))
  <2>1. n + 1 \in Nat
    OBVIOUS
  <2> QED BY <2>1, Entered DEF Sound
<1> QED BY <1>1, <1>2, AddAggregates

LEMMA ReplaceAggregates ==
  ASSUME NEW b, NEW n \in Nat, NEW key, NEW qty \in Nat \ {0}, NEW price \in Prices,
         Below(b.orders, n), Aggregated(b)
  PROVE  Aggregated(RefReplace(b, key, n, qty, price))
<1>1. CASE key \notin DOMAIN b.orders
  BY <1>1 DEF RefReplace
<1>2. CASE key \in DOMAIN b.orders
  <2> DEFINE o == [side |-> b.orders[key].side, price |-> price, qty |-> qty]
             c == RefRemove(b, key)
  <2>1. o \in Known
    BY <1>2 DEF Below, Known
  <2>2. Below(c.orders, n) /\ Aggregated(c)
    <3>1. c.orders = Without(b.orders, key)
      BY <1>2 DEF RefRemove
    <3> QED BY <3>1, Erased, RemoveAggregates
  <2>3. RefReplace(b, key, n, qty, price) = RefAdd(c, n, o)
    BY <1>2 DEF RefReplace
  <2> HIDE DEF o, c
  <2> QED BY <2>1, <2>2, <2>3, EntryAggregates
<1> QED BY <1>1, <1>2
----------------------------------------------------------------------------
(***************************************************************************)
(* The messages of the feed.                                               *)
(***************************************************************************)
\* The books are the same and hold only references that have been given out: a
\* reference the feed introduces is new to both.  The levels of the reference
\* book are what its orders add up to.
IInv ==
  /\ TranslatorMirrorsRef
  /\ nextRef \in Nat
  /\ Below(tr, nextRef)
  /\ Aggregated(ref)

\* The bound on the references after message m.
NextBound(m) == IF m.type \in {"Add", "Replace"} THEN nextRef + 1 ELSE nextRef

\* A message of the feed leaves both books the same.
LEMMA MessageAgrees ==
  ASSUME IInv, NEW m \in FeedMessages, m.type # "Malformed"
  PROVE  /\ RefApply(ref, m).orders = Translate(tr, m).orders
         /\ Below(Translate(tr, m).orders, NextBound(m))
         /\ Aggregated(RefApply(ref, m))
<1>1. /\ nextRef \in Nat /\ tr = ref.orders /\ Below(ref.orders, nextRef) /\ Aggregated(ref)
  BY DEF IInv, TranslatorMirrorsRef
<1>2. Shares \subseteq Nat \ {0}
  BY Itch50Assumption
<1>3. CASE m \in [type: {"Add"}, ref: Fresh, side: ItchSides, price: Prices, qty: Shares]
  <2> DEFINE o == [side |-> m.side, price |-> m.price, qty |-> m.qty]
  <2>1. o \in Known
    BY <1>2, <1>3 DEF Known
  <2>2. m.ref = nextRef /\ m.type = "Add"
    BY <1>3 DEF Fresh
  <2>3. RefApply(ref, m) = RefAdd(ref, nextRef, o) /\ Translate(tr, m) = OnAdd(tr, nextRef, o)
    BY <2>2 DEF RefApply, Translate
  <2> HIDE DEF o
  <2> QED BY <1>1, <2>1, <2>2, <2>3, AddAgrees, EntryAggregates DEF NextBound
<1>4. CASE m \in [type: {"Reduce"}, ref: Given, qty: Shares]
  <2>1. m.type = "Reduce" /\ m.qty \in Nat
    BY <1>2, <1>4
  <2>2. RefApply(ref, m) = RefReduce(ref, m.ref, m.qty) /\ Translate(tr, m) = OnReduce(tr, m.ref, m.qty)
    BY <2>1 DEF RefApply, Translate
  <2> QED BY <1>1, <2>1, <2>2, ReduceAgrees, ReduceAggregates DEF NextBound
<1>5. CASE m \in [type: {"Delete"}, ref: Given]
  <2>1. m.type = "Delete"
    BY <1>5
  <2>2. RefApply(ref, m) = RefRemove(ref, m.ref) /\ Translate(tr, m) = OnDelete(tr, m.ref)
    BY <2>1 DEF RefApply, Translate
  <2>3. /\ RefRemove(ref, m.ref).orders = OnDelete(tr, m.ref).orders
        /\ Below(OnDelete(tr, m.ref).orders, nextRef)
    BY <1>1, DeleteAgrees
  <2>4. Aggregated(RefRemove(ref, m.ref))
    BY <1>1, RemoveAggregates
  <2> QED BY <2>1, <2>2, <2>3, <2>4 DEF NextBound
<1>6. CASE m \in [type: {"Replace"}, ref: Given, nref: Fresh, price: Prices, qty: Shares]
  <2>1. m.type = "Replace" /\ m.nref = nextRef /\ m.qty \in Nat \ {0} /\ m.price \in Prices
    BY <1>2, <1>6 DEF Fresh
  <2>2. /\ RefApply(ref, m) = RefReplace(ref, m.ref, nextRef, m.qty, m.price)
        /\ Translate(tr, m) = OnReplace(tr, m.ref, nextRef, m.qty, m.price)
    BY <2>1 DEF RefApply, Translate
  <2> QED BY <1>1, <2>1, <2>2, ReplaceAgrees, ReplaceAggregates DEF NextBound
<1> QED BY <1>3, <1>4, <1>5, <1>6 DEF FeedMessages, Decoded

\* A step that gives out at most one reference and leaves both books alone.
LEMMA BooksAlone ==
  ASSUME IInv, ref' = ref, tr' = tr, nextRef' = nextRef \/ nextRef' = nextRef + 1
  PROVE  IInv'
BY DEF IInv, TranslatorMirrorsRef, Below, Aggregated

LEMMA ReplayPreserves ==
  ASSUME IInv, NEW m \in FeedMessages, NEW reached \in BOOLEAN, ReplayMessage(m, reached)
  PROVE  IInv'
<1>1. nextRef' = NextBound(m) /\ nextRef \in Nat
  BY DEF ReplayMessage, Counted, NextBound, IInv
<1>2. CASE m.type = "Malformed"
  <2>1. ref' = ref /\ tr' = tr
    BY <1>2 DEF ReplayMessage
  <2> QED BY <1>1, <2>1, BooksAlone DEF NextBound
<1>3. CASE m.type # "Malformed"
  <2>1. ref' = RefApply(ref, m) /\ tr' = Translate(tr, m).orders
    BY <1>3 DEF ReplayMessage
  <2> QED BY <1>1, <1>3, <2>1, MessageAgrees DEF IInv, TranslatorMirrorsRef, NextBound
<1> QED BY <1>2, <1>3

LEMMA LivePreserves ==
  ASSUME IInv, NEW m \in FeedMessages, LiveMessage(m)
  PROVE  IInv'
<1>1. nextRef' = NextBound(m) /\ nextRef \in Nat
  BY DEF LiveMessage, Counted, NextBound, IInv
<1>2. CASE m.type = "Malformed"
  <2>1. ref' = ref /\ tr' = tr
    BY <1>2 DEF LiveMessage
  <2> QED BY <1>1, <2>1, BooksAlone DEF NextBound
<1>3. CASE m.type # "Malformed"
  <2>1. ref' = RefApply(ref, m) /\ tr' = Translate(tr, m).orders
    BY <1>3 DEF LiveMessage
  <2> QED BY <1>1, <1>3, <2>1, MessageAgrees DEF IInv, TranslatorMirrorsRef, NextBound
<1> QED BY <1>2, <1>3

\* No orders, no levels.
LEMMA EmptyAggregated == Aggregated(EmptyRefBook)
<1>1. \A s \in ItchSides : LevelsOf(<<>>, s) = <<>>
  BY DEF LevelsOf, Occupied
<1> QED BY <1>1 DEF Aggregated, AllLevels, EmptyRefBook

LEMMA Inductive == Spec => []IInv
<1>1. Init => IInv
  BY EmptyAggregated DEF Init, IInv, TranslatorMirrorsRef, Below, EmptyRefBook
<1>2. ASSUME IInv, [Next]_vars
      PROVE  IInv'
  <2>1. CASE ReadDirectory
    BY <1>2, <2>1, BooksAlone DEF ReadDirectory
  <2>2. CASE ReadMessage
    <3>1. PICK m \in FeedMessages :
            \/ SkipMessage(m)
            \/ \E reached \in BOOLEAN : ReplayMessage(m, reached)
            \/ LiveMessage(m)
      BY <2>2 DEF ReadMessage
    <3>2. CASE SkipMessage(m)
      BY <1>2, <3>2, BooksAlone DEF SkipMessage, Counted
    <3> QED BY <1>2, <3>1, <3>2, ReplayPreserves, LivePreserves
  <2>3. CASE Send \/ SendRefused \/ Pop \/ Execute \/ Count
    BY <1>2, <2>3, BooksAlone DEF Send, SendRefused, Pop, Execute, Count, feedVars
  <2>4. CASE EndOfFile \/ LiveEnds \/ WaitUntilDrained \/ Finish
    BY <1>2, <2>4, BooksAlone DEF EndOfFile, LiveEnds, WaitUntilDrained, Finish
  <2>5. CASE Ended \/ UNCHANGED vars
    BY <1>2, <2>5, BooksAlone DEF Ended, vars, feedVars
  <2> QED BY <1>2, <2>1, <2>2, <2>3, <2>4, <2>5 DEF Next, Reader
<1> QED BY <1>1, <1>2, PTL DEF Spec

\* On every path the reference book and the translator hold the same orders:
\* what the replay compares the engine with is what the engine was told.
THEOREM BooksNeverDrift == Spec => []TranslatorMirrorsRef
<1>1. IInv => TranslatorMirrorsRef
  BY DEF IInv
<1> QED BY Inductive, <1>1, PTL

\* The reference book keeps its levels by increments; they are never anything
\* but the sums and the counts of the orders it holds.
THEOREM LevelsAreSums == Spec => []DepthIsAggregate
<1>1. IInv => DepthIsAggregate
  BY AggregatedDepth DEF IInv
<1> QED BY Inductive, <1>1, PTL
----------------------------------------------------------------------------
(***************************************************************************)
(* The book of the engine as a sequence: what an operation takes out,      *)
(* moves or changes, as a map g from the places of the new book to those   *)
(* of the old.                                                             *)
(***************************************************************************)
\* What the engine keeps of an order.
EngineOrders == [id: Nat, side: BookSides, price: Nat, qty: Nat]

\* Book b holds orders of book a, each where g says, with any quantity.
Kept(b, a, g) ==
  /\ g \in [DOMAIN b -> DOMAIN a]
  /\ \A j, k \in DOMAIN b : g[j] = g[k] => j = k
  /\ \A j \in DOMAIN b : b[j].id = a[g[j]].id /\ b[j].side = a[g[j]].side /\ b[j].price = a[g[j]].price

\* ... and in the same order.
InTurn(b, g) == \A j, k \in DOMAIN b : j < k => g[j] < g[k]

\* Every order of a but those in the set gone.
AllBut(b, a, g, gone) == \A i \in DOMAIN a \ gone : \E j \in DOMAIN b : g[j] = i

\* Book b is a without the order at i; with quantity q for it, in its place or
\* anywhere.
Drops(b, a, g, i) ==
  /\ Kept(b, a, g) /\ InTurn(b, g) /\ AllBut(b, a, g, {i})
  /\ \A j \in DOMAIN b : g[j] # i /\ b[j] = a[g[j]]
Sets(b, a, g, i, q) ==
  /\ Kept(b, a, g) /\ AllBut(b, a, g, {})
  /\ \A j \in DOMAIN b : b[j].qty = IF g[j] = i THEN q ELSE a[g[j]].qty

\* One order less.
LEMMA OneLess ==
  ASSUME NEW a \in Seq(EngineOrders), NEW i \in DOMAIN a, NEW b, b = RemoveAt(a, i)
  PROVE  /\ b \in Seq(EngineOrders) /\ Len(b) = Len(a) - 1
         /\ \E g : Drops(b, a, g, i)
<1> DEFINE g == [j \in DOMAIN b |-> IF j < i THEN j ELSE j + 1]
<1>1. Len(a) \in Nat /\ DOMAIN a = 1..Len(a)
  BY LenProperties
<1>2. /\ b \in Seq(EngineOrders) /\ Len(b) = Len(a) - 1
      /\ \A j \in 1..(Len(a) - 1) : b[j] = IF j < i THEN a[j] ELSE a[j + 1]
  BY <1>1, RemoveAtProperties
<1>3. DOMAIN b = 1..(Len(a) - 1)
  BY <1>2, LenProperties
<1>4. g \in [DOMAIN b -> DOMAIN a] /\ \A j \in DOMAIN b : g[j] # i /\ b[j] = a[g[j]]
  BY <1>1, <1>2, <1>3
<1>5. InTurn(b, g)
  BY <1>1, <1>3 DEF InTurn
<1>6. ASSUME NEW k \in DOMAIN a \ {i} PROVE \E j \in DOMAIN b : g[j] = k
  <2>1. CASE k < i
    <3>1. k \in DOMAIN b /\ g[k] = k
      BY <1>1, <1>3, <2>1
    <3> QED BY <3>1
  <2>2. CASE k > i
    <3>1. k - 1 \in DOMAIN b /\ g[k - 1] = k
      BY <1>1, <1>3, <2>2
    <3> QED BY <3>1
  <2> QED BY <1>1, <2>1, <2>2
<1>7. \A j, k \in DOMAIN b : g[j] = g[k] => j = k
  BY <1>1, <1>3
<1> HIDE DEF g
<1>8. Kept(b, a, g)
  BY <1>4, <1>7 DEF Kept
<1>9. AllBut(b, a, g, {i})
  BY <1>6 DEF AllBut
<1>10. Drops(b, a, g, i)
  BY <1>4, <1>5, <1>8, <1>9 DEF Drops
<1> QED BY <1>2, <1>10

\* One order with another quantity, in its place.
LEMMA OneChanged ==
  ASSUME NEW a \in Seq(EngineOrders), NEW i \in DOMAIN a, NEW q \in Nat,
         NEW b, b = [a EXCEPT ![i].qty = q]
  PROVE  /\ b \in Seq(EngineOrders) /\ Len(b) = Len(a)
         /\ \E g : Sets(b, a, g, i, q) /\ InTurn(b, g)
<1> DEFINE g == [j \in DOMAIN a |-> j]
<1>1. Len(a) \in Nat /\ DOMAIN a = 1..Len(a)
  BY LenProperties
<1>2. \A j \in DOMAIN a : a[j] \in EngineOrders
  BY <1>1, ElementOfSeq
<1>3. DOMAIN b = DOMAIN a /\ b[i] = [a[i] EXCEPT !.qty = q] /\ \A j \in DOMAIN a \ {i} : b[j] = a[j]
  BY <1>1
<1>4. b = [j \in DOMAIN a |-> b[j]]
  OBVIOUS
<1>5. \A j \in DOMAIN a : g[j] = j
  OBVIOUS
<1>6. g \in [DOMAIN a -> DOMAIN a]
  OBVIOUS
<1> HIDE DEF g
<1>7. b[i] \in EngineOrders /\ b[i].id = a[i].id /\ b[i].side = a[i].side /\ b[i].price = a[i].price /\ b[i].qty = q
  BY <1>2, <1>3 DEF EngineOrders
<1>8. b \in Seq(EngineOrders) /\ Len(b) = Len(a)
  <2>1. \A j \in DOMAIN a : b[j] \in EngineOrders
    BY <1>2, <1>3, <1>7
  <2>2. b \in [1..Len(a) -> EngineOrders]
    BY <1>1, <1>4, <2>1
  <2>3. b \in Seq(EngineOrders)
    BY <1>1, <2>2, SeqDef
  <2> QED BY <1>1, <1>3, <2>3, LenProperties
<1>9. Kept(b, a, g) /\ InTurn(b, g) /\ AllBut(b, a, g, {})
  BY <1>1, <1>3, <1>5, <1>6, <1>7 DEF Kept, InTurn, AllBut
<1>10. \A j \in DOMAIN b : g[j] = j /\ b[j].qty = IF j = i THEN q ELSE a[j].qty
  BY <1>3, <1>5, <1>7
<1>11. Sets(b, a, g, i, q)
  BY <1>9, <1>10 DEF Sets
<1> QED BY <1>8, <1>9, <1>11

\* One order with another quantity, at the end of the queue.
LEMMA OneMoved ==
  ASSUME NEW a \in Seq(EngineOrders), NEW i \in DOMAIN a, NEW q \in Nat,
         NEW b, b = Append(RemoveAt(a, i), [a[i] EXCEPT !.qty = q])
  PROVE  /\ b \in Seq(EngineOrders) /\ Len(b) = Len(a)
         /\ \E g : Sets(b, a, g, i, q)
<1>0. PICK c : c = RemoveAt(a, i)
  OBVIOUS
<1>1. c \in Seq(EngineOrders) /\ Len(c) = Len(a) - 1
  BY <1>0, OneLess
<1>2. PICK h : Drops(c, a, h, i)
  BY <1>0, OneLess
<1>3. PICK o : o = [a[i] EXCEPT !.qty = q]
  OBVIOUS
<1> DEFINE last == Len(a)
           g == [j \in 1..last |-> IF j = last THEN i ELSE h[j]]
<1>4. last \in Nat /\ DOMAIN a = 1..last /\ DOMAIN c = 1..(last - 1) /\ last > 0
  BY <1>1, LenProperties
<1>5. a[i] \in EngineOrders
  BY <1>4, ElementOfSeq
<1>6. o \in EngineOrders /\ o.id = a[i].id /\ o.side = a[i].side /\ o.price = a[i].price /\ o.qty = q
  BY <1>3, <1>5 DEF EngineOrders
<1>7. b = Append(c, o)
  BY <1>0, <1>3
<1>8. /\ b \in Seq(EngineOrders) /\ Len(b) = last
      /\ \A j \in 1..last : b[j] = IF j = last THEN o ELSE c[j]
  <2> HIDE DEF last
  <2>1. o \in EngineOrders /\ c \in Seq(EngineOrders)
    BY <1>1, <1>6
  <2>2. /\ Append(c, o) \in Seq(EngineOrders) /\ Len(Append(c, o)) = Len(c) + 1
        /\ \A j \in 1..Len(c) : Append(c, o)[j] = c[j]
        /\ Append(c, o)[Len(c) + 1] = o
    BY <2>1, AppendProperties
  <2>3. Len(c) = last - 1
    BY <1>1 DEF last
  <2>4. /\ b \in Seq(EngineOrders) /\ Len(b) = Len(c) + 1
        /\ \A j \in 1..Len(c) : b[j] = c[j]
        /\ b[Len(c) + 1] = o
    BY <1>7, <2>2, Zenon
  <2>5. Len(c) + 1 = last
    BY <1>4, <2>3
  <2>6. ASSUME NEW j \in 1..last PROVE b[j] = IF j = last THEN o ELSE c[j]
    <3>1. j # last => j \in 1..Len(c)
      BY <1>4, <2>3
    <3> QED BY <2>4, <2>5, <3>1
  <2>7. b \in Seq(EngineOrders) /\ Len(b) = last
    BY <2>4, <2>5
  <2> QED BY <2>6, <2>7
<1>9. DOMAIN b = 1..last
  BY <1>8, LenProperties
<1>10. h \in [DOMAIN c -> DOMAIN a]
  BY <1>2 DEF Drops, Kept
<1> HIDE DEF last
<1>11. g \in [DOMAIN b -> DOMAIN a]
  BY <1>4, <1>9, <1>10
<1>12. last \in DOMAIN b /\ g[last] = i /\ b[last] = o
  BY <1>4, <1>8, <1>9
<1>13. ASSUME NEW j \in DOMAIN b, j # last PROVE j \in DOMAIN c /\ g[j] = h[j] /\ b[j] = c[j]
  BY <1>4, <1>8, <1>9, <1>13
<1> HIDE DEF g
<1>14. \A j, k \in DOMAIN b : g[j] = g[k] => j = k
  BY <1>2, <1>12, <1>13 DEF Drops, Kept
<1>15. ASSUME NEW j \in DOMAIN b
       PROVE  /\ b[j].id = a[g[j]].id /\ b[j].side = a[g[j]].side /\ b[j].price = a[g[j]].price
              /\ b[j].qty = IF g[j] = i THEN q ELSE a[g[j]].qty
  <2>1. CASE j = last
    BY <1>6, <1>12, <2>1
  <2>2. CASE j # last
    BY <1>2, <1>13, <2>2 DEF Drops
  <2> QED BY <2>1, <2>2
<1>16. Kept(b, a, g)
  BY <1>11, <1>14, <1>15 DEF Kept
<1>17. ASSUME NEW k \in DOMAIN a PROVE \E j \in DOMAIN b : g[j] = k
  <2>1. CASE k = i
    BY <1>12, <2>1
  <2>2. CASE k # i
    <3>1. PICK j \in DOMAIN c : h[j] = k
      BY <1>2, <2>2 DEF Drops, AllBut
    <3>2. j \in DOMAIN b /\ j # last
      BY <1>4, <1>9
    <3> QED BY <1>13, <3>1, <3>2
  <2> QED BY <2>1, <2>2
<1>18. AllBut(b, a, g, {})
  BY <1>17 DEF AllBut
<1>19. Sets(b, a, g, i, q)
  BY <1>15, <1>16, <1>18 DEF Sets
<1> QED BY <1>8, <1>19 DEF last

\* No id twice.
Distinct(b) == \A i, j \in DOMAIN b : b[i].id = b[j].id => i = j

\* What an execution, a cancel and a modify make of book a.
Trades(b, a, g) == Kept(b, a, g) /\ InTurn(b, g) /\ \A j \in DOMAIN b : b[j].qty <= a[g[j]].qty
Withdraws(b, a, g, id) ==
  /\ Kept(b, a, g) /\ InTurn(b, g) /\ AllBut(b, a, g, {i \in DOMAIN a : a[i].id = id})
  /\ \A j \in DOMAIN b : b[j].id # id /\ b[j] = a[g[j]]
Resizes(b, a, g, id, q) ==
  /\ Kept(b, a, g) /\ AllBut(b, a, g, {})
  /\ \A j \in DOMAIN b : b[j].qty = IF b[j].id = id THEN q ELSE a[g[j]].qty
  /\ (\A i \in DOMAIN a : a[i].id = id => q <= a[i].qty) => InTurn(b, g)

\* A book as it is.
LEMMA BookItself ==
  ASSUME NEW a \in Seq(EngineOrders)
  PROVE  /\ Len(a) \in Nat /\ DOMAIN a = 1..Len(a) /\ \A j \in DOMAIN a : a[j] \in EngineOrders
         /\ \E g : Kept(a, a, g) /\ InTurn(a, g) /\ AllBut(a, a, g, {}) /\ \A j \in DOMAIN a : g[j] = j
<1> DEFINE g == [j \in DOMAIN a |-> j]
<1>1. Len(a) \in Nat /\ DOMAIN a = 1..Len(a)
  BY LenProperties
<1>2. \A j \in DOMAIN a : a[j] \in EngineOrders
  BY <1>1, ElementOfSeq
<1>3. Kept(a, a, g) /\ InTurn(a, g) /\ AllBut(a, a, g, {}) /\ \A j \in DOMAIN a : g[j] = j
  BY <1>1 DEF Kept, InTurn, AllBut
<1> HIDE DEF g
<1> QED BY <1>1, <1>2, <1>3

\* One execution: the order it hits has less, or is gone.
LEMMA HitTrades ==
  ASSUME NEW a \in Seq(EngineOrders), NEW i \in DOMAIN a, NEW o \in EngineOrders,
         NEW b, b = Hit(a, o, i)
  PROVE  /\ FillQty(a, o, i) \in Nat /\ FillQty(a, o, i) <= o.qty
         /\ b \in Seq(EngineOrders) /\ Len(b) <= Len(a)
         /\ \E g : Trades(b, a, g)
<1> DEFINE qty == FillQty(a, o, i)
<1>1. Len(a) \in Nat /\ DOMAIN a = 1..Len(a) /\ \A j \in DOMAIN a : a[j] \in EngineOrders /\ a[j].qty \in Nat
  BY BookItself DEF EngineOrders
<1>2. qty \in Nat /\ qty <= o.qty /\ qty <= a[i].qty
  BY <1>1 DEF EngineOrders, FillQty
<1>3. CASE qty = a[i].qty
  <2>1. b = RemoveAt(a, i)
    BY <1>3 DEF Hit
  <2>2. PICK g : Drops(b, a, g, i)
    BY <2>1, OneLess
  <2>3. b \in Seq(EngineOrders) /\ Len(b) = Len(a) - 1
    BY <2>1, OneLess
  <2>4. ASSUME NEW j \in DOMAIN b PROVE b[j].qty <= a[g[j]].qty
    BY <1>1, <2>2 DEF Drops, Kept
  <2>5. Trades(b, a, g)
    BY <2>2, <2>4 DEF Drops, Trades
  <2> QED BY <1>1, <1>2, <2>3, <2>5
<1>4. CASE qty # a[i].qty
  <2>0. PICK q \in Nat : q = a[i].qty - qty
    BY <1>1, <1>2
  <2>1. b = [a EXCEPT ![i].qty = q]
    BY <1>4, <2>0 DEF Hit
  <2>2. PICK g : Sets(b, a, g, i, q) /\ InTurn(b, g)
    BY <2>1, OneChanged
  <2>3. b \in Seq(EngineOrders) /\ Len(b) = Len(a)
    BY <2>1, OneChanged
  <2> HIDE DEF qty
  <2>4. ASSUME NEW j \in DOMAIN b PROVE b[j].qty <= a[g[j]].qty
    <3>1. g[j] \in DOMAIN a /\ b[j].qty = IF g[j] = i THEN q ELSE a[g[j]].qty
      BY <2>2 DEF Sets, Kept
    <3> QED BY <1>1, <1>2, <2>0, <3>1
  <2>5. Trades(b, a, g)
    BY <2>2, <2>4 DEF Sets, Trades
  <2> QED BY <1>1, <1>2, <2>3, <2>5 DEF qty
<1> QED BY <1>3, <1>4

\* cancel_order() takes the order with the id, if there is one.
LEMMA CancelWithdraws ==
  ASSUME NEW a \in Seq(EngineOrders), Distinct(a), NEW id, NEW b, b = CancelOrder(a, id)
  PROVE  /\ b \in Seq(EngineOrders) /\ Len(b) <= Len(a)
         /\ \E g : Withdraws(b, a, g, id)
<1>1. Len(a) \in Nat /\ DOMAIN a = 1..Len(a) /\ \A j \in DOMAIN a : a[j] \in EngineOrders
  BY BookItself
<1>2. CASE PositionsOf(a, id) = {}
  <2>1. b = a /\ \A j \in DOMAIN a : a[j].id # id
    BY <1>2 DEF CancelOrder, PositionsOf
  <2>2. PICK g : Kept(a, a, g) /\ InTurn(a, g) /\ AllBut(a, a, g, {}) /\ \A j \in DOMAIN a : g[j] = j
    BY BookItself
  <2>3. Withdraws(a, a, g, id)
    BY <2>1, <2>2 DEF Withdraws, AllBut
  <2> QED BY <1>1, <2>1, <2>3
<1>3. CASE PositionsOf(a, id) # {}
  <2>1. PICK i : i \in PositionsOf(a, id) /\ b = RemoveAt(a, i)
    BY <1>3 DEF CancelOrder
  <2>2. i \in DOMAIN a /\ a[i].id = id
    BY <2>1 DEF PositionsOf
  <2>3. PICK g : Drops(b, a, g, i)
    BY <2>1, <2>2, OneLess
  <2>4. b \in Seq(EngineOrders) /\ Len(b) = Len(a) - 1
    BY <2>1, <2>2, OneLess
  <2>5. ASSUME NEW j \in DOMAIN b PROVE b[j].id # id /\ b[j] = a[g[j]]
    <3>1. g[j] \in DOMAIN a /\ g[j] # i /\ b[j] = a[g[j]]
      BY <2>3 DEF Drops, Kept
    <3> QED BY <2>2, <3>1 DEF Distinct
  <2>6. {k \in DOMAIN a : a[k].id = id} = {i}
    BY <2>2 DEF Distinct
  <2>7. Withdraws(b, a, g, id)
    BY <2>3, <2>5, <2>6 DEF Drops, Withdraws
  <2> QED BY <1>1, <2>4, <2>7
<1> QED BY <1>2, <1>3

\* modify_order() sets the quantity; the queue is as before unless it grew.
LEMMA ModifyResizes ==
  ASSUME NEW a \in Seq(EngineOrders), Distinct(a), NEW id, NEW q \in Nat \ {0}, NEW b, b = ModifyOrder(a, id, q)
  PROVE  /\ b \in Seq(EngineOrders) /\ Len(b) = Len(a)
         /\ \E g : Resizes(b, a, g, id, q)
<1>1. Len(a) \in Nat /\ DOMAIN a = 1..Len(a) /\ \A j \in DOMAIN a : a[j] \in EngineOrders /\ a[j].qty \in Nat
  BY BookItself DEF EngineOrders
<1>2. CASE PositionsOf(a, id) = {}
  <2>1. b = a /\ \A j \in DOMAIN a : a[j].id # id
    BY <1>2 DEF ModifyOrder, PositionsOf
  <2>2. PICK g : Kept(a, a, g) /\ InTurn(a, g) /\ AllBut(a, a, g, {}) /\ \A j \in DOMAIN a : g[j] = j
    BY BookItself
  <2>3. Resizes(a, a, g, id, q)
    BY <2>1, <2>2 DEF Resizes
  <2> QED BY <1>1, <2>1, <2>3
<1>3. CASE PositionsOf(a, id) # {}
  <2>0. PICK i : i = CHOOSE j \in PositionsOf(a, id) : TRUE
    OBVIOUS
  <2>1. /\ q > a[i].qty => b = Append(RemoveAt(a, i), [a[i] EXCEPT !.qty = q])
        /\ ~(q > a[i].qty) => b = [a EXCEPT ![i].qty = q]
    BY <1>3, <2>0 DEF ModifyOrder
  <2>2. i \in DOMAIN a /\ a[i].id = id
    <3>1. i \in PositionsOf(a, id)
      BY <1>3, <2>0
    <3> QED BY <3>1 DEF PositionsOf
  <2>4. /\ b \in Seq(EngineOrders) /\ Len(b) = Len(a)
        /\ \E g : Sets(b, a, g, i, q) /\ (q <= a[i].qty => InTurn(b, g))
    <3>1. CASE q > a[i].qty
      <4>1. ~(q <= a[i].qty)
        BY <1>1, <2>2, <3>1
      <4>2. b = Append(RemoveAt(a, i), [a[i] EXCEPT !.qty = q])
        BY <2>1, <3>1
      <4>3. PICK g : Sets(b, a, g, i, q)
        BY <2>2, <4>2, OneMoved
      <4>4. b \in Seq(EngineOrders) /\ Len(b) = Len(a)
        <5>1. b \in Seq(EngineOrders)
          BY <2>2, <4>2, OneMoved
        <5>2. Len(b) = Len(a)
          BY <2>2, <4>2, OneMoved
        <5> QED BY <5>1, <5>2
      <4> QED BY <4>1, <4>3, <4>4
    <3>2. CASE ~(q > a[i].qty)
      <4>1. b = [a EXCEPT ![i].qty = q]
        BY <2>1, <3>2
      <4>2. PICK g : Sets(b, a, g, i, q) /\ InTurn(b, g)
        BY <2>2, <4>1, OneChanged
      <4>3. b \in Seq(EngineOrders) /\ Len(b) = Len(a)
        BY <2>2, <4>1, OneChanged
      <4> QED BY <4>2, <4>3
    <3> QED BY <3>1, <3>2
  <2>5. PICK g : Sets(b, a, g, i, q) /\ (q <= a[i].qty => InTurn(b, g))
    BY <2>4
  <2>6. ASSUME NEW j \in DOMAIN b PROVE b[j].qty = IF b[j].id = id THEN q ELSE a[g[j]].qty
    <3>1. g[j] \in DOMAIN a /\ b[j].id = a[g[j]].id /\ b[j].qty = IF g[j] = i THEN q ELSE a[g[j]].qty
      BY <2>5 DEF Sets, Kept
    <3>2. g[j] = i <=> a[g[j]].id = id
      BY <2>2, <3>1 DEF Distinct
    <3> QED BY <3>1, <3>2
  <2>7. Resizes(b, a, g, id, q)
    BY <2>2, <2>5, <2>6 DEF Sets, Resizes
  <2> QED BY <2>4, <2>7
<1> QED BY <1>2, <1>3
----------------------------------------------------------------------------
(***************************************************************************)
(* The messages to the engine, and the snapshot.                           *)
(***************************************************************************)
\* A listing of S in ascending order.
AscendingList(s, S) ==
  s \in [1..Cardinality(S) -> S] /\ \A i, j \in DOMAIN s : i < j => s[i] < s[j]

\* Every finite set of numbers can be listed in ascending order.
LEMMA ListingExists ==
  ASSUME NEW S, S \subseteq Nat, IsFiniteSet(S)
  PROVE  \E s : AscendingList(s, S)
<1> DEFINE Good(T) == \E s : AscendingList(s, T)
           N == {n \in Nat : \A T \in SUBSET Nat : IsFiniteSet(T) /\ Cardinality(T) = n => Good(T)}
<1>1. 0 \in N
  <2>1. ASSUME NEW T \in SUBSET Nat, IsFiniteSet(T), Cardinality(T) = 0 PROVE Good(T)
    <3>1. AscendingList([i \in 1..0 |-> 0], T)
      BY <2>1 DEF AscendingList
    <3> QED BY <3>1
  <2> HIDE DEF Good
  <2> QED BY <2>1
<1>2. ASSUME NEW n \in Nat, n \in N PROVE n + 1 \in N
  <2>1. ASSUME NEW T \in SUBSET Nat, IsFiniteSet(T), Cardinality(T) = n + 1 PROVE Good(T)
    <3>1. T # {}
      BY <2>1, FS_EmptySet
    <3>2. PICK x \in T : \A y \in T : x <= y
      BY <3>1, LeastElement
    <3>3. PICK U : U = T \ {x}
      OBVIOUS
    <3>4. U \in SUBSET Nat /\ IsFiniteSet(U) /\ Cardinality(U) = n
      <4>1. IsFiniteSet(U) /\ Cardinality(U) = Cardinality(T) - 1
        BY <2>1, <3>2, <3>3, FS_RemoveElement
      <4>2. U \in SUBSET Nat
        BY <3>3
      <4> QED BY <2>1, <4>1, <4>2
    <3>5. PICK u : AscendingList(u, U)
      <4>1. Good(U)
        <5> HIDE DEF Good
        <5> QED BY <1>2, <3>4
      <4> QED BY <4>1
    <3> DEFINE s == [i \in 1..(n + 1) |-> IF i = 1 THEN x ELSE u[i - 1]]
    <3>6. u \in [1..n -> U] /\ \A i, j \in 1..n : i < j => u[i] < u[j]
      BY <3>4, <3>5 DEF AscendingList
    <3>7. ASSUME NEW i \in 2..(n + 1) PROVE i - 1 \in 1..n /\ s[i] = u[i - 1] /\ s[i] \in T /\ x < s[i]
      <4>1. i - 1 \in 1..n /\ s[i] = u[i - 1]
        OBVIOUS
      <4>2. u[i - 1] \in T /\ u[i - 1] # x
        BY <3>3, <3>6, <4>1
      <4>3. x <= u[i - 1] /\ x \in Nat /\ u[i - 1] \in Nat
        BY <3>2, <4>2
      <4> QED BY <4>1, <4>2, <4>3
    <3>8. 1 \in 1..(n + 1) /\ s[1] = x
      OBVIOUS
    <3>9. s \in [1..(n + 1) -> T]
      <4>1. ASSUME NEW i \in 1..(n + 1) PROVE s[i] \in T
        <5>1. i = 1 \/ i \in 2..(n + 1)
          OBVIOUS
        <5> HIDE DEF s
        <5> QED BY <3>2, <3>7, <3>8, <5>1
      <4> QED BY <4>1
    <3> HIDE DEF s
    <3>10. ASSUME NEW i \in 1..(n + 1), NEW j \in 1..(n + 1), i < j PROVE s[i] < s[j]
      <4>1. j \in 2..(n + 1) /\ (i = 1 \/ i \in 2..(n + 1))
        BY <3>10
      <4>2. CASE i = 1
        BY <3>7, <3>8, <4>1, <4>2
      <4>3. CASE i \in 2..(n + 1)
        <5>1. i - 1 < j - 1
          BY <3>10
        <5> QED BY <3>6, <3>7, <4>1, <4>3, <5>1
      <4> QED BY <4>1, <4>2, <4>3
    <3>11. AscendingList(s, T)
      BY <2>1, <3>9, <3>10 DEF AscendingList
    <3> QED BY <3>11
  <2> HIDE DEF Good
  <2> QED BY <2>1
<1> HIDE DEF N
<1>3. Cardinality(S) \in N
  BY <1>1, <1>2, Induction, FS_CardinalityType
<1> QED BY <1>3 DEF N

\* An ascending listing misses nothing.
LEMMA ListingComplete ==
  ASSUME NEW S, S \subseteq Nat, IsFiniteSet(S), NEW s, AscendingList(s, S)
  PROVE  \A x \in S : \E i \in DOMAIN s : s[i] = x
<1> DEFINE n == Cardinality(S)
<1>1. n \in Nat
  BY FS_CardinalityType
<1>2. IsFiniteSet(1..n) /\ Cardinality(1..n) = n
  BY <1>1, FS_Interval
<1>3. s \in [1..n -> S] /\ \A i, j \in 1..n : i < j => s[i] < s[j]
  BY DEF AscendingList
<1> HIDE DEF n
<1>4. \A i, j \in 1..n : s[i] = s[j] => i = j
  <2>1. ASSUME NEW i \in 1..n, NEW j \in 1..n, s[i] = s[j] PROVE i = j
    <3>1. s[i] \in Nat /\ s[j] \in Nat
      BY <1>3
    <3>2. ~(i < j) /\ ~(j < i)
      BY <1>3, <2>1, <3>1
    <3> QED BY <1>1, <3>2
  <2> QED BY <2>1
<1>5. s \in Injection(1..n, S)
  BY <1>3, <1>4 DEF Injection, IsInjective
<1>6. s \in Surjection(1..n, S)
  BY <1>2, <1>5, FS_Injection DEF n
<1> QED BY <1>3, <1>6 DEF Surjection

\* A message to the engine; only a cancel has no quantity.
MessageTypes == {"NewOrder", "CancelOrder", "ModifyOrder"}
Messages == {m \in [msg_type: MessageTypes, order_id: Nat, price: Nat, qty: Nat, side: BookSides] :
               m.msg_type # "CancelOrder" => m.qty > 0}

\* What make() makes of a known order.
Told(m, type, id, o) ==
  /\ m.msg_type = type /\ m.order_id = id
  /\ m.side = EngineSide(o.side) /\ m.price = o.price * 100 /\ m.qty = IF type = "CancelOrder" THEN 0 ELSE o.qty

\* make() as the trail sees it.
LEMMA MakeTold ==
  ASSUME NEW type \in MessageTypes, NEW id \in Nat, NEW o \in Known,
         NEW q, q = IF type = "CancelOrder" THEN 0 ELSE o.qty
  PROVE  /\ Make(type, id, o.price, q, o.side) \in Messages
         /\ Told(Make(type, id, o.price, q, o.side), type, id, o)
<1>1. o.price \in Nat /\ o.price * 100 \in Nat /\ o.qty \in Nat /\ o.qty > 0
  <2>1. o.price \in Prices /\ o.qty \in Nat \ {0}
    BY DEF Known
  <2>2. o.price \in Nat
    BY <2>1, Itch50Assumption
  <2> QED BY <2>1, <2>2
<1>2. q \in Nat /\ (type # "CancelOrder" => q > 0)
  BY <1>1
<1>3. EngineSide(o.side) \in BookSides
  BY DEF EngineSide, BookSides
<1> QED BY <1>1, <1>2, <1>3 DEF Make, Messages, Told

\* The messages of a snapshot of t.
Lists(ms, t) ==
  /\ \A i \in DOMAIN ms : ms[i].order_id \in DOMAIN t /\ Told(ms[i], "NewOrder", ms[i].order_id, t[ms[i].order_id])
  /\ \A i, j \in DOMAIN ms : i < j => ms[i].order_id < ms[j].order_id
  /\ \A r \in DOMAIN t : \E i \in DOMAIN ms : ms[i].order_id = r

\* snapshot() lists every order once, by ascending reference.
LEMMA SnapshotLists ==
  ASSUME NEW t, NEW n \in Nat, Below(t, n), NEW ms, ms = Snapshot(t)
  PROVE  ms \in Seq(Messages) /\ Lists(ms, t)
<1> DEFINE S == DOMAIN t
<1>1. S \subseteq Nat /\ IsFiniteSet(S)
  <2>1. S \subseteq 0..n
    BY DEF Below
  <2>2. IsFiniteSet(0..n)
    BY FS_Interval
  <2> QED BY <2>1, <2>2, FS_Subset
<1>2. PICK s : s = CHOOSE refs \in Listings(t) : \A i, j \in DOMAIN refs : i < j => refs[i] < refs[j]
  OBVIOUS
<1>3. AscendingList(s, S)
  <2>1. PICK u : AscendingList(u, S)
    BY <1>1, ListingExists
  <2>2. u \in Listings(t) /\ \A i, j \in DOMAIN u : i < j => u[i] < u[j]
    BY <2>1 DEF AscendingList, Listings
  <2>3. s \in Listings(t) /\ \A i, j \in DOMAIN s : i < j => s[i] < s[j]
    BY <1>2, <2>2
  <2> QED BY <2>3 DEF AscendingList, Listings
<1>4. \A x \in S : \E i \in DOMAIN s : s[i] = x
  BY <1>1, <1>3, ListingComplete
<1>5. PICK c \in Nat : c = Cardinality(S)
  BY <1>1, FS_CardinalityType
<1>6. s \in [1..c -> S] /\ \A i, j \in 1..c : i < j => s[i] < s[j]
  BY <1>3, <1>5 DEF AscendingList
<1>7. ms = [i \in 1..c |-> Make("NewOrder", s[i], t[s[i]].price, t[s[i]].qty, t[s[i]].side)]
  BY <1>2, <1>6 DEF Snapshot, NewOrders
<1>8. ASSUME NEW i \in 1..c PROVE ms[i] \in Messages /\ Told(ms[i], "NewOrder", s[i], t[s[i]])
  <2>1. PICK o : o = t[s[i]]
    OBVIOUS
  <2>2. o \in Known /\ s[i] \in Nat
    BY <1>1, <1>6, <2>1 DEF Below
  <2>3. ms[i] = Make("NewOrder", s[i], o.price, o.qty, o.side)
    BY <1>7, <2>1
  <2> QED BY <2>1, <2>2, <2>3, MakeTold DEF MessageTypes
<1>9. DOMAIN ms = 1..c /\ ms \in [1..c -> Messages]
  BY <1>7, <1>8
<1>10. \A i \in 1..c : ms[i].order_id = s[i]
  BY <1>8 DEF Told
<1>11. ms \in Seq(Messages)
  BY <1>9, SeqDef
<1>12. Lists(ms, t)
  BY <1>4, <1>6, <1>8, <1>9, <1>10 DEF Lists
<1> QED BY <1>11, <1>12
----------------------------------------------------------------------------
(***************************************************************************)
(* The trail: the orders that rest in the engine's book, the one it has in *)
(* hand and the messages that are under way to it, as one sequence of      *)
(* messages.  Sending a message, taking it and resting it leave the trail  *)
(* alone; the feed appends to it, and the engine thins it out.             *)
(***************************************************************************)
\* What a trail is made of: messages, and orders as messages.
Items == [msg_type: MessageTypes, order_id: Nat, price: Nat, qty: Nat, side: BookSides]

\* The kinds of items.
IsNew(T, i) == T[i].msg_type = "NewOrder"
Amends(T, i, id) == T[i].msg_type # "NewOrder" /\ T[i].order_id = id
Cancels(T, i, id) == T[i].msg_type = "CancelOrder" /\ T[i].order_id = id
Resizing(T, i, id) == T[i].msg_type = "ModifyOrder" /\ T[i].order_id = id

\* A new order or a new quantity.
Sizes(T, i) == T[i].msg_type # "CancelOrder"

\* Something behind the item is about its order; or cancels it.
LaterAmended(T, i) == \E l \in DOMAIN T : l > i /\ Amends(T, l, T[i].order_id)
LaterCancelled(T, i) == \E l \in DOMAIN T : l > i /\ Cancels(T, l, T[i].order_id)

\* No id twice, and none that the feed has not given out.
Ids(T, n) ==
  /\ \A i, j \in DOMAIN T : IsNew(T, i) /\ IsNew(T, j) /\ T[i].order_id = T[j].order_id => i = j
  /\ \A i \in DOMAIN T : T[i].order_id < n

\* An order that the feed still shows has its side and price.
Sided(T, O) ==
  \A i \in DOMAIN T : IsNew(T, i) /\ T[i].order_id \in DOMAIN O =>
    /\ T[i].side = EngineSide(O[T[i].order_id].side)
    /\ T[i].price = O[T[i].order_id].price * 100

\* What will not be amended is in the feed, and no larger than there.
Current(T, O) ==
  \A i \in DOMAIN T : Sizes(T, i) =>
    LaterAmended(T, i) \/ (T[i].order_id \in DOMAIN O /\ T[i].qty <= O[T[i].order_id].qty)

\* An order that the feed has deleted will be cancelled, and only such an order.
Alive(T, O) ==
  \A i \in DOMAIN T : IsNew(T, i) => T[i].order_id \in DOMAIN O \/ LaterCancelled(T, i)
Gone(T, O) == \A i \in DOMAIN T : T[i].msg_type = "CancelOrder" => T[i].order_id \notin DOMAIN O

\* What holds through executions and refusals.
Faithful(T, O, n) ==
  Ids(T, n) /\ Sided(T, O) /\ Current(T, O) /\ Alive(T, O) /\ Gone(T, O)

\* The same while the book has never been crossed: no execution has taken
\* anything, so orders are in the order of their references ...
InSequence(T) ==
  \A i, j \in DOMAIN T : IsNew(T, i) /\ IsNew(T, j) /\ i < j => T[i].order_id < T[j].order_id

\* ... quantities are the feed's ...
Precise(T, O) ==
  \A i \in DOMAIN T : Sizes(T, i) =>
    LaterAmended(T, i) \/ (T[i].order_id \in DOMAIN O /\ T[i].qty = O[T[i].order_id].qty)

\* ... and only shrink on the way (an increase would lose the place in the queue) ...
Shrinking(T, O) ==
  \A i \in DOMAIN T : Sizes(T, i) =>
    /\ T[i].qty > 0
    /\ T[i].order_id \in DOMAIN O => O[T[i].order_id].qty <= T[i].qty
    /\ \A l \in DOMAIN T : l > i /\ Resizing(T, l, T[i].order_id) => T[l].qty <= T[i].qty

\* ... and of two orders that would match, the first is cancelled before the second.
Meet(x, y) == x.side = Other(y.side) /\ AsGood(y.side, y.price, x.price)
Apart(T) ==
  \A i, j \in DOMAIN T :
    IsNew(T, i) /\ IsNew(T, j) /\ i < j /\ Meet(T[i], T[j]) =>
      \E l \in DOMAIN T : i < l /\ l < j /\ Cancels(T, l, T[i].order_id)

\* What holds as long as the book was never crossed.
Exact(T, O) == InSequence(T) /\ Precise(T, O) /\ Shrinking(T, O) /\ Apart(T)

\* Every order of the feed is on the trail.
Tells(T, O) == \A id \in DOMAIN O : \E i \in DOMAIN T : IsNew(T, i) /\ T[i].order_id = id

\* An item of a trail.
LEMMA ItemTypes ==
  ASSUME NEW T \in Seq(Items)
  PROVE  /\ Len(T) \in Nat /\ DOMAIN T = 1..Len(T)
         /\ \A i \in DOMAIN T : /\ T[i].msg_type \in MessageTypes /\ T[i].order_id \in Nat
                                /\ T[i].price \in Nat /\ T[i].qty \in Nat /\ T[i].side \in BookSides
<1>1. Len(T) \in Nat /\ DOMAIN T = 1..Len(T)
  BY LenProperties
<1>2. \A i \in DOMAIN T : T[i] \in Items
  BY <1>1, ElementOfSeq
<1> QED BY <1>1, <1>2 DEF Items

\* Nothing is said of an empty trail.
LEMMA EmptyTrail ==
  ASSUME NEW O, NEW n
  PROVE  Faithful(<<>>, O, n) /\ Exact(<<>>, O)
<1>1. DOMAIN <<>> = {}
  BY EmptySeq, LenProperties
<1> QED BY <1>1 DEF Faithful, Ids, Sided, Current, Alive, Gone, Exact, InSequence, Precise, Shrinking, Apart
----------------------------------------------------------------------------
(***************************************************************************)
(* The feed appends to the trail.                                          *)
(***************************************************************************)
\* Trail v is trail u and then m.
Appended(v, u, m) ==
  /\ DOMAIN v = 1..(Len(u) + 1) /\ v[Len(u) + 1] = m
  /\ \A i \in DOMAIN u : i \in DOMAIN v /\ i < Len(u) + 1 /\ v[i] = u[i]
  /\ \A i \in DOMAIN v : i \in DOMAIN u \/ i = Len(u) + 1

\* Append() does that.
LEMMA AppendedTrail ==
  ASSUME NEW u \in Seq(Items), NEW m \in Items, NEW v, v = Append(u, m)
  PROVE  v \in Seq(Items) /\ Appended(v, u, m)
<1>1. Len(u) \in Nat /\ DOMAIN u = 1..Len(u)
  BY LenProperties
<1>2. /\ Append(u, m) \in Seq(Items) /\ Len(Append(u, m)) = Len(u) + 1
      /\ \A j \in 1..Len(u) : Append(u, m)[j] = u[j]
      /\ Append(u, m)[Len(u) + 1] = m
  BY AppendProperties
<1>3. /\ v \in Seq(Items) /\ Len(v) = Len(u) + 1
      /\ \A j \in 1..Len(u) : v[j] = u[j]
      /\ v[Len(u) + 1] = m
  BY <1>2, Zenon
<1>4. DOMAIN v = 1..(Len(u) + 1)
  BY <1>3, LenProperties
<1> QED BY <1>1, <1>3, <1>4 DEF Appended

\* What stays amended or cancelled, and what is by the new message.
LEMMA LaterKept ==
  ASSUME NEW u \in Seq(Items), NEW v, NEW m, Appended(v, u, m), NEW i \in DOMAIN u
  PROVE  /\ LaterAmended(u, i) => LaterAmended(v, i)
         /\ LaterCancelled(u, i) => LaterCancelled(v, i)
         /\ m.order_id = u[i].order_id /\ m.msg_type # "NewOrder" => LaterAmended(v, i)
         /\ m.order_id = u[i].order_id /\ m.msg_type = "CancelOrder" => LaterCancelled(v, i)
<1>1. Len(u) \in Nat /\ DOMAIN u = 1..Len(u)
  BY LenProperties
<1>2. Len(u) + 1 \in DOMAIN v /\ Len(u) + 1 > i
  BY <1>1 DEF Appended
<1> QED BY <1>2 DEF Appended, LaterAmended, LaterCancelled, Amends, Cancels

\* The book of the feed is not crossed.
NotCrossed(O) ==
  \A r, q \in DOMAIN O : O[r].side = "B" /\ O[q].side = "S" => O[r].price < O[q].price

\* A new order, under the next reference.
AddTo(O2, O, n, o) ==
  DOMAIN O2 = DOMAIN O \cup {n} /\ O2[n] = o /\ \A r \in DOMAIN O : O2[r] = O[r]

\* on_add(): the trail stays faithful, and tells of the new order too.
LEMMA AddFaithful ==
  ASSUME NEW O, NEW n \in Nat, Below(O, n), NEW o \in Known, NEW O2, AddTo(O2, O, n, o),
         NEW u \in Seq(Items), Faithful(u, O, n), NEW m \in Items, Told(m, "NewOrder", n, o),
         NEW v, Appended(v, u, m)
  PROVE  Faithful(v, O2, n + 1) /\ (Tells(u, O) => Tells(v, O2))
<1>1. /\ Len(u) \in Nat /\ DOMAIN u = 1..Len(u)
      /\ \A i \in DOMAIN u : u[i].order_id \in Nat /\ u[i].qty \in Nat
  BY ItemTypes
<1> DEFINE z == Len(u) + 1
<1>2. /\ z \in DOMAIN v /\ v[z] = m
      /\ \A i \in DOMAIN u : i \in DOMAIN v /\ i < z /\ v[i] = u[i] 
      /\ \A i \in DOMAIN v : i \in DOMAIN u \/ i = z
  BY <1>1 DEF Appended
<1>3. m.msg_type = "NewOrder" /\ m.order_id = n /\ m.side = EngineSide(o.side) /\ m.price = o.price * 100
         /\ m.qty = o.qty
  BY DEF Told
<1>4. \A r \in DOMAIN O : r \in Nat /\ r < n /\ r \in DOMAIN O2 /\ O2[r] = O[r]
  BY DEF Below, AddTo
<1>5. n \in DOMAIN O2 /\ O2[n] = o /\ o.qty \in Nat /\ \A r \in DOMAIN O2 : r \in DOMAIN O \/ r = n
  BY DEF AddTo, Known
<1> HIDE DEF z
<1>6. \A i \in DOMAIN u : u[i].order_id < n
  BY DEF Faithful, Ids
<1>7. \A i \in DOMAIN u : u[i].order_id \in DOMAIN O2 => u[i].order_id \in DOMAIN O
  BY <1>1, <1>5, <1>6
<1>8. Ids(v, n + 1)
  <2>1. ASSUME NEW i \in DOMAIN v, NEW j \in DOMAIN v, IsNew(v, i), IsNew(v, j), v[i].order_id = v[j].order_id
        PROVE i = j
    <3>1. (i \in DOMAIN u \/ i = z) /\ (j \in DOMAIN u \/ j = z)
      BY <1>2
    <3>2. CASE i \in DOMAIN u /\ j \in DOMAIN u
      BY <1>2, <2>1, <3>2 DEF Faithful, Ids, IsNew
    <3>3. CASE i \in DOMAIN u /\ j = z
      BY <1>1, <1>2, <1>3, <1>6, <2>1, <3>3
    <3>4. CASE i = z /\ j \in DOMAIN u
      BY <1>1, <1>2, <1>3, <1>6, <2>1, <3>4
    <3> QED BY <3>1, <3>2, <3>3, <3>4
  <2>2. ASSUME NEW i \in DOMAIN v PROVE v[i].order_id < n + 1
    BY <1>1, <1>2, <1>3, <1>6
  <2> QED BY <2>1, <2>2 DEF Ids
<1>9. Sided(v, O2)
  <2>1. ASSUME NEW i \in DOMAIN v, IsNew(v, i), v[i].order_id \in DOMAIN O2
        PROVE  v[i].side = EngineSide(O2[v[i].order_id].side) /\ v[i].price = O2[v[i].order_id].price * 100
    <3>1. CASE i \in DOMAIN u
      <4>1. v[i] = u[i] /\ IsNew(u, i) /\ u[i].order_id \in DOMAIN O
        BY <1>2, <1>7, <2>1, <3>1 DEF IsNew
      <4>2. u[i].side = EngineSide(O[u[i].order_id].side) /\ u[i].price = O[u[i].order_id].price * 100
        BY <3>1, <4>1 DEF Faithful, Sided
      <4> QED BY <1>4, <4>1, <4>2
    <3>2. CASE i = z
      BY <1>2, <1>3, <1>5, <3>2
    <3> QED BY <1>2, <3>1, <3>2
  <2> QED BY <2>1 DEF Sided
<1>10. Current(v, O2)
  <2>1. ASSUME NEW i \in DOMAIN v, Sizes(v, i)
        PROVE  LaterAmended(v, i) \/ (v[i].order_id \in DOMAIN O2 /\ v[i].qty <= O2[v[i].order_id].qty)
    <3>1. CASE i \in DOMAIN u
      <4>1. v[i] = u[i] /\ Sizes(u, i)
        BY <1>2, <2>1, <3>1 DEF Sizes
      <4>2. LaterAmended(u, i) \/ (u[i].order_id \in DOMAIN O /\ u[i].qty <= O[u[i].order_id].qty)
        BY <3>1, <4>1 DEF Faithful, Current
      <4> QED BY <1>4, <3>1, <4>1, <4>2, LaterKept
    <3>2. CASE i = z
      BY <1>2, <1>3, <1>5, <3>2
    <3> QED BY <1>2, <3>1, <3>2
  <2> QED BY <2>1 DEF Current
<1>11. Alive(v, O2)
  <2>1. ASSUME NEW i \in DOMAIN v, IsNew(v, i) PROVE v[i].order_id \in DOMAIN O2 \/ LaterCancelled(v, i)
    <3>1. CASE i \in DOMAIN u
      <4>1. v[i] = u[i] /\ IsNew(u, i)
        BY <1>2, <2>1, <3>1 DEF IsNew
      <4>2. u[i].order_id \in DOMAIN O \/ LaterCancelled(u, i)
        BY <3>1, <4>1 DEF Faithful, Alive
      <4> QED BY <1>4, <3>1, <4>1, <4>2, LaterKept
    <3>2. CASE i = z
      BY <1>2, <1>3, <1>5, <3>2
    <3> QED BY <1>2, <3>1, <3>2
  <2> QED BY <2>1 DEF Alive
<1>12. Gone(v, O2)
  <2>1. ASSUME NEW i \in DOMAIN v, v[i].msg_type = "CancelOrder" PROVE v[i].order_id \notin DOMAIN O2
    <3>1. i \in DOMAIN u /\ v[i] = u[i]
      BY <1>2, <1>3, <2>1
    <3>2. u[i].order_id \notin DOMAIN O
      BY <2>1, <3>1 DEF Faithful, Gone
    <3> QED BY <1>7, <3>1, <3>2
  <2> QED BY <2>1 DEF Gone
<1>13. ASSUME Tells(u, O) PROVE Tells(v, O2)
  <2>1. ASSUME NEW id \in DOMAIN O2 PROVE \E i \in DOMAIN v : IsNew(v, i) /\ v[i].order_id = id
    <3>1. CASE id \in DOMAIN O
      BY <1>2, <1>13, <3>1 DEF Tells, IsNew
    <3>2. CASE id = n
      BY <1>2, <1>3, <3>2 DEF IsNew
    <3> QED BY <1>5, <3>1, <3>2
  <2> QED BY <2>1 DEF Tells
<1> QED BY <1>8, <1>9, <1>10, <1>11, <1>12, <1>13 DEF Faithful

\* on_add() on a book that is not crossed by it: the trail stays exact.
LEMMA AddExact ==
  ASSUME NEW O, NEW n \in Nat, Below(O, n), NEW o \in Known, NEW O2, AddTo(O2, O, n, o), NotCrossed(O2),
         NEW u \in Seq(Items), Faithful(u, O, n), Exact(u, O), NEW m \in Items, Told(m, "NewOrder", n, o),
         NEW v, Appended(v, u, m)
  PROVE  Exact(v, O2)
<1>1. /\ Len(u) \in Nat /\ DOMAIN u = 1..Len(u)
      /\ \A i \in DOMAIN u : u[i].order_id \in Nat /\ u[i].qty \in Nat /\ u[i].side \in BookSides /\ u[i].price \in Nat
  BY ItemTypes
<1> DEFINE z == Len(u) + 1
<1>2. /\ z \in DOMAIN v /\ v[z] = m /\ z \notin DOMAIN u
      /\ \A i \in DOMAIN u : i \in DOMAIN v /\ i < z /\ v[i] = u[i] 
      /\ \A i \in DOMAIN v : i \in DOMAIN u \/ i = z
      /\ \A i \in DOMAIN v : i \in Nat /\ i <= z
      /\ z \in Nat
  BY <1>1 DEF Appended
<1>3. m.msg_type = "NewOrder" /\ m.order_id = n /\ m.side = EngineSide(o.side) /\ m.price = o.price * 100
         /\ m.qty = o.qty
  BY DEF Told
<1>4. \A r \in DOMAIN O : r \in Nat /\ r < n /\ r \in DOMAIN O2 /\ O2[r] = O[r] /\ O[r] \in Known
  BY DEF Below, AddTo
<1>5. n \in DOMAIN O2 /\ O2[n] = o /\ o.qty \in Nat /\ o.qty > 0 /\ \A r \in DOMAIN O2 : r \in DOMAIN O \/ r = n
  BY DEF AddTo, Known
<1> HIDE DEF z
<1>6. \A i \in DOMAIN u : u[i].order_id < n
  BY DEF Faithful, Ids
<1>7. \A i \in DOMAIN u : u[i].order_id \in DOMAIN O2 => u[i].order_id \in DOMAIN O
  BY <1>1, <1>5, <1>6
<1>8. InSequence(v)
  <2>1. ASSUME NEW i \in DOMAIN v, NEW j \in DOMAIN v, IsNew(v, i), IsNew(v, j), i < j
        PROVE v[i].order_id < v[j].order_id
    <3>1. i \in DOMAIN u
      BY <1>2, <2>1
    <3>2. CASE j \in DOMAIN u
      BY <1>2, <2>1, <3>1, <3>2 DEF Exact, InSequence, IsNew
    <3>3. CASE j = z
      BY <1>2, <1>3, <1>6, <3>1, <3>3
    <3> QED BY <1>2, <3>2, <3>3
  <2> QED BY <2>1 DEF InSequence
<1>9. Precise(v, O2)
  <2>1. ASSUME NEW i \in DOMAIN v, Sizes(v, i)
        PROVE  LaterAmended(v, i) \/ (v[i].order_id \in DOMAIN O2 /\ v[i].qty = O2[v[i].order_id].qty)
    <3>1. CASE i \in DOMAIN u
      <4>1. v[i] = u[i] /\ Sizes(u, i)
        BY <1>2, <2>1, <3>1 DEF Sizes
      <4>2. LaterAmended(u, i) \/ (u[i].order_id \in DOMAIN O /\ u[i].qty = O[u[i].order_id].qty)
        BY <3>1, <4>1 DEF Exact, Precise
      <4> QED BY <1>4, <3>1, <4>1, <4>2, LaterKept
    <3>2. CASE i = z
      BY <1>2, <1>3, <1>5, <3>2
    <3> QED BY <1>2, <3>1, <3>2
  <2> QED BY <2>1 DEF Precise
<1>10. Shrinking(v, O2)
  <2>1. ASSUME NEW i \in DOMAIN v, Sizes(v, i)
        PROVE  /\ v[i].qty > 0
               /\ v[i].order_id \in DOMAIN O2 => O2[v[i].order_id].qty <= v[i].qty
               /\ \A l \in DOMAIN v : l > i /\ Resizing(v, l, v[i].order_id) => v[l].qty <= v[i].qty
    <3>1. CASE i \in DOMAIN u
      <4>1. v[i] = u[i] /\ Sizes(u, i)
        BY <1>2, <2>1, <3>1 DEF Sizes
      <4>2. /\ u[i].qty > 0
            /\ u[i].order_id \in DOMAIN O => O[u[i].order_id].qty <= u[i].qty
            /\ \A l \in DOMAIN u : l > i /\ Resizing(u, l, u[i].order_id) => u[l].qty <= u[i].qty
        BY <3>1, <4>1 DEF Exact, Shrinking
      <4>3. ASSUME NEW l \in DOMAIN v, l > i, Resizing(v, l, v[i].order_id) PROVE v[l].qty <= v[i].qty
        <5>1. l \in DOMAIN u /\ v[l] = u[l]
          BY <1>2, <1>3, <4>3 DEF Resizing
        <5> QED BY <4>1, <4>2, <4>3, <5>1 DEF Resizing
      <4> QED BY <1>4, <1>7, <3>1, <4>1, <4>2, <4>3
    <3>2. CASE i = z
      <4>1. \A l \in DOMAIN v : ~(l > i)
        BY <1>2, <3>2
      <4> QED BY <1>2, <1>3, <1>5, <3>2, <4>1
    <3> QED BY <1>2, <3>1, <3>2
  <2> QED BY <2>1 DEF Shrinking
<1>11. Apart(v)
  <2>1. ASSUME NEW i \in DOMAIN v, NEW j \in DOMAIN v, IsNew(v, i), IsNew(v, j), i < j, Meet(v[i], v[j])
        PROVE  \E l \in DOMAIN v : i < l /\ l < j /\ Cancels(v, l, v[i].order_id)
    <3>1. i \in DOMAIN u /\ v[i] = u[i] /\ IsNew(u, i)
      BY <1>2, <2>1 DEF IsNew
    <3>2. CASE j \in DOMAIN u
      <4>1. IsNew(u, j) /\ Meet(u[i], u[j])
        BY <1>2, <2>1, <3>1, <3>2 DEF IsNew
      <4>2. PICK l \in DOMAIN u : i < l /\ l < j /\ Cancels(u, l, u[i].order_id)
        BY <2>1, <3>1, <3>2, <4>1 DEF Exact, Apart
      <4> QED BY <1>2, <3>1, <4>2 DEF Cancels
    <3>3. CASE j = z
      <4>1. u[i].order_id \notin DOMAIN O
        <5>1. SUFFICES ASSUME u[i].order_id \in DOMAIN O PROVE FALSE
          OBVIOUS
        <5>2. PICK x : x = u[i].order_id
          OBVIOUS
        <5>3. x \in DOMAIN O2 /\ O2[x] = O[x] /\ O[x] \in Known /\ x \in DOMAIN O
          BY <1>4, <5>1, <5>2
        <5>4. u[i].side = EngineSide(O[x].side) /\ u[i].price = O[x].price * 100
          BY <3>1, <5>1, <5>2 DEF Faithful, Sided
        <5>5. Meet(u[i], m)
          BY <1>2, <2>1, <3>1, <3>3
        <5>6. O[x].side \in ItchSides /\ o.side \in ItchSides /\ O[x].price \in Nat /\ o.price \in Nat
          <6>1. O[x].side \in ItchSides /\ o.side \in ItchSides /\ O[x].price \in Prices /\ o.price \in Prices
            BY <5>3 DEF Known
          <6> QED BY <6>1, Itch50Assumption
        <5>7. \/ O[x].side = "B" /\ o.side = "S" /\ o.price <= O[x].price
              \/ O[x].side = "S" /\ o.side = "B" /\ O[x].price <= o.price
          BY <1>3, <5>4, <5>5, <5>6 DEF Meet, Other, AsGood, EngineSide, ItchSides
        <5>8. CASE O[x].side = "B" /\ o.side = "S" /\ o.price <= O[x].price
          BY <1>5, <5>3, <5>6, <5>8 DEF NotCrossed
        <5>9. CASE O[x].side = "S" /\ o.side = "B" /\ O[x].price <= o.price
          BY <1>5, <5>3, <5>6, <5>9 DEF NotCrossed
        <5> QED BY <5>7, <5>8, <5>9
      <4>2. PICK l \in DOMAIN u : l > i /\ Cancels(u, l, u[i].order_id)
        BY <3>1, <4>1 DEF Faithful, Alive, LaterCancelled
      <4>3. l \in DOMAIN v /\ i < l /\ l < j /\ Cancels(v, l, v[i].order_id)
        BY <1>1, <1>2, <3>1, <3>3, <4>2 DEF Cancels
      <4> QED BY <4>3
    <3> QED BY <1>2, <3>2, <3>3
  <2> QED BY <2>1 DEF Apart
<1> QED BY <1>8, <1>9, <1>10, <1>11 DEF Exact
----------------------------------------------------------------------------
(***************************************************************************)
(* Cancels and modifies that the feed appends.                             *)
(***************************************************************************)
\* An order is deleted.
DropFrom(O2, O, key) ==
  key \in DOMAIN O /\ DOMAIN O2 = DOMAIN O \ {key} /\ \A r \in DOMAIN O2 : O2[r] = O[r]

\* The cancel that the translator sends when an order is gone.
LEMMA CancelKeeps ==
  ASSUME NEW O, NEW n \in Nat, Below(O, n), NEW key, NEW O2, DropFrom(O2, O, key),
         NEW u \in Seq(Items), Faithful(u, O, n), NEW m \in Items, Told(m, "CancelOrder", key, O[key]),
         NEW v, Appended(v, u, m)
  PROVE  Faithful(v, O2, n) /\ (Exact(u, O) => Exact(v, O2)) /\ (Tells(u, O) => Tells(v, O2))
<1>1. /\ Len(u) \in Nat /\ DOMAIN u = 1..Len(u)
      /\ \A i \in DOMAIN u : u[i].order_id \in Nat /\ u[i].qty \in Nat
  BY ItemTypes
<1> DEFINE z == Len(u) + 1
<1>2. /\ z \in DOMAIN v /\ v[z] = m /\ z \in Nat
      /\ \A i \in DOMAIN u : i \in DOMAIN v /\ i < z /\ v[i] = u[i]
      /\ \A i \in DOMAIN v : (i \in DOMAIN u \/ i = z) /\ i \in Nat /\ i <= z
  BY <1>1 DEF Appended
<1>3. m.msg_type = "CancelOrder" /\ m.order_id = key /\ key \in DOMAIN O /\ key < n
  BY DEF Told, DropFrom, Below
<1>4. \A r \in DOMAIN O2 : r \in DOMAIN O /\ O2[r] = O[r]
  BY DEF DropFrom
<1>5. key \notin DOMAIN O2 /\ \A r \in DOMAIN O : r \in DOMAIN O2 \/ r = key
  BY DEF DropFrom
<1> HIDE DEF z
<1>6. ASSUME NEW i \in DOMAIN v, v[i].msg_type # "CancelOrder" PROVE i \in DOMAIN u /\ v[i] = u[i]
  BY <1>2, <1>3, <1>6
<1>7. ASSUME NEW i \in DOMAIN u
      PROVE  /\ LaterAmended(u, i) => LaterAmended(v, i)
             /\ LaterCancelled(u, i) => LaterCancelled(v, i)
             /\ u[i].order_id = key => LaterAmended(v, i) /\ LaterCancelled(v, i)
  <2>1. m.msg_type # "NewOrder"
    BY <1>3
  <2> QED BY <1>3, <2>1, LaterKept
<1>8. Ids(v, n)
  <2>1. ASSUME NEW i \in DOMAIN v, NEW j \in DOMAIN v, IsNew(v, i), IsNew(v, j), v[i].order_id = v[j].order_id
        PROVE i = j
    BY <1>6, <2>1 DEF Faithful, Ids, IsNew
  <2>2. ASSUME NEW i \in DOMAIN v PROVE v[i].order_id < n
    BY <1>2, <1>3 DEF Faithful, Ids
  <2> QED BY <2>1, <2>2 DEF Ids
<1>9. Sided(v, O2)
  <2>1. ASSUME NEW i \in DOMAIN v, IsNew(v, i), v[i].order_id \in DOMAIN O2
        PROVE  v[i].side = EngineSide(O2[v[i].order_id].side) /\ v[i].price = O2[v[i].order_id].price * 100
    <3>1. i \in DOMAIN u /\ v[i] = u[i] /\ IsNew(u, i) /\ u[i].order_id \in DOMAIN O
      BY <1>4, <1>6, <2>1 DEF IsNew
    <3>2. u[i].side = EngineSide(O[u[i].order_id].side) /\ u[i].price = O[u[i].order_id].price * 100
      BY <3>1 DEF Faithful, Sided
    <3> QED BY <1>4, <2>1, <3>1, <3>2
  <2> QED BY <2>1 DEF Sided
<1>10. Current(v, O2)
  <2>1. ASSUME NEW i \in DOMAIN v, Sizes(v, i)
        PROVE  LaterAmended(v, i) \/ (v[i].order_id \in DOMAIN O2 /\ v[i].qty <= O2[v[i].order_id].qty)
    <3>1. i \in DOMAIN u /\ v[i] = u[i] /\ Sizes(u, i)
      BY <1>6, <2>1 DEF Sizes
    <3>2. LaterAmended(u, i) \/ (u[i].order_id \in DOMAIN O /\ u[i].qty <= O[u[i].order_id].qty)
      BY <3>1 DEF Faithful, Current
    <3> QED BY <1>4, <1>5, <1>7, <3>1, <3>2
  <2> QED BY <2>1 DEF Current
<1>11. Alive(v, O2)
  <2>1. ASSUME NEW i \in DOMAIN v, IsNew(v, i) PROVE v[i].order_id \in DOMAIN O2 \/ LaterCancelled(v, i)
    <3>1. i \in DOMAIN u /\ v[i] = u[i] /\ IsNew(u, i)
      BY <1>6, <2>1 DEF IsNew
    <3>2. u[i].order_id \in DOMAIN O \/ LaterCancelled(u, i)
      BY <3>1 DEF Faithful, Alive
    <3> QED BY <1>5, <1>7, <3>1, <3>2
  <2> QED BY <2>1 DEF Alive
<1>12. Gone(v, O2)
  <2>1. ASSUME NEW i \in DOMAIN v, v[i].msg_type = "CancelOrder" PROVE v[i].order_id \notin DOMAIN O2
    <3>1. CASE i \in DOMAIN u
      BY <1>2, <1>4, <2>1, <3>1 DEF Faithful, Gone
    <3>2. CASE i = z
      BY <1>2, <1>3, <1>5, <3>2
    <3> QED BY <1>2, <3>1, <3>2
  <2> QED BY <2>1 DEF Gone
<1>13. ASSUME Tells(u, O) PROVE Tells(v, O2)
  BY <1>2, <1>4, <1>13 DEF Tells, IsNew
<1>14. ASSUME Exact(u, O) PROVE Exact(v, O2)
  <2>1. InSequence(v)
    <3>1. ASSUME NEW i \in DOMAIN v, NEW j \in DOMAIN v, IsNew(v, i), IsNew(v, j), i < j
          PROVE v[i].order_id < v[j].order_id
      BY <1>6, <1>14, <3>1 DEF Exact, InSequence, IsNew
    <3> QED BY <3>1 DEF InSequence
  <2>2. Precise(v, O2)
    <3>1. ASSUME NEW i \in DOMAIN v, Sizes(v, i)
          PROVE  LaterAmended(v, i) \/ (v[i].order_id \in DOMAIN O2 /\ v[i].qty = O2[v[i].order_id].qty)
      <4>1. i \in DOMAIN u /\ v[i] = u[i] /\ Sizes(u, i)
        BY <1>6, <3>1 DEF Sizes
      <4>2. LaterAmended(u, i) \/ (u[i].order_id \in DOMAIN O /\ u[i].qty = O[u[i].order_id].qty)
        BY <1>14, <4>1 DEF Exact, Precise
      <4> QED BY <1>4, <1>5, <1>7, <4>1, <4>2
    <3> QED BY <3>1 DEF Precise
  <2>3. Shrinking(v, O2)
    <3>1. ASSUME NEW i \in DOMAIN v, Sizes(v, i)
          PROVE  /\ v[i].qty > 0
                 /\ v[i].order_id \in DOMAIN O2 => O2[v[i].order_id].qty <= v[i].qty
                 /\ \A l \in DOMAIN v : l > i /\ Resizing(v, l, v[i].order_id) => v[l].qty <= v[i].qty
      <4>1. i \in DOMAIN u /\ v[i] = u[i] /\ Sizes(u, i)
        BY <1>6, <3>1 DEF Sizes
      <4>2. /\ u[i].qty > 0
            /\ u[i].order_id \in DOMAIN O => O[u[i].order_id].qty <= u[i].qty
            /\ \A l \in DOMAIN u : l > i /\ Resizing(u, l, u[i].order_id) => u[l].qty <= u[i].qty
        BY <1>14, <4>1 DEF Exact, Shrinking
      <4>3. ASSUME NEW l \in DOMAIN v, l > i, Resizing(v, l, v[i].order_id) PROVE v[l].qty <= v[i].qty
        <5>1. l \in DOMAIN u /\ v[l] = u[l]
          BY <1>6, <4>3 DEF Resizing
        <5> QED BY <4>1, <4>2, <4>3, <5>1 DEF Resizing
      <4> QED BY <1>4, <4>1, <4>2, <4>3
    <3> QED BY <3>1 DEF Shrinking
  <2>4. Apart(v)
    <3>1. ASSUME NEW i \in DOMAIN v, NEW j \in DOMAIN v, IsNew(v, i), IsNew(v, j), i < j, Meet(v[i], v[j])
          PROVE  \E l \in DOMAIN v : i < l /\ l < j /\ Cancels(v, l, v[i].order_id)
      <4>1. i \in DOMAIN u /\ v[i] = u[i] /\ j \in DOMAIN u /\ v[j] = u[j] /\ IsNew(u, i) /\ IsNew(u, j)
        BY <1>6, <3>1 DEF IsNew
      <4>2. PICK l \in DOMAIN u : i < l /\ l < j /\ Cancels(u, l, u[i].order_id)
        BY <1>14, <3>1, <4>1 DEF Exact, Apart
      <4> QED BY <1>2, <4>1, <4>2 DEF Cancels
    <3> QED BY <3>1 DEF Apart
  <2> QED BY <2>1, <2>2, <2>3, <2>4 DEF Exact
<1> QED BY <1>8, <1>9, <1>10, <1>11, <1>12, <1>13, <1>14 DEF Faithful

\* An order is reduced to q.
ShrinkIn(O2, O, key, q) ==
  /\ key \in DOMAIN O /\ q <= O[key].qty
  /\ DOMAIN O2 = DOMAIN O /\ \A r \in DOMAIN O \ {key} : O2[r] = O[r]
  /\ O2[key].side = O[key].side /\ O2[key].price = O[key].price /\ O2[key].qty = q

\* The modify that the translator sends when an order is reduced.
LEMMA ModifyKeeps ==
  ASSUME NEW O, NEW n \in Nat, Below(O, n), NEW key, NEW q \in Nat \ {0}, NEW O2, ShrinkIn(O2, O, key, q),
         NEW u \in Seq(Items), Faithful(u, O, n), NEW m \in Items, Told(m, "ModifyOrder", key, O2[key]),
         NEW v, Appended(v, u, m)
  PROVE  Faithful(v, O2, n) /\ (Exact(u, O) => Exact(v, O2)) /\ (Tells(u, O) => Tells(v, O2))
<1>1. /\ Len(u) \in Nat /\ DOMAIN u = 1..Len(u)
      /\ \A i \in DOMAIN u : u[i].order_id \in Nat /\ u[i].qty \in Nat
  BY ItemTypes
<1> DEFINE z == Len(u) + 1
<1>2. /\ z \in DOMAIN v /\ v[z] = m /\ z \in Nat
      /\ \A i \in DOMAIN u : i \in DOMAIN v /\ i < z /\ v[i] = u[i]
      /\ \A i \in DOMAIN v : (i \in DOMAIN u \/ i = z) /\ i \in Nat /\ i <= z
  BY <1>1 DEF Appended
<1>3. m.msg_type = "ModifyOrder" /\ m.order_id = key /\ key \in DOMAIN O /\ key < n /\ m.qty = q
  BY DEF Told, ShrinkIn, Below
<1>4. \A r \in DOMAIN O2 : /\ r \in DOMAIN O /\ O2[r].side = O[r].side /\ O2[r].price = O[r].price
                           /\ r # key => O2[r] = O[r]
  BY DEF ShrinkIn
<1>5. DOMAIN O2 = DOMAIN O /\ key \in DOMAIN O2 /\ O2[key].qty = q /\ q <= O[key].qty /\ O[key].qty \in Nat
  BY DEF ShrinkIn, Below, Known
<1> HIDE DEF z
<1>6. ASSUME NEW i \in DOMAIN v, v[i].msg_type # "ModifyOrder" PROVE i \in DOMAIN u /\ v[i] = u[i]
  BY <1>2, <1>3, <1>6
<1>7. ASSUME NEW i \in DOMAIN u
      PROVE  /\ LaterAmended(u, i) => LaterAmended(v, i)
             /\ LaterCancelled(u, i) => LaterCancelled(v, i)
             /\ u[i].order_id = key => LaterAmended(v, i)
  <2>1. m.msg_type # "NewOrder"
    BY <1>3
  <2> QED BY <1>3, <2>1, LaterKept
<1>8. Ids(v, n)
  <2>1. ASSUME NEW i \in DOMAIN v, NEW j \in DOMAIN v, IsNew(v, i), IsNew(v, j), v[i].order_id = v[j].order_id
        PROVE i = j
    BY <1>6, <2>1 DEF Faithful, Ids, IsNew
  <2>2. ASSUME NEW i \in DOMAIN v PROVE v[i].order_id < n
    BY <1>2, <1>3 DEF Faithful, Ids
  <2> QED BY <2>1, <2>2 DEF Ids
<1>9. Sided(v, O2)
  <2>1. ASSUME NEW i \in DOMAIN v, IsNew(v, i), v[i].order_id \in DOMAIN O2
        PROVE  v[i].side = EngineSide(O2[v[i].order_id].side) /\ v[i].price = O2[v[i].order_id].price * 100
    <3>1. i \in DOMAIN u /\ v[i] = u[i] /\ IsNew(u, i) /\ u[i].order_id \in DOMAIN O
      BY <1>4, <1>6, <2>1 DEF IsNew
    <3>2. u[i].side = EngineSide(O[u[i].order_id].side) /\ u[i].price = O[u[i].order_id].price * 100
      BY <3>1 DEF Faithful, Sided
    <3> QED BY <1>4, <2>1, <3>1, <3>2
  <2> QED BY <2>1 DEF Sided
<1>10. Current(v, O2)
  <2>1. ASSUME NEW i \in DOMAIN v, Sizes(v, i)
        PROVE  LaterAmended(v, i) \/ (v[i].order_id \in DOMAIN O2 /\ v[i].qty <= O2[v[i].order_id].qty)
    <3>1. CASE i \in DOMAIN u
      <4>1. v[i] = u[i] /\ Sizes(u, i)
        BY <1>2, <2>1, <3>1 DEF Sizes
      <4>2. LaterAmended(u, i) \/ (u[i].order_id \in DOMAIN O /\ u[i].qty <= O[u[i].order_id].qty)
        BY <3>1, <4>1 DEF Faithful, Current
      <4> QED BY <1>4, <1>5, <1>7, <3>1, <4>1, <4>2
    <3>2. CASE i = z
      BY <1>2, <1>3, <1>5, <3>2
    <3> QED BY <1>2, <3>1, <3>2
  <2> QED BY <2>1 DEF Current
<1>11. Alive(v, O2)
  <2>1. ASSUME NEW i \in DOMAIN v, IsNew(v, i) PROVE v[i].order_id \in DOMAIN O2 \/ LaterCancelled(v, i)
    <3>1. i \in DOMAIN u /\ v[i] = u[i] /\ IsNew(u, i)
      BY <1>6, <2>1 DEF IsNew
    <3>2. u[i].order_id \in DOMAIN O \/ LaterCancelled(u, i)
      BY <3>1 DEF Faithful, Alive
    <3> QED BY <1>5, <1>7, <3>1, <3>2
  <2> QED BY <2>1 DEF Alive
<1>12. Gone(v, O2)
  <2>1. ASSUME NEW i \in DOMAIN v, v[i].msg_type = "CancelOrder" PROVE v[i].order_id \notin DOMAIN O2
    BY <1>5, <1>6, <2>1 DEF Faithful, Gone
  <2> QED BY <2>1 DEF Gone
<1>13. ASSUME Tells(u, O) PROVE Tells(v, O2)
  BY <1>2, <1>5, <1>13 DEF Tells, IsNew
<1>14. ASSUME Exact(u, O) PROVE Exact(v, O2)
  <2>1. InSequence(v)
    <3>1. ASSUME NEW i \in DOMAIN v, NEW j \in DOMAIN v, IsNew(v, i), IsNew(v, j), i < j
          PROVE v[i].order_id < v[j].order_id
      BY <1>6, <1>14, <3>1 DEF Exact, InSequence, IsNew
    <3> QED BY <3>1 DEF InSequence
  <2>2. Precise(v, O2)
    <3>1. ASSUME NEW i \in DOMAIN v, Sizes(v, i)
          PROVE  LaterAmended(v, i) \/ (v[i].order_id \in DOMAIN O2 /\ v[i].qty = O2[v[i].order_id].qty)
      <4>1. CASE i \in DOMAIN u
        <5>1. v[i] = u[i] /\ Sizes(u, i)
          BY <1>2, <3>1, <4>1 DEF Sizes
        <5>2. LaterAmended(u, i) \/ (u[i].order_id \in DOMAIN O /\ u[i].qty = O[u[i].order_id].qty)
          BY <1>14, <4>1, <5>1 DEF Exact, Precise
        <5> QED BY <1>4, <1>5, <1>7, <4>1, <5>1, <5>2
      <4>2. CASE i = z
        BY <1>2, <1>3, <1>5, <4>2
      <4> QED BY <1>2, <4>1, <4>2
    <3> QED BY <3>1 DEF Precise
  <2>3. Shrinking(v, O2)
    <3>1. ASSUME NEW i \in DOMAIN v, Sizes(v, i)
          PROVE  /\ v[i].qty > 0
                 /\ v[i].order_id \in DOMAIN O2 => O2[v[i].order_id].qty <= v[i].qty
                 /\ \A l \in DOMAIN v : l > i /\ Resizing(v, l, v[i].order_id) => v[l].qty <= v[i].qty
      <4>1. CASE i \in DOMAIN u
        <5>1. v[i] = u[i] /\ Sizes(u, i) /\ u[i].qty \in Nat
          BY <1>1, <1>2, <3>1, <4>1 DEF Sizes
        <5>2. /\ u[i].qty > 0
              /\ u[i].order_id \in DOMAIN O => O[u[i].order_id].qty <= u[i].qty
              /\ \A l \in DOMAIN u : l > i /\ Resizing(u, l, u[i].order_id) => u[l].qty <= u[i].qty
          BY <1>14, <4>1, <5>1 DEF Exact, Shrinking
        <5>3. u[i].order_id = key => q <= u[i].qty
          BY <1>3, <1>5, <5>1, <5>2
        <5>4. ASSUME NEW l \in DOMAIN v, l > i, Resizing(v, l, v[i].order_id) PROVE v[l].qty <= v[i].qty
          <6>1. CASE l \in DOMAIN u
            BY <1>2, <5>1, <5>2, <5>4, <6>1 DEF Resizing
          <6>2. CASE l = z
            BY <1>2, <1>3, <5>1, <5>3, <5>4, <6>2 DEF Resizing
          <6> QED BY <1>2, <6>1, <6>2
        <5>5. u[i].order_id \in DOMAIN O2 => O2[u[i].order_id].qty <= u[i].qty
          <6>1. CASE u[i].order_id = key
            BY <1>5, <5>3, <6>1
          <6>2. CASE u[i].order_id # key
            BY <1>4, <5>2, <6>2
          <6> QED BY <6>1, <6>2
        <5> QED BY <5>1, <5>2, <5>4, <5>5
      <4>2. CASE i = z
        <5>1. \A l \in DOMAIN v : ~(l > i)
          BY <1>2, <4>2
        <5> QED BY <1>2, <1>3, <1>5, <4>2, <5>1
      <4> QED BY <1>2, <4>1, <4>2
    <3> QED BY <3>1 DEF Shrinking
  <2>4. Apart(v)
    <3>1. ASSUME NEW i \in DOMAIN v, NEW j \in DOMAIN v, IsNew(v, i), IsNew(v, j), i < j, Meet(v[i], v[j])
          PROVE  \E l \in DOMAIN v : i < l /\ l < j /\ Cancels(v, l, v[i].order_id)
      <4>1. i \in DOMAIN u /\ v[i] = u[i] /\ j \in DOMAIN u /\ v[j] = u[j] /\ IsNew(u, i) /\ IsNew(u, j)
        BY <1>6, <3>1 DEF IsNew
      <4>2. PICK l \in DOMAIN u : i < l /\ l < j /\ Cancels(u, l, u[i].order_id)
        BY <1>14, <3>1, <4>1 DEF Exact, Apart
      <4> QED BY <1>2, <4>1, <4>2 DEF Cancels
    <3> QED BY <3>1 DEF Apart
  <2> QED BY <2>1, <2>2, <2>3, <2>4 DEF Exact
<1> QED BY <1>8, <1>9, <1>10, <1>11, <1>12, <1>13, <1>14 DEF Faithful
----------------------------------------------------------------------------
(***************************************************************************)
(* A snapshot as a trail, and what the engine does to a trail.             *)
(***************************************************************************)
\* The messages can be part of a trail.
LEMMA MessagesAreItems == Messages \subseteq Items /\ Seq(Messages) \subseteq Seq(Items)
<1>1. Messages \subseteq Items
  BY DEF Messages, Items
<1>2. ASSUME NEW s \in Seq(Messages) PROVE s \in Seq(Items)
  <2>1. Len(s) \in Nat /\ DOMAIN s = 1..Len(s) /\ s = [i \in 1..Len(s) |-> s[i]]
    BY LenProperties, SeqDef
  <2>2. \A i \in 1..Len(s) : s[i] \in Items
    BY <1>1, <2>1, ElementOfSeq
  <2>3. s \in [1..Len(s) -> Items]
    BY <2>1, <2>2
  <2> QED BY <2>1, <2>3, SeqDef
<1> QED BY <1>1, <1>2

\* A snapshot begins a trail.
LEMMA SnapshotBegins ==
  ASSUME NEW O, NEW n \in Nat, Below(O, n), NEW T \in Seq(Items), Lists(T, O)
  PROVE  Faithful(T, O, n) /\ Tells(T, O) /\ (NotCrossed(O) => Exact(T, O))
<1>1. /\ Len(T) \in Nat /\ DOMAIN T = 1..Len(T)
      /\ \A i \in DOMAIN T : i \in Nat /\ T[i].order_id \in Nat /\ T[i].qty \in Nat
  BY ItemTypes
<1>2. \A i \in DOMAIN T :
        /\ T[i].order_id \in DOMAIN O /\ T[i].msg_type = "NewOrder"
        /\ T[i].side = EngineSide(O[T[i].order_id].side) /\ T[i].price = O[T[i].order_id].price * 100
        /\ T[i].qty = O[T[i].order_id].qty
  BY DEF Lists, Told
<1>3. \A r \in DOMAIN O : r \in Nat /\ r < n /\ O[r] \in Known /\ O[r].qty \in Nat /\ O[r].qty > 0
  BY DEF Below, Known
<1>4. \A i, j \in DOMAIN T : i < j => T[i].order_id < T[j].order_id
  BY DEF Lists
<1>5. Ids(T, n)
  <2>1. ASSUME NEW i \in DOMAIN T, NEW j \in DOMAIN T, T[i].order_id = T[j].order_id PROVE i = j
    <3>1. ~(i < j) /\ ~(j < i)
      BY <1>1, <1>4, <2>1
    <3> QED BY <1>1, <3>1
  <2> QED BY <1>2, <1>3, <2>1 DEF Ids
<1>6. Sided(T, O) /\ Current(T, O) /\ Alive(T, O) /\ Gone(T, O)
  BY <1>1, <1>2, <1>3 DEF Sided, Current, Alive, Gone
<1>7. Tells(T, O)
  BY <1>2 DEF Tells, Lists, IsNew
<1>8. ASSUME NotCrossed(O) PROVE Exact(T, O)
  <2>1. InSequence(T) /\ Precise(T, O)
    BY <1>2, <1>4 DEF InSequence, Precise
  <2>2. Shrinking(T, O)
    BY <1>1, <1>2, <1>3 DEF Shrinking, Resizing
  <2>3. Apart(T)
    <3>1. ASSUME NEW i \in DOMAIN T, NEW j \in DOMAIN T, Meet(T[i], T[j]) PROVE FALSE
      <4>1. PICK x, y : x = T[i].order_id /\ y = T[j].order_id
        OBVIOUS
      <4>2. x \in DOMAIN O /\ y \in DOMAIN O
        BY <1>2, <4>1
      <4>3. /\ T[i].side = EngineSide(O[x].side) /\ T[i].price = O[x].price * 100
            /\ T[j].side = EngineSide(O[y].side) /\ T[j].price = O[y].price * 100
        BY <1>2, <4>1
      <4>4. O[x].side \in ItchSides /\ O[y].side \in ItchSides /\ O[x].price \in Nat /\ O[y].price \in Nat
        <5>1. O[x].side \in ItchSides /\ O[y].side \in ItchSides /\ O[x].price \in Prices /\ O[y].price \in Prices
          BY <1>3, <4>2 DEF Known
        <5> QED BY <5>1, Itch50Assumption
      <4>5. \/ O[x].side = "B" /\ O[y].side = "S" /\ O[y].price <= O[x].price
            \/ O[x].side = "S" /\ O[y].side = "B" /\ O[x].price <= O[y].price
        <5>1. T[i].side = Other(T[j].side) /\ AsGood(T[j].side, T[j].price, T[i].price)
          BY <3>1 DEF Meet
        <5>2. PICK p, q : p = O[x].price /\ q = O[y].price
          OBVIOUS
        <5>3. p \in Nat /\ q \in Nat /\ T[i].price = p * 100 /\ T[j].price = q * 100
          BY <4>3, <4>4, <5>2
        <5>4. CASE O[y].side = "B"
          <6>1. T[i].side = "Sell" /\ AsGood("Buy", q * 100, p * 100)
            BY <4>3, <5>1, <5>3, <5>4 DEF EngineSide, Other
          <6>2. O[x].side = "S"
            BY <4>3, <4>4, <6>1 DEF EngineSide, ItchSides
          <6> QED BY <5>2, <5>3, <5>4, <6>1, <6>2 DEF AsGood
        <5>5. CASE O[y].side = "S"
          <6>1. T[i].side = "Buy" /\ AsGood("Sell", q * 100, p * 100)
            BY <4>3, <5>1, <5>3, <5>5 DEF EngineSide, Other
          <6>2. O[x].side = "B"
            BY <4>3, <4>4, <6>1 DEF EngineSide, ItchSides
          <6> QED BY <5>2, <5>3, <5>5, <6>1, <6>2 DEF AsGood
        <5> QED BY <4>4, <5>4, <5>5 DEF ItchSides
      <4>6. CASE O[x].side = "B" /\ O[y].side = "S" /\ O[y].price <= O[x].price
        BY <1>8, <4>2, <4>4, <4>6 DEF NotCrossed
      <4>7. CASE O[x].side = "S" /\ O[y].side = "B" /\ O[x].price <= O[y].price
        BY <1>8, <4>2, <4>4, <4>7 DEF NotCrossed
      <4> QED BY <4>5, <4>6, <4>7
    <3> QED BY <3>1 DEF Apart
  <2> QED BY <2>1, <2>2, <2>3 DEF Exact
<1> QED BY <1>5, <1>6, <1>7, <1>8 DEF Faithful
----------------------------------------------------------------------------
(***************************************************************************)
(* The engine thins the trail out: v holds items of u, at the places g.  p *)
(* is the place of the amendment it has carried out, or 0.                 *)
(***************************************************************************)
\* The same but for the quantity.
Alike(x, y) == x.msg_type = y.msg_type /\ x.order_id = y.order_id /\ x.side = y.side /\ x.price = y.price

\* The item at j is one that the amendment at p is about.
Touched(v, u, g, p, j) == p \in DOMAIN u /\ g[j] < p /\ u[p].order_id = v[j].order_id

\* Trail v is what the engine makes of u when it carries out the amendment at p
\* (p = 0: it executes or refuses an order): some new orders go, the item at p goes,
\* all other amendments stay and stay in order.
Thinned(v, u, g, p) ==
  /\ g \in [DOMAIN v -> DOMAIN u]
  /\ \A j, k \in DOMAIN v : g[j] = g[k] => j = k
  /\ \A j \in DOMAIN v : g[j] # p /\ Alike(v[j], u[g[j]])
  /\ \A j, k \in DOMAIN v : j < k /\ ~IsNew(v, j) => g[j] < g[k]
  /\ \A l \in DOMAIN u : ~IsNew(u, l) /\ l # p => p <= l /\ \E k \in DOMAIN v : g[k] = l
  /\ p \in DOMAIN u => ~IsNew(u, p)
  /\ \A j \in DOMAIN v : IF Touched(v, u, g, p, j)
                         THEN u[p].msg_type = "ModifyOrder" /\ v[j].qty = u[p].qty
                         ELSE v[j].qty <= u[g[j]].qty

\* ... without executions.
Untraded(v, u, g, p) ==
  /\ \A j, k \in DOMAIN v : j < k => g[j] < g[k]
  /\ \A j \in DOMAIN v : ~Touched(v, u, g, p, j) => v[j].qty = u[g[j]].qty

\* An amendment of u that comes after the item at g[j] comes after it in v.
LEMMA LaterThinned ==
  ASSUME NEW u \in Seq(Items), NEW v \in Seq(Items), NEW g, NEW p \in Nat, Thinned(v, u, g, p),
         NEW j \in DOMAIN v, NEW l \in DOMAIN u, ~IsNew(u, l), l # p, l > g[j]
  PROVE  \E k \in DOMAIN v : g[k] = l /\ k > j /\ Alike(v[k], u[l])
<1>1. \A i \in DOMAIN u : i \in Nat
  BY ItemTypes
<1>2. \A i \in DOMAIN v : i \in Nat
  BY ItemTypes
<1>3. PICK k \in DOMAIN v : g[k] = l
  BY DEF Thinned
<1>4. Alike(v[k], u[l]) /\ ~IsNew(v, k)
  BY <1>3 DEF Thinned, Alike, IsNew
<1>5. g[j] \in DOMAIN u
  BY DEF Thinned
<1>6. k # j /\ ~(k < j)
  <2>1. k # j
    BY <1>1, <1>3, <1>5
  <2>2. k < j => g[k] < g[j]
    BY <1>4 DEF Thinned
  <2> QED BY <1>1, <1>3, <1>5, <2>1, <2>2
<1>7. k > j
  BY <1>2, <1>6
<1> QED BY <1>3, <1>4, <1>7

\* What the engine does keeps the trail faithful ...
LEMMA ThinnedFaithful ==
  ASSUME NEW O, NEW n \in Nat, NEW p \in Nat, Below(O, n),
         NEW u \in Seq(Items), NEW v \in Seq(Items), NEW g, Thinned(v, u, g, p), Faithful(u, O, n)
  PROVE  Faithful(v, O, n)
<1>1. \A i \in DOMAIN u : i \in Nat /\ u[i].order_id \in Nat /\ u[i].qty \in Nat
  BY ItemTypes
<1>2. \A i \in DOMAIN v : i \in Nat /\ v[i].order_id \in Nat /\ v[i].qty \in Nat
  BY ItemTypes
<1>3. \A j \in DOMAIN v : g[j] \in DOMAIN u /\ Alike(v[j], u[g[j]]) /\ g[j] # p
  BY DEF Thinned
<1>4. \A r \in DOMAIN O : O[r].qty \in Nat
  BY DEF Below, Known
<1>5. Ids(v, n)
  <2>1. ASSUME NEW i \in DOMAIN v, NEW j \in DOMAIN v, IsNew(v, i), IsNew(v, j), v[i].order_id = v[j].order_id
        PROVE i = j
    <3>1. g[i] = g[j]
      BY <1>3, <2>1 DEF Alike, IsNew, Faithful, Ids
    <3> QED BY <3>1 DEF Thinned
  <2> QED BY <1>3, <2>1 DEF Ids, Faithful, Alike
<1>6. Sided(v, O)
  BY <1>3 DEF Sided, Faithful, Alike, IsNew
<1>7. Current(v, O)
  <2>1. ASSUME NEW j \in DOMAIN v, Sizes(v, j)
        PROVE  LaterAmended(v, j) \/ (v[j].order_id \in DOMAIN O /\ v[j].qty <= O[v[j].order_id].qty)
    <3>1. PICK i \in DOMAIN u : i = g[j]
      BY <1>3
    <3>2. Sizes(u, i) /\ u[i].order_id = v[j].order_id
      BY <1>3, <2>1, <3>1 DEF Sizes, Alike
    <3>3. ASSUME NEW l \in DOMAIN u, l > i, l # p, Amends(u, l, v[j].order_id) PROVE LaterAmended(v, j)
      <4>1. ~IsNew(u, l)
        BY <3>3 DEF Amends, IsNew
      <4>2. PICK k \in DOMAIN v : g[k] = l /\ k > j /\ Alike(v[k], u[l])
        BY <3>1, <3>3, <4>1, LaterThinned
      <4> QED BY <3>3, <4>2 DEF LaterAmended, Amends, Alike
    <3>4. CASE Touched(v, u, g, p, j)
      <4>1. p \in DOMAIN u /\ i < p /\ u[p].order_id = v[j].order_id
        BY <3>1, <3>4 DEF Touched
      <4>2. u[p].msg_type = "ModifyOrder" /\ v[j].qty = u[p].qty
        BY <3>4 DEF Thinned
      <4>3. LaterAmended(u, p) \/ (u[p].order_id \in DOMAIN O /\ u[p].qty <= O[u[p].order_id].qty)
        BY <4>1, <4>2 DEF Faithful, Current, Sizes
      <4>4. CASE LaterAmended(u, p)
        <5>1. PICK l \in DOMAIN u : l > p /\ Amends(u, l, u[p].order_id)
          BY <4>4 DEF LaterAmended
        <5>2. l > i /\ l # p
          BY <1>1, <3>1, <4>1, <5>1
        <5> QED BY <3>3, <4>1, <5>1, <5>2
      <4> QED BY <4>1, <4>2, <4>3, <4>4
    <3>5. CASE ~Touched(v, u, g, p, j)
      <4>1. v[j].qty <= u[i].qty
        BY <3>1, <3>5 DEF Thinned
      <4>2. LaterAmended(u, i) \/ (u[i].order_id \in DOMAIN O /\ u[i].qty <= O[u[i].order_id].qty)
        BY <3>2 DEF Faithful, Current
      <4>3. CASE LaterAmended(u, i)
        <5>1. PICK l \in DOMAIN u : l > i /\ Amends(u, l, u[i].order_id)
          BY <4>3 DEF LaterAmended
        <5>2. l # p
          BY <1>1, <3>1, <3>2, <3>5, <5>1 DEF Touched, Amends
        <5> QED BY <3>2, <3>3, <5>1, <5>2
      <4>4. CASE u[i].order_id \in DOMAIN O /\ u[i].qty <= O[u[i].order_id].qty
        BY <1>1, <1>2, <1>4, <3>2, <4>1, <4>4
      <4> QED BY <4>2, <4>3, <4>4
    <3> QED BY <3>4, <3>5
  <2> QED BY <2>1 DEF Current
<1>8. Alive(v, O)
  <2>1. ASSUME NEW j \in DOMAIN v, IsNew(v, j) PROVE v[j].order_id \in DOMAIN O \/ LaterCancelled(v, j)
    <3>1. PICK i \in DOMAIN u : i = g[j]
      BY <1>3
    <3>2. IsNew(u, i) /\ u[i].order_id = v[j].order_id
      BY <1>3, <2>1, <3>1 DEF IsNew, Alike
    <3>3. u[i].order_id \in DOMAIN O \/ LaterCancelled(u, i)
      BY <3>2 DEF Faithful, Alive
    <3>4. CASE LaterCancelled(u, i)
      <4>1. PICK l \in DOMAIN u : l > i /\ Cancels(u, l, u[i].order_id)
        BY <3>4 DEF LaterCancelled
      <4>2. l # p
        <5>1. ASSUME l = p PROVE FALSE
          <6>1. Touched(v, u, g, p, j)
            BY <1>1, <3>1, <3>2, <4>1, <5>1 DEF Touched, Cancels
          <6>2. u[p].msg_type = "ModifyOrder"
            BY <6>1 DEF Thinned
          <6> QED BY <4>1, <5>1, <6>2 DEF Cancels
        <5> QED BY <5>1
      <4>3. ~IsNew(u, l)
        BY <4>1 DEF Cancels, IsNew
      <4>4. PICK k \in DOMAIN v : g[k] = l /\ k > j /\ Alike(v[k], u[l])
        BY <3>1, <4>1, <4>2, <4>3, LaterThinned
      <4> QED BY <3>2, <4>1, <4>4 DEF LaterCancelled, Cancels, Alike
    <3> QED BY <3>2, <3>3, <3>4
  <2> QED BY <2>1 DEF Alive
<1>9. Gone(v, O)
  BY <1>3 DEF Gone, Faithful, Alike
<1> QED BY <1>5, <1>6, <1>7, <1>8, <1>9 DEF Faithful

\* ... and exact, if nothing is executed.
LEMMA ThinnedExact ==
  ASSUME NEW O, NEW p \in Nat,
         NEW u \in Seq(Items), NEW v \in Seq(Items), NEW g, Thinned(v, u, g, p), Untraded(v, u, g, p), Exact(u, O)
  PROVE  Exact(v, O)
<1>1. \A i \in DOMAIN u : i \in Nat /\ u[i].order_id \in Nat /\ u[i].qty \in Nat
  BY ItemTypes
<1>2. \A i \in DOMAIN v : i \in Nat /\ v[i].order_id \in Nat /\ v[i].qty \in Nat
  BY ItemTypes
<1>3. \A j \in DOMAIN v : g[j] \in DOMAIN u /\ Alike(v[j], u[g[j]]) /\ g[j] # p
  BY DEF Thinned
<1>4. \A j, k \in DOMAIN v : j < k => g[j] < g[k]
  BY DEF Untraded
<1>5. InSequence(v)
  BY <1>3, <1>4 DEF InSequence, Exact, IsNew, Alike
<1>6. Precise(v, O)
  <2>1. ASSUME NEW j \in DOMAIN v, Sizes(v, j)
        PROVE  LaterAmended(v, j) \/ (v[j].order_id \in DOMAIN O /\ v[j].qty = O[v[j].order_id].qty)
    <3>1. PICK i \in DOMAIN u : i = g[j]
      BY <1>3
    <3>2. Sizes(u, i) /\ u[i].order_id = v[j].order_id
      BY <1>3, <2>1, <3>1 DEF Sizes, Alike
    <3>3. ASSUME NEW l \in DOMAIN u, l > i, l # p, Amends(u, l, v[j].order_id) PROVE LaterAmended(v, j)
      <4>1. ~IsNew(u, l)
        BY <3>3 DEF Amends, IsNew
      <4>2. PICK k \in DOMAIN v : g[k] = l /\ k > j /\ Alike(v[k], u[l])
        BY <3>1, <3>3, <4>1, LaterThinned
      <4> QED BY <3>3, <4>2 DEF LaterAmended, Amends, Alike
    <3>4. CASE Touched(v, u, g, p, j)
      <4>1. p \in DOMAIN u /\ i < p /\ u[p].order_id = v[j].order_id
        BY <3>1, <3>4 DEF Touched
      <4>2. u[p].msg_type = "ModifyOrder" /\ v[j].qty = u[p].qty
        BY <3>4 DEF Thinned
      <4>3. LaterAmended(u, p) \/ (u[p].order_id \in DOMAIN O /\ u[p].qty = O[u[p].order_id].qty)
        BY <4>1, <4>2 DEF Exact, Precise, Sizes
      <4>4. CASE LaterAmended(u, p)
        <5>1. PICK l \in DOMAIN u : l > p /\ Amends(u, l, u[p].order_id)
          BY <4>4 DEF LaterAmended
        <5>2. l > i /\ l # p
          BY <1>1, <3>1, <4>1, <5>1
        <5> QED BY <3>3, <4>1, <5>1, <5>2
      <4> QED BY <4>1, <4>2, <4>3, <4>4
    <3>5. CASE ~Touched(v, u, g, p, j)
      <4>1. v[j].qty = u[i].qty
        BY <3>1, <3>5 DEF Untraded
      <4>2. LaterAmended(u, i) \/ (u[i].order_id \in DOMAIN O /\ u[i].qty = O[u[i].order_id].qty)
        BY <3>2 DEF Exact, Precise
      <4>3. CASE LaterAmended(u, i)
        <5>1. PICK l \in DOMAIN u : l > i /\ Amends(u, l, u[i].order_id)
          BY <4>3 DEF LaterAmended
        <5>2. l # p
          BY <1>1, <3>1, <3>2, <3>5, <5>1 DEF Touched, Amends
        <5> QED BY <3>2, <3>3, <5>1, <5>2
      <4> QED BY <3>2, <4>1, <4>2, <4>3
    <3> QED BY <3>4, <3>5
  <2> QED BY <2>1 DEF Precise
<1>7. Shrinking(v, O)
  <2>1. ASSUME NEW j \in DOMAIN v, Sizes(v, j)
        PROVE  /\ v[j].qty > 0
               /\ v[j].order_id \in DOMAIN O => O[v[j].order_id].qty <= v[j].qty
               /\ \A l \in DOMAIN v : l > j /\ Resizing(v, l, v[j].order_id) => v[l].qty <= v[j].qty
    \* where the quantity of v[j] comes from
    <3>1. PICK i \in DOMAIN u : /\ Sizes(u, i) /\ u[i].order_id = v[j].order_id /\ v[j].qty = u[i].qty
                                /\ i = g[j] \/ (i = p /\ g[j] < p)
      <4>1. CASE Touched(v, u, g, p, j)
        BY <4>1 DEF Touched, Thinned, Sizes
      <4>2. CASE ~Touched(v, u, g, p, j)
        BY <1>3, <2>1, <4>2 DEF Untraded, Alike, Sizes
      <4> QED BY <4>1, <4>2
    <3>2. /\ u[i].qty > 0
          /\ u[i].order_id \in DOMAIN O => O[u[i].order_id].qty <= u[i].qty
          /\ \A l \in DOMAIN u : l > i /\ Resizing(u, l, u[i].order_id) => u[l].qty <= u[i].qty
      BY <3>1 DEF Exact, Shrinking
    <3>3. ASSUME NEW l \in DOMAIN v, l > j, Resizing(v, l, v[j].order_id) PROVE v[l].qty <= v[j].qty
      <4>1. g[l] \in DOMAIN u /\ Resizing(u, g[l], v[j].order_id) /\ ~IsNew(u, g[l]) /\ g[l] # p
        BY <1>3, <3>3 DEF Resizing, Alike, IsNew
      <4>2. g[l] > g[j]
        BY <1>1, <1>3, <1>4, <3>3
      <4>3. p <= g[l]
        BY <4>1 DEF Thinned
      <4>4. g[l] > i
        BY <1>1, <1>3, <3>1, <4>1, <4>2, <4>3
      <4>5. ~Touched(v, u, g, p, l)
        BY <1>1, <4>1, <4>3 DEF Touched
      <4>6. v[l].qty = u[g[l]].qty
        BY <4>5 DEF Untraded
      <4> QED BY <3>1, <3>2, <4>1, <4>4, <4>6
    <3> QED BY <3>1, <3>2, <3>3
  <2> QED BY <2>1 DEF Shrinking
<1>8. Apart(v)
  <2>1. ASSUME NEW j \in DOMAIN v, NEW k \in DOMAIN v, IsNew(v, j), IsNew(v, k), j < k, Meet(v[j], v[k])
        PROVE  \E l \in DOMAIN v : j < l /\ l < k /\ Cancels(v, l, v[j].order_id)
    <3>1. PICK a \in DOMAIN u, b \in DOMAIN u : a = g[j] /\ b = g[k]
      BY <1>3
    <3>2. IsNew(u, a) /\ IsNew(u, b) /\ a < b /\ u[a].order_id = v[j].order_id
      BY <1>3, <1>4, <2>1, <3>1 DEF IsNew, Alike
    <3>3. Meet(u[a], u[b])
      <4>1. u[a].side = v[j].side /\ u[a].price = v[j].price /\ u[b].side = v[k].side /\ u[b].price = v[k].price
        BY <1>3, <3>1 DEF Alike
      <4> QED BY <2>1, <4>1 DEF Meet
    <3>4. PICK l \in DOMAIN u : a < l /\ l < b /\ Cancels(u, l, u[a].order_id)
      BY <3>2, <3>3 DEF Exact, Apart
    <3>5. l # p
      <4>1. ASSUME l = p PROVE FALSE
        <5>1. Touched(v, u, g, p, j)
          BY <3>1, <3>2, <3>4, <4>1 DEF Touched, Cancels
        <5>2. u[p].msg_type = "ModifyOrder"
          BY <5>1 DEF Thinned
        <5> QED BY <3>4, <4>1, <5>2 DEF Cancels
      <4> QED BY <4>1
    <3>6. ~IsNew(u, l) /\ l > g[j]
      BY <1>1, <3>1, <3>4 DEF Cancels, IsNew
    <3>7. PICK x \in DOMAIN v : g[x] = l /\ x > j /\ Alike(v[x], u[l])
      BY <3>5, <3>6, LaterThinned
    <3>8. x < k
      <4>1. x # k
        BY <1>1, <3>1, <3>4, <3>7
      <4>2. ~(k < x)
        BY <1>1, <1>4, <3>1, <3>4, <3>7
      <4> QED BY <1>2, <4>1, <4>2
    <3>9. Cancels(v, x, v[j].order_id)
      BY <3>2, <3>4, <3>7 DEF Cancels, Alike
    <3> QED BY <1>2, <3>7, <3>8, <3>9
  <2> QED BY <2>1 DEF Apart
<1> QED BY <1>5, <1>6, <1>7, <1>8 DEF Exact

\* Orders that the feed shows are not thinned out.
LEMMA ThinnedTells ==
  ASSUME NEW O, NEW u, NEW v, NEW g, NEW p, Thinned(v, u, g, p), Tells(u, O),
         \A i \in DOMAIN u : IsNew(u, i) /\ u[i].order_id \in DOMAIN O => \E k \in DOMAIN v : g[k] = i
  PROVE  Tells(v, O)
<1>1. ASSUME NEW id \in DOMAIN O PROVE \E k \in DOMAIN v : IsNew(v, k) /\ v[k].order_id = id
  <2>1. PICK i \in DOMAIN u : IsNew(u, i) /\ u[i].order_id = id
    BY DEF Tells
  <2>2. PICK k \in DOMAIN v : g[k] = i
    BY <2>1
  <2> QED BY <2>1, <2>2 DEF Thinned, Alike, IsNew
<1> QED BY <1>1 DEF Tells
----------------------------------------------------------------------------
(***************************************************************************)
(* A trail that begins with a book.                                        *)
(***************************************************************************)
\* An order as the message that would add it; a trail begins with the book.
Entry(o) == [msg_type |-> "NewOrder", order_id |-> o.id, price |-> o.price, qty |-> o.qty, side |-> o.side]
Resting(b) == [i \in DOMAIN b |-> Entry(b[i])]

\* Trail w is book b and then P.
Begins(w, b, P) ==
  /\ Len(w) = Len(b) + Len(P) /\ DOMAIN w = 1..(Len(b) + Len(P))
  /\ \A j \in DOMAIN b : w[j] = Entry(b[j])
  /\ \A k \in DOMAIN P : w[Len(b) + k] = P[k]

\* A book is a trail.
LEMMA RestingItems ==
  ASSUME NEW b \in Seq(EngineOrders)
  PROVE  Resting(b) \in Seq(Items) /\ Len(Resting(b)) = Len(b)
<1>1. Len(b) \in Nat /\ DOMAIN b = 1..Len(b) /\ \A j \in DOMAIN b : b[j] \in EngineOrders
  BY BookItself
<1>2. \A j \in DOMAIN b : Entry(b[j]) \in Items
  BY <1>1 DEF EngineOrders, Items, Entry, MessageTypes
<1>3. Resting(b) \in [1..Len(b) -> Items]
  BY <1>1, <1>2 DEF Resting
<1>4. Resting(b) \in Seq(Items)
  BY <1>1, <1>3, SeqDef
<1>5. DOMAIN Resting(b) = 1..Len(b)
  BY <1>1 DEF Resting
<1> QED BY <1>1, <1>4, <1>5, LenProperties

\* A book before a trail makes a trail.
LEMMA TrailBegins ==
  ASSUME NEW b \in Seq(EngineOrders), NEW P \in Seq(Items), NEW w, w = Resting(b) \o P
  PROVE  w \in Seq(Items) /\ Begins(w, b, P)
<1>1. Len(b) \in Nat /\ DOMAIN b = 1..Len(b) /\ Len(P) \in Nat /\ DOMAIN P = 1..Len(P)
  BY LenProperties
<1>2. PICK r \in Seq(Items) : r = Resting(b) /\ Len(r) = Len(b)
  BY RestingItems
<1>3. /\ r \o P \in Seq(Items) /\ Len(r \o P) = Len(r) + Len(P)
      /\ \A j \in 1..(Len(r) + Len(P)) : (r \o P)[j] = IF j <= Len(r) THEN r[j] ELSE P[j - Len(r)]
  BY ConcatProperties
<1>4. w = r \o P
  BY <1>2
<1>5. /\ w \in Seq(Items) /\ Len(w) = Len(b) + Len(P)
      /\ \A j \in 1..(Len(b) + Len(P)) : w[j] = IF j <= Len(b) THEN r[j] ELSE P[j - Len(b)]
  BY <1>2, <1>3, <1>4
<1>6. DOMAIN w = 1..(Len(b) + Len(P))
  BY <1>5, LenProperties
<1>7. \A j \in DOMAIN b : w[j] = Entry(b[j])
  <2>1. \A j \in DOMAIN b : r[j] = Entry(b[j])
    BY <1>2 DEF Resting
  <2> QED BY <1>1, <1>5, <2>1
<1>8. \A k \in DOMAIN P : w[Len(b) + k] = P[k]
  BY <1>1, <1>5
<1> QED BY <1>5, <1>6, <1>7, <1>8 DEF Begins

\* The places of v in u, when the book changes from a to b as h says and the
\* rest loses its first d items.
Lifted(v, u, g, b, a, Q, P, h, d) ==
  /\ g \in [DOMAIN v -> DOMAIN u]
  /\ \A j, k \in DOMAIN v : g[j] = g[k] => j = k
  /\ \A j \in DOMAIN v : Alike(v[j], u[g[j]])
  /\ \A j, k \in DOMAIN v : j < k /\ (~IsNew(v, j) \/ InTurn(b, h)) => g[j] < g[k]
  /\ \A j \in DOMAIN b : j \in DOMAIN v /\ g[j] = h[j] /\ v[j] = Entry(b[j]) /\ u[g[j]] = Entry(a[h[j]])
        /\ g[j] \in DOMAIN a
  /\ \A j \in DOMAIN v \ DOMAIN b :
       /\ g[j] > Len(a) + d
       /\ \E k \in DOMAIN Q : k + d \in DOMAIN P /\ v[j] = Q[k] /\ u[g[j]] = P[k + d]
  /\ \A l \in DOMAIN u : l > Len(a) + d => \E k \in DOMAIN v : g[k] = l

\* A change of the book is a change of the trail.
LEMMA Lifting ==
  ASSUME NEW a \in Seq(EngineOrders), NEW b \in Seq(EngineOrders), NEW P \in Seq(Items), NEW Q \in Seq(Items),
         NEW d \in {0, 1}, Len(P) = Len(Q) + d, \A k \in DOMAIN Q : Alike(Q[k], P[k + d]),
         NEW h, Kept(b, a, h), NEW u, Begins(u, a, P), NEW v, Begins(v, b, Q)
  PROVE  \E g : Lifted(v, u, g, b, a, Q, P, h, d)
<1> DEFINE na == Len(a)
           nb == Len(b)
           g == [j \in DOMAIN v |-> IF j \in DOMAIN b THEN h[j] ELSE j - nb + na + d]
<1>1. /\ na \in Nat /\ DOMAIN a = 1..na /\ nb \in Nat /\ DOMAIN b = 1..nb
      /\ Len(P) \in Nat /\ DOMAIN P = 1..Len(P) /\ Len(Q) \in Nat /\ DOMAIN Q = 1..Len(Q)
  BY LenProperties
<1>2. DOMAIN u = 1..(na + Len(P)) /\ DOMAIN v = 1..(nb + Len(Q))
  BY DEF Begins
<1>0. d \in Nat
  OBVIOUS
<1>3. h \in [DOMAIN b -> DOMAIN a] /\ \A j, k \in DOMAIN b : h[j] = h[k] => j = k
  BY DEF Kept
<1>4. ASSUME NEW j \in DOMAIN b
      PROVE  j \in DOMAIN v /\ g[j] = h[j] /\ g[j] \in DOMAIN a /\ g[j] \in DOMAIN u /\ v[j] = Entry(b[j])
            /\ u[g[j]] = Entry(a[h[j]])
  <2>1. j \in DOMAIN v
    BY <1>1, <1>2
  <2>2. g[j] = h[j] /\ h[j] \in DOMAIN a
    BY <1>3, <2>1
  <2>3. h[j] \in DOMAIN u
    BY <1>1, <1>2, <2>2
  <2> HIDE DEF g
  <2> QED BY <2>1, <2>2, <2>3 DEF Begins
<1>5. ASSUME NEW j \in DOMAIN v, j \notin DOMAIN b
      PROVE  /\ j > nb /\ g[j] = j - nb + na + d /\ g[j] > na + d /\ g[j] \in DOMAIN u
             /\ j - nb \in DOMAIN Q /\ j - nb + d \in DOMAIN P /\ v[j] = Q[j - nb] /\ u[g[j]] = P[j - nb + d]
  <2>1. j \in Int /\ j > nb /\ g[j] = j - nb + na + d
    BY <1>1, <1>2, <1>5
  <2>2. g[j] > na + d /\ g[j] \in DOMAIN u /\ j - nb \in DOMAIN Q /\ j - nb + d \in DOMAIN P
    <3> HIDE DEF g
    <3> QED BY <1>1, <1>2, <2>1
  <2>3. PICK k : k = j - nb
    OBVIOUS
  <2>4. j = nb + k /\ g[j] = na + (k + d)
    <3>1. na \in Nat /\ nb \in Nat
      BY <1>1
    <3> HIDE DEF g, na, nb
    <3>0. j \in Int
      BY <2>1
    <3>2. k \in Int /\ j = nb + k
      BY <2>3, <3>0, <3>1, SMTT(20)
    <3>3. g[j] = k + na + d
      BY <2>1, <2>3
    <3> QED BY <1>0, <3>1, <3>2, <3>3
  <2>5. v[nb + k] = Q[k] /\ u[na + (k + d)] = P[k + d]
    BY <2>2, <2>3 DEF Begins
  <2>6. v[j] = Q[k] /\ u[g[j]] = P[k + d]
    <3> HIDE DEF g, na, nb
    <3> QED BY <2>4, <2>5
  <2> HIDE DEF g
  <2> QED BY <2>1, <2>2, <2>3, <2>6
<1>6. g \in [DOMAIN v -> DOMAIN u]
  <2>1. \A j \in DOMAIN v : g[j] \in DOMAIN u
    <3> HIDE DEF g
    <3> QED BY <1>4, <1>5
  <2> QED BY <2>1
<1> HIDE DEF g
<1>7. ASSUME NEW j \in DOMAIN v, NEW k \in DOMAIN v, g[j] = g[k] PROVE j = k
  <2>1. CASE j \in DOMAIN b /\ k \in DOMAIN b
    BY <1>3, <1>4, <1>7, <2>1
  <2>2. CASE j \in DOMAIN b /\ k \notin DOMAIN b
    BY <1>1, <1>4, <1>5, <1>7, <2>2
  <2>3. CASE j \notin DOMAIN b /\ k \in DOMAIN b
    BY <1>1, <1>4, <1>5, <1>7, <2>3
  <2>4. CASE j \notin DOMAIN b /\ k \notin DOMAIN b
    <3>1. g[j] = j - nb + na + d /\ g[k] = k - nb + na + d
      BY <1>5, <2>4
    <3>2. j \in Int /\ k \in Int
      BY <1>2
    <3>3. na \in Nat /\ nb \in Nat
      BY <1>1
    <3> HIDE DEF na, nb
    <3>4. j - nb + na + d = k - nb + na + d
      BY <1>7, <3>1
    <3> QED BY <1>0, <3>2, <3>3, <3>4
  <2> QED BY <2>1, <2>2, <2>3, <2>4
<1>8. ASSUME NEW j \in DOMAIN v PROVE Alike(v[j], u[g[j]])
  <2>1. CASE j \in DOMAIN b
    <3>1. b[j].id = a[h[j]].id /\ b[j].side = a[h[j]].side /\ b[j].price = a[h[j]].price
      BY <2>1 DEF Kept
    <3>2. Alike(Entry(b[j]), Entry(a[h[j]]))
      BY <3>1 DEF Alike, Entry
    <3> QED BY <1>4, <2>1, <3>2
  <2>2. CASE j \notin DOMAIN b
    BY <1>5, <2>2
  <2> QED BY <2>1, <2>2
<1>9. ASSUME NEW j \in DOMAIN v, NEW k \in DOMAIN v, j < k, ~IsNew(v, j) \/ InTurn(b, h) PROVE g[j] < g[k]
  <2>1. CASE j \in DOMAIN b /\ k \in DOMAIN b
    <3>1. IsNew(v, j)
      <4>1. Entry(b[j]).msg_type = "NewOrder"
        BY DEF Entry
      <4>2. v[j] = Entry(b[j])
        BY <1>4, <2>1
      <4> QED BY <4>1, <4>2 DEF IsNew
    <3>2. h[j] < h[k]
      BY <1>9, <2>1, <3>1 DEF InTurn
    <3> QED BY <1>4, <2>1, <3>2
  <2>2. CASE j \in DOMAIN b /\ k \notin DOMAIN b
    <3>1. g[k] > na + d /\ g[k] = k - nb + na + d /\ k \in Int
      BY <1>2, <1>5, <2>2
    <3>2. g[j] \in 1..na
      BY <1>1, <1>4, <2>2
    <3> QED BY <1>0, <1>1, <3>1, <3>2
  <2>3. CASE j \notin DOMAIN b /\ k \in DOMAIN b
    <3>1. j > nb /\ j \in Int /\ k \in 1..nb
      BY <1>1, <1>2, <1>5, <2>3
    <3> QED BY <1>1, <1>9, <3>1
  <2>4. CASE j \notin DOMAIN b /\ k \notin DOMAIN b
    <3>1. g[j] = j - nb + na + d /\ g[k] = k - nb + na + d
      BY <1>5, <2>4
    <3>2. j \in Int /\ k \in Int
      BY <1>2
    <3> QED BY <1>0, <1>1, <1>9, <3>1, <3>2
  <2> QED BY <2>1, <2>2, <2>3, <2>4
<1>10. ASSUME NEW l \in DOMAIN u, l > na + d PROVE \E k \in DOMAIN v : g[k] = l
  <2>1. PICK k : k = l - na - d + nb
    OBVIOUS
  <2>0. l \in Int /\ l <= na + Len(P) /\ Len(P) = Len(Q) + d
    BY <1>2
  <2>2. k \in 1..(nb + Len(Q)) /\ ~(k \in 1..nb)
    BY <1>0, <1>1, <1>10, <2>0, <2>1
  <2>3. g[k] = l
    <3>1. g[k] = k - nb + na + d
      BY <1>1, <1>2, <1>5, <2>2
    <3> QED BY <1>0, <1>1, <2>0, <2>1, <3>1
  <2> QED BY <1>2, <2>2, <2>3
<1>11. ASSUME NEW j \in DOMAIN v \ DOMAIN b
       PROVE  g[j] > na + d /\ \E k \in DOMAIN Q : k + d \in DOMAIN P /\ v[j] = Q[k] /\ u[g[j]] = P[k + d]
  BY <1>5
<1>12. Lifted(v, u, g, b, a, Q, P, h, d)
  BY <1>4, <1>6, <1>7, <1>8, <1>9, <1>10, <1>11 DEF Lifted
<1> QED BY <1>12

\* The ids of a book on a faithful trail are distinct.
LEMMA BookDistinct ==
  ASSUME NEW a \in Seq(EngineOrders), NEW P \in Seq(Items), NEW u, Begins(u, a, P), NEW n, NEW O, Faithful(u, O, n)
  PROVE  Distinct(a)
<1>1. \A i \in DOMAIN a : i \in DOMAIN u /\ u[i] = Entry(a[i]) /\ u[i].order_id = a[i].id /\ IsNew(u, i)
  <2>1. \A i \in DOMAIN a : u[i] = Entry(a[i])
    BY DEF Begins
  <2>2. Len(a) \in Nat /\ DOMAIN a = 1..Len(a) /\ Len(P) \in Nat
    BY LenProperties
  <2>3. \A i \in DOMAIN a : i \in DOMAIN u
    BY <2>2 DEF Begins
  <2> QED BY <2>1, <2>3 DEF Entry, IsNew
<1> QED BY <1>1 DEF Distinct, Faithful, Ids
----------------------------------------------------------------------------
(***************************************************************************)
(* What the engine does with the next item of a trail.                     *)
(***************************************************************************)
\* The fields of an order as a message.
LEMMA EntryFields ==
  ASSUME NEW o
  PROVE  /\ Entry(o).msg_type = "NewOrder" /\ Entry(o).order_id = o.id /\ Entry(o).side = o.side
         /\ Entry(o).price = o.price /\ Entry(o).qty = o.qty
BY DEF Entry

\* The rest of a trail without its first item.
Shorter(Q, P) ==
  /\ Len(P) = Len(Q) + 1 /\ \A k \in DOMAIN Q : k + 1 \in DOMAIN P /\ Q[k] = P[k + 1]

\* Places of a trail: in the book, the next item, behind it.
LEMMA TrailPlaces ==
  ASSUME NEW a \in Seq(EngineOrders), NEW P \in Seq(Items), NEW u, Begins(u, a, P), P # <<>>
  PROVE  /\ Len(a) \in Nat /\ Len(a) + 1 \in DOMAIN u /\ u[Len(a) + 1] = P[1] /\ 1 \in DOMAIN P
         /\ \A i \in DOMAIN u : i \in Nat /\ i > 0 /\ (i \in DOMAIN a \/ i = Len(a) + 1 \/ i > Len(a) + 1)
         /\ \A i \in DOMAIN a : i \in DOMAIN u /\ i < Len(a) + 1 /\ u[i] = Entry(a[i]) /\ IsNew(u, i)
<1>1. Len(a) \in Nat /\ DOMAIN a = 1..Len(a) /\ Len(P) \in Nat /\ DOMAIN P = 1..Len(P)
  BY LenProperties
<1>2. Len(P) > 0
  BY <1>1, EmptySeq
<1>3. DOMAIN u = 1..(Len(a) + Len(P)) /\ (\A j \in DOMAIN a : u[j] = Entry(a[j]))
         /\ \A k \in DOMAIN P : u[Len(a) + k] = P[k]
  BY DEF Begins
<1>4. \A o : Entry(o).msg_type = "NewOrder"
  BY DEF Entry
<1>5. \A i \in DOMAIN a : IsNew(u, i)
  BY <1>3, <1>4 DEF IsNew
<1>6. 1 \in DOMAIN P /\ u[Len(a) + 1] = P[1]
  BY <1>1, <1>2, <1>3
<1>7. Len(a) + 1 \in DOMAIN u
  BY <1>1, <1>2, <1>3
<1>8. \A i \in DOMAIN u : i \in Nat /\ i > 0 /\ (i \in DOMAIN a \/ i = Len(a) + 1 \/ i > Len(a) + 1)
  BY <1>1, <1>3
<1>9. \A i \in DOMAIN a : i \in DOMAIN u /\ i < Len(a) + 1
  BY <1>1, <1>3
<1> QED BY <1>1, <1>3, <1>5, <1>6, <1>7, <1>8, <1>9

\* A cancel or a modify carried out: the message goes, and with it what it
\* cancels; a modify sets the quantity.
CarriedOut(v, u, g, p, id) ==
  /\ Thinned(v, u, g, p)
  /\ \A i \in DOMAIN u : IsNew(u, i) /\ (u[p].msg_type = "CancelOrder" => u[i].order_id # id)
        => \E k \in DOMAIN v : g[k] = i

\* The engine carries out a cancel.
LEMMA CancelThins ==
  ASSUME NEW a \in Seq(EngineOrders), Distinct(a), NEW P \in Seq(Items), P # <<>>, NEW Q \in Seq(Items), Shorter(Q, P),
         P[1].msg_type = "CancelOrder", NEW b, b = CancelOrder(a, P[1].order_id),
         NEW u \in Seq(Items), Begins(u, a, P), NEW v, Begins(v, b, Q)
  PROVE  /\ b \in Seq(EngineOrders) /\ Len(b) <= Len(a)
         /\ \E g : CarriedOut(v, u, g, Len(a) + 1, P[1].order_id) /\ Untraded(v, u, g, Len(a) + 1)
<1>0. PICK id : id = P[1].order_id
  OBVIOUS
<1>1. b \in Seq(EngineOrders) /\ Len(b) <= Len(a)
  BY CancelWithdraws
<1>2. PICK h : Withdraws(b, a, h, id)
  BY <1>0, CancelWithdraws
<1>3. Kept(b, a, h) /\ InTurn(b, h) /\ \A j \in DOMAIN b : b[j].id # id /\ b[j] = a[h[j]]
  BY <1>2 DEF Withdraws
<1>4. Len(P) = Len(Q) + 1 /\ \A k \in DOMAIN Q : Alike(Q[k], P[k + 1])
  BY DEF Shorter, Alike
<1>5. PICK g : Lifted(v, u, g, b, a, Q, P, h, 1)
  BY <1>1, <1>3, <1>4, Lifting
<1> DEFINE p == Len(a) + 1
<1>6. /\ Len(a) \in Nat /\ p \in DOMAIN u /\ u[p] = P[1]
      /\ \A i \in DOMAIN u : i \in Nat /\ i > 0 /\ (i \in DOMAIN a \/ i = p \/ i > p)
      /\ \A i \in DOMAIN a : i \in DOMAIN u /\ i < p /\ u[i] = Entry(a[i]) /\ IsNew(u, i)
  BY TrailPlaces
<1> HIDE DEF p
<1>7. /\ g \in [DOMAIN v -> DOMAIN u]
      /\ \A j, k \in DOMAIN v : g[j] = g[k] => j = k
      /\ \A j \in DOMAIN v : Alike(v[j], u[g[j]])
      /\ \A j, k \in DOMAIN v : j < k => g[j] < g[k]
      /\ \A l \in DOMAIN u : l > p => \E k \in DOMAIN v : g[k] = l
  BY <1>3, <1>5 DEF Lifted, p
<1>8. ASSUME NEW j \in DOMAIN b
      PROVE  /\ j \in DOMAIN v /\ g[j] = h[j] /\ g[j] \in DOMAIN a /\ g[j] < p
             /\ v[j].order_id # id /\ v[j].qty = u[g[j]].qty
  <2>1. j \in DOMAIN v /\ g[j] = h[j] /\ v[j] = Entry(b[j]) /\ u[g[j]] = Entry(a[h[j]]) /\ g[j] \in DOMAIN a
    BY <1>5 DEF Lifted
  <2>2. Entry(b[j]).order_id = b[j].id /\ Entry(b[j]).qty = b[j].qty /\ Entry(a[h[j]]).qty = a[h[j]].qty
    BY EntryFields
  <2> QED BY <1>3, <1>6, <2>1, <2>2
<1>9. ASSUME NEW j \in DOMAIN v, j \notin DOMAIN b PROVE g[j] > p /\ v[j].qty = u[g[j]].qty
  <2>1. g[j] > p /\ \E k \in DOMAIN Q : k + 1 \in DOMAIN P /\ v[j] = Q[k] /\ u[g[j]] = P[k + 1]
    BY <1>5, <1>9 DEF Lifted, p
  <2> QED BY <2>1 DEF Shorter
<1>10. \A j \in DOMAIN v : g[j] # p /\ v[j].qty = u[g[j]].qty /\ ~Touched(v, u, g, p, j)
  <2>1. ASSUME NEW j \in DOMAIN v PROVE g[j] # p /\ v[j].qty = u[g[j]].qty /\ ~Touched(v, u, g, p, j)
    <3>1. g[j] \in DOMAIN u /\ g[j] \in Nat /\ p \in Nat
      BY <1>6, <1>7
    <3>2. CASE j \in DOMAIN b
      BY <1>0, <1>6, <1>8, <3>1, <3>2 DEF Touched
    <3>3. CASE j \notin DOMAIN b
      BY <1>9, <3>1, <3>3 DEF Touched
    <3> QED BY <3>2, <3>3
  <2> QED BY <2>1
<1>11. \A j \in DOMAIN v : u[g[j]].qty \in Nat
  <2>1. \A j \in DOMAIN v : g[j] \in DOMAIN u
    BY <1>7
  <2>2. \A i \in DOMAIN u : u[i].qty \in Nat
    BY ItemTypes
  <2> QED BY <2>1, <2>2
<1>12. ASSUME NEW l \in DOMAIN u, ~IsNew(u, l), l # p PROVE p <= l /\ \E k \in DOMAIN v : g[k] = l
  <2>1. l > p
    BY <1>6, <1>12
  <2> QED BY <1>6, <1>7, <2>1
<1>13. ~IsNew(u, p)
  BY <1>6 DEF IsNew
<1>14. Thinned(v, u, g, p)
  <2>1. \A j \in DOMAIN v : v[j].qty <= u[g[j]].qty
    BY <1>10, <1>11
  <2> QED BY <1>7, <1>10, <1>12, <1>13, <2>1 DEF Thinned
<1>15. ASSUME NEW i \in DOMAIN u, IsNew(u, i), u[i].order_id # id PROVE \E k \in DOMAIN v : g[k] = i
  <2>1. CASE i \in DOMAIN a
    <3>1. a[i].id # id
      BY <1>6, <1>15, <2>1, EntryFields
    <3>2. PICK j \in DOMAIN b : h[j] = i
      BY <1>2, <2>1, <3>1 DEF Withdraws, AllBut
    <3> QED BY <1>8, <3>2
  <2>2. CASE i \notin DOMAIN a
    BY <1>6, <1>7, <1>13, <1>15, <2>2
  <2> QED BY <2>1, <2>2
<1>16. Untraded(v, u, g, p)
  BY <1>7, <1>10 DEF Untraded
<1>17. CarriedOut(v, u, g, p, id)
  BY <1>6, <1>14, <1>15 DEF CarriedOut
<1> QED BY <1>0, <1>1, <1>16, <1>17 DEF p

\* The engine carries out a modify.
LEMMA ModifyThins ==
  ASSUME NEW a \in Seq(EngineOrders), Distinct(a), NEW P \in Seq(Items), P # <<>>, NEW Q \in Seq(Items), Shorter(Q, P),
         P[1].msg_type = "ModifyOrder", P[1].qty \in Nat \ {0}, NEW b, b = ModifyOrder(a, P[1].order_id, P[1].qty),
         NEW u \in Seq(Items), Begins(u, a, P), NEW v, Begins(v, b, Q)
  PROVE  /\ b \in Seq(EngineOrders) /\ Len(b) = Len(a)
         /\ \E g : /\ CarriedOut(v, u, g, Len(a) + 1, P[1].order_id)
                  /\ \A O : Exact(u, O) => Untraded(v, u, g, Len(a) + 1)
<1>0. PICK id, q : id = P[1].order_id /\ q = P[1].qty /\ q \in Nat \ {0}
  OBVIOUS
<1>1. b \in Seq(EngineOrders) /\ Len(b) = Len(a)
  BY ModifyResizes
<1>2. PICK h : Resizes(b, a, h, id, q)
  BY <1>0, ModifyResizes
<1>3. Kept(b, a, h) /\ \A j \in DOMAIN b : b[j].qty = IF b[j].id = id THEN q ELSE a[h[j]].qty
  BY <1>2 DEF Resizes
<1>4. Len(P) = Len(Q) + 1 /\ \A k \in DOMAIN Q : Alike(Q[k], P[k + 1])
  BY DEF Shorter, Alike
<1>5. PICK g : Lifted(v, u, g, b, a, Q, P, h, 1)
  BY <1>1, <1>3, <1>4, Lifting
<1> DEFINE p == Len(a) + 1
<1>6. /\ Len(a) \in Nat /\ p \in DOMAIN u /\ u[p] = P[1]
      /\ \A i \in DOMAIN u : i \in Nat /\ i > 0 /\ (i \in DOMAIN a \/ i = p \/ i > p)
      /\ \A i \in DOMAIN a : i \in DOMAIN u /\ i < p /\ u[i] = Entry(a[i]) /\ IsNew(u, i)
  BY TrailPlaces
<1> HIDE DEF p
<1>7. /\ g \in [DOMAIN v -> DOMAIN u]
      /\ \A j, k \in DOMAIN v : g[j] = g[k] => j = k
      /\ \A j \in DOMAIN v : Alike(v[j], u[g[j]])
      /\ \A j, k \in DOMAIN v : j < k /\ (~IsNew(v, j) \/ InTurn(b, h)) => g[j] < g[k]
      /\ \A l \in DOMAIN u : l > p => \E k \in DOMAIN v : g[k] = l
  BY <1>5 DEF Lifted, p
<1>8. ASSUME NEW j \in DOMAIN b
      PROVE  /\ j \in DOMAIN v /\ g[j] = h[j] /\ g[j] \in DOMAIN a /\ g[j] < p
             /\ v[j].qty = IF v[j].order_id = id THEN q ELSE u[g[j]].qty
  <2>1. j \in DOMAIN v /\ g[j] = h[j] /\ v[j] = Entry(b[j]) /\ u[g[j]] = Entry(a[h[j]]) /\ g[j] \in DOMAIN a
    BY <1>5 DEF Lifted
  <2>2. Entry(b[j]).order_id = b[j].id /\ Entry(b[j]).qty = b[j].qty /\ Entry(a[h[j]]).qty = a[h[j]].qty
    BY EntryFields
  <2> QED BY <1>3, <1>6, <2>1, <2>2
<1>9. ASSUME NEW j \in DOMAIN v, j \notin DOMAIN b PROVE g[j] > p /\ v[j].qty = u[g[j]].qty
  <2>1. g[j] > p /\ \E k \in DOMAIN Q : k + 1 \in DOMAIN P /\ v[j] = Q[k] /\ u[g[j]] = P[k + 1]
    BY <1>5, <1>9 DEF Lifted, p
  <2> QED BY <2>1 DEF Shorter
<1>10. ASSUME NEW j \in DOMAIN v
       PROVE  g[j] # p /\ v[j].qty = IF Touched(v, u, g, p, j) THEN u[p].qty ELSE u[g[j]].qty
  <2>1. g[j] \in DOMAIN u /\ g[j] \in Nat /\ p \in Nat
    BY <1>6, <1>7
  <2>2. CASE j \in DOMAIN b
    BY <1>0, <1>6, <1>8, <2>1, <2>2 DEF Touched
  <2>3. CASE j \notin DOMAIN b
    BY <1>9, <2>1, <2>3 DEF Touched
  <2> QED BY <2>2, <2>3
<1>11. \A j \in DOMAIN v : u[g[j]].qty \in Nat
  <2>1. \A j \in DOMAIN v : g[j] \in DOMAIN u
    BY <1>7
  <2>2. \A i \in DOMAIN u : u[i].qty \in Nat
    BY ItemTypes
  <2> QED BY <2>1, <2>2
<1>12. ASSUME NEW l \in DOMAIN u, ~IsNew(u, l), l # p PROVE p <= l /\ \E k \in DOMAIN v : g[k] = l
  <2>1. l > p
    BY <1>6, <1>12
  <2> QED BY <1>6, <1>7, <2>1
<1>13. ~IsNew(u, p) /\ u[p].msg_type = "ModifyOrder"
  BY <1>6 DEF IsNew
<1>14. Thinned(v, u, g, p)
  <2>1. \A j \in DOMAIN v : IF Touched(v, u, g, p, j)
                            THEN u[p].msg_type = "ModifyOrder" /\ v[j].qty = u[p].qty
                            ELSE v[j].qty <= u[g[j]].qty
    BY <1>10, <1>11, <1>13
  <2> QED BY <1>7, <1>10, <1>12, <1>13, <2>1 DEF Thinned
<1>15. ASSUME NEW i \in DOMAIN u, IsNew(u, i) PROVE \E k \in DOMAIN v : g[k] = i
  <2>1. CASE i \in DOMAIN a
    <3>1. PICK j \in DOMAIN b : h[j] = i
      BY <1>2, <2>1 DEF Resizes, AllBut
    <3> QED BY <1>8, <3>1
  <2>2. CASE i \notin DOMAIN a
    BY <1>6, <1>7, <1>13, <1>15, <2>2
  <2> QED BY <2>1, <2>2
<1>16. ASSUME NEW O, Exact(u, O) PROVE Untraded(v, u, g, p)
  <2>1. ASSUME NEW i \in DOMAIN a, a[i].id = id PROVE q <= a[i].qty
    <3>1. u[i].order_id = id /\ u[i].qty = a[i].qty /\ i \in DOMAIN u /\ p > i /\ u[i].msg_type = "NewOrder"
      BY <1>6, <2>1, EntryFields
    <3>2. Sizes(u, i)
      BY <3>1 DEF Sizes
    <3>3. Resizing(u, p, u[i].order_id)
      BY <1>0, <1>6, <3>1 DEF Resizing
    <3>4. u[p].qty <= u[i].qty
      BY <1>6, <1>16, <3>1, <3>2, <3>3 DEF Exact, Shrinking
    <3> QED BY <1>0, <1>6, <3>1, <3>4
  <2>2. InTurn(b, h)
    BY <1>2, <2>1 DEF Resizes
  <2> QED BY <1>7, <1>10, <2>2 DEF Untraded
<1>17. CarriedOut(v, u, g, p, id)
  BY <1>14, <1>15 DEF CarriedOut
<1>18. \A O : Exact(u, O) => Untraded(v, u, g, p)
  BY <1>16
<1> QED BY <1>0, <1>1, <1>17, <1>18 DEF p

\* An order that is not rested: the item goes, the book stays.
LEMMA RefusalThins ==
  ASSUME NEW a \in Seq(EngineOrders), NEW P \in Seq(Items), P # <<>>, NEW Q \in Seq(Items), Shorter(Q, P),
         P[1].msg_type = "NewOrder",
         NEW u \in Seq(Items), Begins(u, a, P), NEW v, Begins(v, a, Q)
  PROVE  \E g : Thinned(v, u, g, 0) /\ Untraded(v, u, g, 0)
<1>2. PICK h : Kept(a, a, h) /\ InTurn(a, h) /\ AllBut(a, a, h, {}) /\ \A j \in DOMAIN a : h[j] = j
  BY BookItself
<1>4. Len(P) = Len(Q) + 1 /\ \A k \in DOMAIN Q : Alike(Q[k], P[k + 1])
  BY DEF Shorter, Alike
<1>5. PICK g : Lifted(v, u, g, a, a, Q, P, h, 1)
  BY <1>2, <1>4, Lifting
<1> DEFINE p == Len(a) + 1
<1>6. /\ Len(a) \in Nat /\ p \in DOMAIN u /\ u[p] = P[1]
      /\ \A i \in DOMAIN u : i \in Nat /\ i > 0 /\ (i \in DOMAIN a \/ i = p \/ i > p)
      /\ \A i \in DOMAIN a : i \in DOMAIN u /\ i < p /\ u[i] = Entry(a[i]) /\ IsNew(u, i)
  BY TrailPlaces
<1> HIDE DEF p
<1>7. /\ g \in [DOMAIN v -> DOMAIN u]
      /\ \A j, k \in DOMAIN v : g[j] = g[k] => j = k
      /\ \A j \in DOMAIN v : Alike(v[j], u[g[j]])
      /\ \A j, k \in DOMAIN v : j < k => g[j] < g[k]
      /\ \A l \in DOMAIN u : l > p => \E k \in DOMAIN v : g[k] = l
  BY <1>2, <1>5 DEF Lifted, p
<1>8. ASSUME NEW j \in DOMAIN v PROVE v[j].qty = u[g[j]].qty
  <2>1. CASE j \in DOMAIN a
    <3>1. v[j] = Entry(a[j]) /\ u[g[j]] = Entry(a[h[j]])
      BY <1>5, <2>1 DEF Lifted
    <3>2. h[j] = j
      BY <1>2, <2>1
    <3> QED BY <3>1, <3>2
  <2>2. CASE j \notin DOMAIN a
    <3>1. \E k \in DOMAIN Q : k + 1 \in DOMAIN P /\ v[j] = Q[k] /\ u[g[j]] = P[k + 1]
      BY <1>5, <2>2 DEF Lifted
    <3> QED BY <3>1 DEF Shorter
  <2> QED BY <2>1, <2>2
<1>9. \A j \in DOMAIN v : g[j] \in DOMAIN u /\ g[j] # 0 /\ u[g[j]].qty \in Nat
  <2>1. \A j \in DOMAIN v : g[j] \in DOMAIN u
    BY <1>7
  <2>2. \A i \in DOMAIN u : u[i].qty \in Nat
    BY ItemTypes
  <2> QED BY <1>6, <2>1, <2>2
<1>10. \A j : ~Touched(v, u, g, 0, j)
  BY <1>6 DEF Touched
<1>12. ASSUME NEW l \in DOMAIN u, ~IsNew(u, l) PROVE 0 <= l /\ \E k \in DOMAIN v : g[k] = l
  <2>1. IsNew(u, p)
    BY <1>6 DEF IsNew
  <2>2. l > p
    BY <1>6, <1>12, <2>1
  <2> QED BY <1>6, <1>7, <2>2
<1>13. ~(0 \in DOMAIN u)
  BY <1>6
<1>14. Thinned(v, u, g, 0)
  <2>1. \A j \in DOMAIN v : v[j].qty <= u[g[j]].qty
    BY <1>8, <1>9
  <2> QED BY <1>7, <1>9, <1>10, <1>12, <1>13, <2>1 DEF Thinned
<1>15. Untraded(v, u, g, 0)
  BY <1>7, <1>8 DEF Untraded
<1> QED BY <1>14, <1>15

\* An execution: the item in hand and one of the book have less.
LEMMA ExecutionThins ==
  ASSUME NEW a \in Seq(EngineOrders), NEW P \in Seq(Items), P # <<>>, NEW Q \in Seq(Items), Len(Q) = Len(P),
         \A k \in DOMAIN Q : Alike(Q[k], P[k]) /\ Q[k].qty <= P[k].qty, P[1].msg_type = "NewOrder",
         NEW b \in Seq(EngineOrders), \E h : Trades(b, a, h),
         NEW u \in Seq(Items), Begins(u, a, P), NEW v, Begins(v, b, Q)
  PROVE  \E g : Thinned(v, u, g, 0)
<1>2. PICK h : Trades(b, a, h)
  OBVIOUS
<1>3. Kept(b, a, h) /\ InTurn(b, h) /\ \A j \in DOMAIN b : b[j].qty <= a[h[j]].qty
  BY <1>2 DEF Trades
<1>4. Len(P) = Len(Q) + 0 /\ \A k \in DOMAIN Q : k + 0 = k /\ Alike(Q[k], P[k + 0])
  <2>1. Len(Q) \in Nat /\ DOMAIN Q = 1..Len(Q)
    BY LenProperties
  <2>2. \A k \in DOMAIN Q : k + 0 = k
    BY <2>1
  <2> QED BY <2>1, <2>2
<1>5. PICK g : Lifted(v, u, g, b, a, Q, P, h, 0)
  BY <1>3, <1>4, Lifting
<1>6. /\ Len(a) \in Nat
      /\ \A i \in DOMAIN u : i \in Nat /\ i > 0 /\ (i \in DOMAIN a \/ i > Len(a) + 0)
      /\ \A i \in DOMAIN a : IsNew(u, i)
  BY TrailPlaces
<1>7. /\ g \in [DOMAIN v -> DOMAIN u]
      /\ \A j, k \in DOMAIN v : g[j] = g[k] => j = k
      /\ \A j \in DOMAIN v : Alike(v[j], u[g[j]])
      /\ \A j, k \in DOMAIN v : j < k => g[j] < g[k]
      /\ \A l \in DOMAIN u : l > Len(a) + 0 => \E k \in DOMAIN v : g[k] = l
  BY <1>3, <1>5 DEF Lifted
<1>8. ASSUME NEW j \in DOMAIN v PROVE v[j].qty <= u[g[j]].qty
  <2>1. CASE j \in DOMAIN b
    <3>1. v[j] = Entry(b[j]) /\ u[g[j]] = Entry(a[h[j]])
      BY <1>5, <2>1 DEF Lifted
    <3>2. v[j].qty = b[j].qty /\ u[g[j]].qty = a[h[j]].qty
      BY <3>1, EntryFields
    <3> QED BY <1>3, <2>1, <3>2
  <2>2. CASE j \notin DOMAIN b
    <3>1. \E k \in DOMAIN Q : v[j] = Q[k] /\ u[g[j]] = P[k + 0]
      BY <1>5, <2>2 DEF Lifted
    <3> QED BY <1>4, <3>1
  <2> QED BY <2>1, <2>2
<1>9. \A j \in DOMAIN v : g[j] # 0
  BY <1>6, <1>7
<1>10. \A j : ~Touched(v, u, g, 0, j)
  BY <1>6 DEF Touched
<1>12. ASSUME NEW l \in DOMAIN u, ~IsNew(u, l) PROVE 0 <= l /\ \E k \in DOMAIN v : g[k] = l
  <2>2. l > Len(a) + 0
    BY <1>6, <1>12
  <2> QED BY <1>6, <1>7, <2>2
<1>13. ~(0 \in DOMAIN u)
  BY <1>6
<1>14. Thinned(v, u, g, 0)
  BY <1>7, <1>8, <1>9, <1>10, <1>12, <1>13 DEF Thinned
<1> QED BY <1>14
----------------------------------------------------------------------------
(***************************************************************************)
(* The translator's messages keep the trail faithful to its orders.        *)
(***************************************************************************)
\* Trail v goes with the orders O2 as u did with O.
Follows(v, u, O2, O, n2, n) ==
  /\ v \in Seq(Items)
  /\ Faithful(u, O, n) => Faithful(v, O2, n2) /\ (Tells(u, O) => Tells(v, O2))
  /\ Faithful(u, O, n) /\ Exact(u, O) /\ NotCrossed(O2) => Exact(v, O2)

\* Nothing happens, or a reference is given out and not used.
LEMMA LaterBound ==
  ASSUME NEW u \in Seq(Items), NEW O, NEW n \in Nat
  PROVE  Follows(u, u, O, O, n, n) /\ Follows(u, u, O, O, n + 1, n)
<1>1. \A i \in DOMAIN u : u[i].order_id \in Nat
  BY ItemTypes
<1>2. Ids(u, n) => Ids(u, n + 1)
  BY <1>1 DEF Ids
<1> QED BY <1>2 DEF Follows, Faithful

\* One message behind a trail.
LEMMA OneBehind ==
  ASSUME NEW u \in Seq(Items), NEW m \in Messages
  PROVE  <<m>> \in Seq(Messages) /\ u \o <<m>> = Append(u, m)
<1>1. m \in Items
  BY MessagesAreItems
<1>2. u \o <<m>> = Append(u, m)
  BY <1>1, AppendIsConcat
<1> QED BY <1>2

\* on_add().
LEMMA AddFollows ==
  ASSUME NEW O, NEW n \in Nat, Below(O, n), NEW o \in Known, NEW u \in Seq(Items)
  PROVE  /\ OnAdd(O, n, o).out \in Seq(Messages)
         /\ Follows(u \o OnAdd(O, n, o).out, u, OnAdd(O, n, o).orders, O, n + 1, n)
<1>1. PICK m : m = Make("NewOrder", n, o.price, o.qty, o.side)
  OBVIOUS
<1>2. m \in Messages /\ Told(m, "NewOrder", n, o)
  BY <1>1, MakeTold DEF MessageTypes
<1>3. m \in Items
  BY <1>2, MessagesAreItems
<1>4. PICK v : v = Append(u, m)
  OBVIOUS
<1>5. v \in Seq(Items) /\ Appended(v, u, m)
  BY <1>3, <1>4, AppendedTrail
<1>6. PICK O2 : O2 = With(O, n, o)
  OBVIOUS
<1>7. AddTo(O2, O, n, o)
  <2>1. \A r \in DOMAIN O : r # n
    BY DEF Below
  <2> QED BY <1>6, <2>1 DEF AddTo, With
<1>8. Faithful(u, O, n) => Faithful(v, O2, n + 1) /\ (Tells(u, O) => Tells(v, O2))
  BY <1>2, <1>3, <1>5, <1>7, AddFaithful
<1>9. Faithful(u, O, n) /\ Exact(u, O) /\ NotCrossed(O2) => Exact(v, O2)
  BY <1>2, <1>3, <1>5, <1>7, AddExact
<1>10. Follows(v, u, O2, O, n + 1, n)
  BY <1>5, <1>8, <1>9 DEF Follows
<1>11. OnAdd(O, n, o).out = <<m>> /\ OnAdd(O, n, o).orders = O2
  BY <1>1, <1>6 DEF OnAdd
<1>12. <<m>> \in Seq(Messages) /\ u \o <<m>> = v
  BY <1>2, <1>4, OneBehind
<1> QED BY <1>10, <1>11, <1>12

\* A cancel, and the order forgotten.
LEMMA WithdrawalFollows ==
  ASSUME NEW O, NEW n \in Nat, Below(O, n), NEW key \in DOMAIN O, NEW u \in Seq(Items),
         NEW m, m = Make("CancelOrder", key, O[key].price, 0, O[key].side), NEW O2, O2 = Without(O, key)
  PROVE  /\ m \in Messages /\ Below(O2, n) /\ key \notin DOMAIN O2
         /\ Append(u, m) = u \o <<m>> /\ Follows(Append(u, m), u, O2, O, n, n)
<1>0. PICK o \in Known : o = O[key]
  BY DEF Below
<1>00. key \in Nat
  BY DEF Below
<1>1. m = Make("CancelOrder", key, o.price, 0, o.side)
  BY <1>0
<1>2. m \in Messages /\ Told(m, "CancelOrder", key, o)
  BY <1>00, <1>1, MakeTold DEF MessageTypes
<1>3. m \in Items
  BY <1>2, MessagesAreItems
<1>4. PICK v : v = Append(u, m)
  OBVIOUS
<1>5. v \in Seq(Items) /\ Appended(v, u, m)
  BY <1>3, <1>4, AppendedTrail
<1>7. DropFrom(O2, O, key) /\ key \notin DOMAIN O2
  BY DEF DropFrom, Without, Restrict
<1>8. Told(m, "CancelOrder", key, O[key])
  BY <1>0, <1>2
<1>9. Faithful(u, O, n) => Faithful(v, O2, n) /\ (Exact(u, O) => Exact(v, O2)) /\ (Tells(u, O) => Tells(v, O2))
  BY <1>3, <1>5, <1>7, <1>8, CancelKeeps
<1>10. Follows(v, u, O2, O, n, n)
  BY <1>5, <1>9 DEF Follows
<1>11. Below(O2, n)
  BY Erased
<1>12. Append(u, m) = u \o <<m>>
  BY <1>2, OneBehind
<1> QED BY <1>2, <1>4, <1>7, <1>10, <1>11, <1>12

\* Nothing said, nothing changed.
LEMMA NothingFollows ==
  ASSUME NEW O, NEW n \in Nat, NEW u \in Seq(Items)
  PROVE  /\ Unknown(O).out \in Seq(Messages) /\ Unknown(O).orders = O
         /\ Follows(u \o Unknown(O).out, u, O, O, n, n) /\ Follows(u \o Unknown(O).out, u, O, O, n + 1, n)
<1>1. Unknown(O).out = <<>> /\ Unknown(O).orders = O
  BY DEF Unknown
<1>2. u \o <<>> = u
  BY ConcatEmptySeq
<1>3. <<>> \in Seq(Messages)
  BY EmptySeq
<1> QED BY <1>1, <1>2, <1>3, LaterBound

\* on_delete().
LEMMA DeleteFollows ==
  ASSUME NEW O, NEW n \in Nat, Below(O, n), NEW key, NEW u \in Seq(Items)
  PROVE  /\ OnDelete(O, key).out \in Seq(Messages)
         /\ Follows(u \o OnDelete(O, key).out, u, OnDelete(O, key).orders, O, n, n)
<1>1. CASE key \notin DOMAIN O
  BY <1>1, NothingFollows DEF OnDelete
<1>2. CASE key \in DOMAIN O
  <2>1. PICK m, O2 : m = Make("CancelOrder", key, O[key].price, 0, O[key].side) /\ O2 = Without(O, key)
    OBVIOUS
  <2>2. OnDelete(O, key).out = <<m>> /\ OnDelete(O, key).orders = O2
    BY <1>2, <2>1 DEF OnDelete
  <2>3. m \in Messages /\ Append(u, m) = u \o <<m>> /\ Follows(Append(u, m), u, O2, O, n, n)
    BY <1>2, <2>1, WithdrawalFollows
  <2>4. <<m>> \in Seq(Messages)
    BY <2>3, OneBehind
  <2> QED BY <2>2, <2>3, <2>4
<1> QED BY <1>1, <1>2

\* on_reduce().
LEMMA ReduceFollows ==
  ASSUME NEW O, NEW n \in Nat, Below(O, n), NEW key, NEW by \in Nat, NEW u \in Seq(Items)
  PROVE  /\ OnReduce(O, key, by).out \in Seq(Messages)
         /\ Follows(u \o OnReduce(O, key, by).out, u, OnReduce(O, key, by).orders, O, n, n)
<1>1. CASE key \notin DOMAIN O
  BY <1>1, NothingFollows DEF OnReduce
<1>2. CASE key \in DOMAIN O
  <2>0. PICK o : o = O[key]
    OBVIOUS
  <2>1. o \in Known /\ o.qty \in Nat /\ key \in Nat
    BY <1>2, <2>0 DEF Below, Known
  <2>2. PICK left : left = o.qty - Min({by, o.qty})
    OBVIOUS
  <2>3. left \in Nat /\ left <= o.qty
    <3>1. Min({by, o.qty}) \in Nat /\ Min({by, o.qty}) <= o.qty
      BY <2>1, MinOfTwo
    <3> QED BY <2>1, <2>2, <3>1
  <2>4. CASE left = 0
    <3>1. PICK m, O2 : m = Make("CancelOrder", key, o.price, 0, o.side) /\ O2 = Without(O, key)
      OBVIOUS
    <3>2. OnReduce(O, key, by).out = <<m>> /\ OnReduce(O, key, by).orders = O2
      BY <1>2, <2>0, <2>2, <2>4, <3>1 DEF OnReduce
    <3>3. m \in Messages /\ Append(u, m) = u \o <<m>> /\ Follows(Append(u, m), u, O2, O, n, n)
      BY <1>2, <2>0, <3>1, WithdrawalFollows
    <3>4. <<m>> \in Seq(Messages)
      BY <3>3, OneBehind
    <3> QED BY <3>2, <3>3, <3>4
  <2>5. CASE left # 0
    <3>1. PICK m : m = Make("ModifyOrder", key, o.price, left, o.side)
      OBVIOUS
    <3>2. PICK O2 : O2 = [O EXCEPT ![key].qty = left]
      OBVIOUS
    <3>3. OnReduce(O, key, by).out = <<m>> /\ OnReduce(O, key, by).orders = O2
      BY <1>2, <2>0, <2>2, <2>5, <3>1, <3>2 DEF OnReduce
    <3>4. PICK k : k = [o EXCEPT !.qty = left]
      OBVIOUS
    <3>5. k \in Known /\ k.qty = left /\ k.side = o.side /\ k.price = o.price
      BY <2>1, <2>3, <2>5, <3>4 DEF Known
    <3>6. DOMAIN O2 = DOMAIN O /\ O2[key] = k /\ \A r \in DOMAIN O \ {key} : O2[r] = O[r]
      BY <1>2, <2>0, <3>2, <3>4
    <3>7. ShrinkIn(O2, O, key, left)
      BY <1>2, <2>0, <2>3, <3>5, <3>6 DEF ShrinkIn
    <3>8. m = Make("ModifyOrder", key, k.price, k.qty, k.side)
      BY <3>1, <3>5
    <3>9. m \in Messages /\ Told(m, "ModifyOrder", key, k)
      BY <2>1, <3>5, <3>8, MakeTold DEF MessageTypes
    <3>10. m \in Items /\ Told(m, "ModifyOrder", key, O2[key])
      BY <3>6, <3>9, MessagesAreItems
    <3>11. PICK v : v = Append(u, m)
      OBVIOUS
    <3>12. v \in Seq(Items) /\ Appended(v, u, m)
      BY <3>10, <3>11, AppendedTrail
    <3>13. left \in Nat \ {0}
      BY <2>3, <2>5
    <3>14. Faithful(u, O, n) => Faithful(v, O2, n) /\ (Exact(u, O) => Exact(v, O2)) /\ (Tells(u, O) => Tells(v, O2))
      BY <3>7, <3>10, <3>12, <3>13, ModifyKeeps
    <3>15. Follows(v, u, O2, O, n, n)
      BY <3>12, <3>14 DEF Follows
    <3>16. <<m>> \in Seq(Messages) /\ u \o <<m>> = v
      BY <3>9, <3>11, OneBehind
    <3> QED BY <3>3, <3>15, <3>16
  <2> QED BY <2>4, <2>5
<1> QED BY <1>1, <1>2

\* on_replace(): a cancel and an add.
LEMMA ReplaceFollows ==
  ASSUME NEW O, NEW n \in Nat, Below(O, n), NEW key, NEW q \in Nat \ {0}, NEW price \in Prices, NEW u \in Seq(Items)
  PROVE  /\ OnReplace(O, key, n, q, price).out \in Seq(Messages)
         /\ Follows(u \o OnReplace(O, key, n, q, price).out, u, OnReplace(O, key, n, q, price).orders, O, n + 1, n)
<1>1. CASE key \notin DOMAIN O
  BY <1>1, NothingFollows DEF OnReplace
<1>2. CASE key \in DOMAIN O
  <2>1. PICK m, O1 : m = Make("CancelOrder", key, O[key].price, 0, O[key].side) /\ O1 = Without(O, key)
    OBVIOUS
  <2>2. /\ m \in Messages /\ Below(O1, n)
        /\ Append(u, m) = u \o <<m>> /\ Follows(Append(u, m), u, O1, O, n, n)
    BY <1>2, <2>1, WithdrawalFollows
  <2>3. PICK o : o = [side |-> O[key].side, price |-> price, qty |-> q]
    OBVIOUS
  <2>4. o \in Known
    <3>1. O[key].side \in ItchSides
      BY <1>2 DEF Below, Known
    <3> QED BY <2>3, <3>1 DEF Known
  <2>5. PICK w : w = Append(u, m)
    OBVIOUS
  <2>6. w \in Seq(Items) /\ Follows(w, u, O1, O, n, n) /\ w = u \o <<m>>
    BY <2>2, <2>5 DEF Follows
  <2>7. PICK k, O2 : k = OnAdd(O1, n, o).out /\ O2 = OnAdd(O1, n, o).orders
    OBVIOUS
  <2>8. k \in Seq(Messages) /\ Follows(w \o k, w, O2, O1, n + 1, n)
    BY <2>2, <2>4, <2>6, <2>7, AddFollows
  <2>9. PICK x : x = Make("NewOrder", n, o.price, o.qty, o.side)
    OBVIOUS
  <2>10. k = <<x>> /\ O2 = With(O1, n, o)
    BY <2>7, <2>9 DEF OnAdd
  <2>11. OnReplace(O, key, n, q, price).out = <<m, x>> /\ OnReplace(O, key, n, q, price).orders = O2
    BY <1>2, <2>1, <2>3, <2>9, <2>10 DEF OnReplace
  <2>12. x \in Messages
    BY <2>4, <2>9, MakeTold DEF MessageTypes
  <2>13. <<m, x>> \in Seq(Messages)
    BY <2>2, <2>12
  <2>14. w \o k = u \o <<m, x>>
    <3>1. <<m>> \in Seq(Items) /\ <<x>> \in Seq(Items)
      BY <2>2, <2>12, MessagesAreItems
    <3>2. (u \o <<m>>) \o <<x>> = u \o (<<m>> \o <<x>>)
      BY <3>1, ConcatAssociative
    <3>3. <<m>> \o <<x>> = <<m, x>>
      <4>1. Append(<<m>>, x) = <<m>> \o <<x>>
        BY <2>12, <3>1, MessagesAreItems, AppendIsConcat
      <4>2. PICK y, z : y = Append(<<m>>, x) /\ z = <<m, x>>
        OBVIOUS
      <4>3. x \in Items /\ <<m>> \in Seq(Items) /\ z \in Seq(Items)
        BY <2>12, <2>13, <3>1, <4>2, MessagesAreItems
      <4>4. Len(<<m>>) = 1 /\ <<m>>[1] = m /\ Len(z) = 2 /\ z[1] = m /\ z[2] = x
        BY <4>2
      <4>5. y \in Seq(Items) /\ Len(y) = 2 /\ y[1] = m /\ y[2] = x
        BY <4>2, <4>3, <4>4, AppendProperties
      <4>6. \A i \in 1..Len(y) : y[i] = z[i]
        BY <4>4, <4>5
      <4>7. y = z
        BY <4>3, <4>4, <4>5, <4>6, SeqEqual
      <4> QED BY <4>1, <4>2, <4>7
    <3> QED BY <2>6, <2>10, <3>2, <3>3
  <2>15. PICK v : v = w \o k
    OBVIOUS
  <2>16. NotCrossed(O2) => NotCrossed(O1)
    <3>1. n \notin DOMAIN O1
      BY <2>2 DEF Below
    <3>2. \A r \in DOMAIN O1 : r \in DOMAIN O2 /\ O2[r] = O1[r]
      BY <2>10, <3>1 DEF With
    <3> QED BY <3>2 DEF NotCrossed
  <2>17. Follows(v, u, O2, O, n + 1, n)
    BY <2>6, <2>8, <2>15, <2>16 DEF Follows
  <2> QED BY <2>11, <2>13, <2>14, <2>15, <2>17
<1> QED BY <1>1, <1>2
----------------------------------------------------------------------------
(***************************************************************************)
(* The whole switch on the message type.                                   *)
(***************************************************************************)
\* A message of the feed, whatever it is.
LEMMA MessageFollows ==
  ASSUME IInv, NEW m \in FeedMessages, m.type # "Malformed", NEW u \in Seq(Items)
  PROVE  /\ Translate(tr, m).out \in Seq(Messages)
         /\ Follows(u \o Translate(tr, m).out, u, Translate(tr, m).orders, tr, NextBound(m), nextRef)
<1>1. nextRef \in Nat /\ Below(tr, nextRef)
  BY DEF IInv
<1>2. Shares \subseteq Nat \ {0}
  BY Itch50Assumption
<1>3. CASE m \in [type: {"Add"}, ref: Fresh, side: ItchSides, price: Prices, qty: Shares]
  <2> DEFINE o == [side |-> m.side, price |-> m.price, qty |-> m.qty]
  <2>1. o \in Known
    BY <1>2, <1>3 DEF Known
  <2>2. m.ref = nextRef /\ m.type = "Add"
    BY <1>3 DEF Fresh
  <2>3. Translate(tr, m) = OnAdd(tr, nextRef, o) /\ NextBound(m) = nextRef + 1
    BY <2>2 DEF Translate, NextBound
  <2> HIDE DEF o
  <2>4. /\ OnAdd(tr, nextRef, o).out \in Seq(Messages)
        /\ Follows(u \o OnAdd(tr, nextRef, o).out, u, OnAdd(tr, nextRef, o).orders, tr, nextRef + 1, nextRef)
    BY <1>1, <2>1, AddFollows
  <2> QED BY <2>3, <2>4, Zenon
<1>4. CASE m \in [type: {"Reduce"}, ref: Given, qty: Shares]
  <2>1. m.type = "Reduce" /\ m.qty \in Nat
    BY <1>2, <1>4
  <2>2. Translate(tr, m) = OnReduce(tr, m.ref, m.qty) /\ NextBound(m) = nextRef
    BY <2>1 DEF Translate, NextBound
  <2>3. /\ OnReduce(tr, m.ref, m.qty).out \in Seq(Messages)
        /\ Follows(u \o OnReduce(tr, m.ref, m.qty).out, u, OnReduce(tr, m.ref, m.qty).orders, tr, nextRef, nextRef)
    BY <1>1, <2>1, ReduceFollows
  <2> QED BY <2>2, <2>3, Zenon
<1>5. CASE m \in [type: {"Delete"}, ref: Given]
  <2>1. m.type = "Delete"
    BY <1>5
  <2>2. Translate(tr, m) = OnDelete(tr, m.ref) /\ NextBound(m) = nextRef
    BY <2>1 DEF Translate, NextBound
  <2>3. /\ OnDelete(tr, m.ref).out \in Seq(Messages)
        /\ Follows(u \o OnDelete(tr, m.ref).out, u, OnDelete(tr, m.ref).orders, tr, nextRef, nextRef)
    BY <1>1, DeleteFollows
  <2> QED BY <2>2, <2>3, Zenon
<1>6. CASE m \in [type: {"Replace"}, ref: Given, nref: Fresh, price: Prices, qty: Shares]
  <2>1. m.type = "Replace" /\ m.nref = nextRef /\ m.qty \in Nat \ {0} /\ m.price \in Prices
    BY <1>2, <1>6 DEF Fresh
  <2>2. Translate(tr, m) = OnReplace(tr, m.ref, nextRef, m.qty, m.price) /\ NextBound(m) = nextRef + 1
    BY <2>1 DEF Translate, NextBound
  <2>3. /\ OnReplace(tr, m.ref, nextRef, m.qty, m.price).out \in Seq(Messages)
        /\ Follows(u \o OnReplace(tr, m.ref, nextRef, m.qty, m.price).out, u,
                   OnReplace(tr, m.ref, nextRef, m.qty, m.price).orders, tr, nextRef + 1, nextRef)
    BY <1>1, <2>1, ReplaceFollows
  <2> QED BY <2>2, <2>3, Zenon
<1> QED BY <1>3, <1>4, <1>5, <1>6 DEF FeedMessages, Decoded

\* The references stay references.
LEMMA MessageRefs ==
  ASSUME NEW m \in FeedMessages, m.type # "Malformed"
  PROVE  DOMAIN Translate(tr, m).orders \subseteq DOMAIN tr \cup Refs
<1>1. CASE m \in [type: {"Add"}, ref: Fresh, side: ItchSides, price: Prices, qty: Shares]
  <2>1. m.type = "Add" /\ m.ref \in Refs
    BY <1>1 DEF Fresh
  <2> QED BY <2>1 DEF Translate, OnAdd, With
<1>2. CASE m \in [type: {"Reduce"}, ref: Given, qty: Shares]
  <2>1. m.type = "Reduce"
    BY <1>2
  <2>2. Translate(tr, m) = OnReduce(tr, m.ref, m.qty)
    BY <2>1 DEF Translate
  <2>3. DOMAIN OnReduce(tr, m.ref, m.qty).orders \subseteq DOMAIN tr
    BY DEF OnReduce, Unknown, Without, Restrict
  <2> QED BY <2>2, <2>3
<1>3. CASE m \in [type: {"Delete"}, ref: Given]
  <2>1. m.type = "Delete"
    BY <1>3
  <2> QED BY <2>1 DEF Translate, OnDelete, Unknown, Without, Restrict
<1>4. CASE m \in [type: {"Replace"}, ref: Given, nref: Fresh, price: Prices, qty: Shares]
  <2>1. m.type = "Replace" /\ m.nref \in Refs
    BY <1>4 DEF Fresh
  <2>2. Translate(tr, m) = OnReplace(tr, m.ref, m.nref, m.qty, m.price)
    BY <2>1 DEF Translate
  <2>3. DOMAIN OnReplace(tr, m.ref, m.nref, m.qty, m.price).orders \subseteq DOMAIN tr \cup {m.nref}
    BY DEF OnReplace, Unknown, Without, Restrict, With
  <2> QED BY <2>1, <2>2, <2>3
<1> QED BY <1>1, <1>2, <1>3, <1>4 DEF FeedMessages, Decoded

\* crossed() looks at the levels, and they are those of the orders.
LEMMA CrossedOrders ==
  ASSUME NEW b, NEW n \in Nat, Aggregated(b), Below(b.orders, n), ~Crossed(b)
  PROVE  NotCrossed(b.orders)
<1> DEFINE O == b.orders
<1>1. SUFFICES ASSUME NEW r \in DOMAIN O, NEW q \in DOMAIN O, O[r].side = "B", O[q].side = "S"
               PROVE  O[r].price < O[q].price
  BY DEF NotCrossed
<1>2. DOMAIN b.levels["B"] = Occupied(O, "B") /\ DOMAIN b.levels["S"] = Occupied(O, "S")
  BY LevelKept DEF ItchSides
<1>3. O[r].price \in Occupied(O, "B") /\ O[q].price \in Occupied(O, "S")
  BY <1>1 DEF Occupied
<1>4. ~(O[r].price >= O[q].price)
  BY <1>2, <1>3 DEF Crossed
<1>5. O[r].price \in Nat /\ O[q].price \in Nat
  BY Itch50Assumption DEF Below, Known
<1> QED BY <1>4, <1>5
----------------------------------------------------------------------------
(***************************************************************************)
(* The parts of the trail, and what passes from one to the next.           *)
(***************************************************************************)
\* The order in hand, what is under way, and the trail of a state.
Holding(e) == IF e.at = "match" THEN <<Entry(e.order)>> ELSE <<>>
Pending == Holding(engine) \o (inbound \o out)
Trail == Resting(book) \o Pending

\* A sequence is its first element and the rest.
LEMMA FirstAndRest ==
  ASSUME NEW S, NEW s \in Seq(S), s # <<>>
  PROVE  s = <<Head(s)>> \o Tail(s)
<1>1. Len(s) \in Nat \ {0}
  BY EmptySeq
<1>2. SubSeq(s, 1, Len(s)) = <<s[1]>> \o SubSeq(s, 2, Len(s))
  <2>1. 1 \in 1..Len(s) /\ Len(s) \in 1..Len(s)
    BY <1>1
  <2>2. SubSeq(s, 1, Len(s)) = <<s[1]>> \o SubSeq(s, 1 + 1, Len(s))
    BY <2>1, SubSeqRecursiveFirst
  <2> QED BY <2>2
<1>3. SubSeq(s, 1, Len(s)) = s /\ Tail(s) = SubSeq(s, 2, Len(s))
  BY SubSeqFull, TailIsSubSeq
<1>4. Head(s) = s[1]
  BY <1>1
<1> QED BY <1>2, <1>3, <1>4

\* An item before the rest.
LEMMA ItemBefore ==
  ASSUME NEW m \in Items, NEW R \in Seq(Items), NEW P, P = <<m>> \o R
  PROVE  P \in Seq(Items) /\ P # <<>> /\ P[1] = m /\ Shorter(R, P)
<1>1. <<m>> \in Seq(Items) /\ Len(<<m>>) = 1 /\ <<m>>[1] = m
  OBVIOUS
<1>2. Len(R) \in Nat /\ DOMAIN R = 1..Len(R)
  BY LenProperties
<1>3. /\ P \in Seq(Items) /\ Len(P) = 1 + Len(R)
      /\ \A i \in 1..(1 + Len(R)) : P[i] = IF i <= 1 THEN <<m>>[i] ELSE R[i - 1]
  BY <1>1, ConcatProperties
<1>4. DOMAIN P = 1..(1 + Len(R))
  BY <1>3, LenProperties
<1>5. P # <<>>
  BY <1>2, <1>3
<1>6. P[1] = m
  BY <1>1, <1>2, <1>3
<1>7. \A k \in DOMAIN R : k + 1 \in DOMAIN P /\ R[k] = P[k + 1]
  <2> TAKE k \in DOMAIN R
  <2>1. k \in Nat /\ k + 1 \in 1..(1 + Len(R)) /\ ~(k + 1 <= 1) /\ (k + 1) - 1 = k
    BY <1>2
  <2> QED BY <1>3, <1>4, <2>1
<1> QED BY <1>2, <1>3, <1>5, <1>6, <1>7 DEF Shorter

\* The first of t goes to the end of s.
LEMMA HandedOver ==
  ASSUME NEW s \in Seq(Items), NEW t \in Seq(Items), t # <<>>
  PROVE  Append(s, Head(t)) \o Tail(t) = s \o t
<1>1. Head(t) \in Items /\ Tail(t) \in Seq(Items)
  BY HeadTailProperties
<1>2. <<Head(t)>> \in Seq(Items)
  BY <1>1
<1>3. Append(s, Head(t)) = s \o <<Head(t)>>
  BY <1>1, AppendIsConcat
<1>4. (s \o <<Head(t)>>) \o Tail(t) = s \o (<<Head(t)>> \o Tail(t))
  BY <1>1, <1>2, ConcatAssociative
<1>5. t = <<Head(t)>> \o Tail(t)
  BY FirstAndRest
<1> QED BY <1>3, <1>4, <1>5, Zenon

\* The head of s before the rest of s and t.
LEMMA TakenOut ==
  ASSUME NEW s \in Seq(Items), NEW t \in Seq(Items), s # <<>>
  PROVE  s \o t = <<Head(s)>> \o (Tail(s) \o t)
<1>1. Head(s) \in Items /\ Tail(s) \in Seq(Items)
  BY HeadTailProperties
<1>2. <<Head(s)>> \in Seq(Items)
  BY <1>1
<1>4. (<<Head(s)>> \o Tail(s)) \o t = <<Head(s)>> \o (Tail(s) \o t)
  BY <1>1, <1>2, ConcatAssociative
<1>5. s = <<Head(s)>> \o Tail(s)
  BY FirstAndRest
<1> QED BY <1>4, <1>5, Zenon

\* An order as a message is an item.
LEMMA EntryItem ==
  ASSUME NEW o \in EngineOrders
  PROVE  Entry(o) \in Items
BY DEF Entry, Items, EngineOrders, MessageTypes

\* An order that comes to rest stays where it is on the trail.
LEMMA RestedTrail ==
  ASSUME NEW a \in Seq(EngineOrders), NEW o \in EngineOrders, NEW R \in Seq(Items), NEW b, b = Append(a, o)
  PROVE  b \in Seq(EngineOrders) /\ Len(b) = Len(a) + 1 /\ Resting(b) \o R = Resting(a) \o (<<Entry(o)>> \o R)
<1>1. /\ Append(a, o) \in Seq(EngineOrders) /\ Len(Append(a, o)) = Len(a) + 1
      /\ \A j \in 1..Len(a) : Append(a, o)[j] = a[j]
      /\ Append(a, o)[Len(a) + 1] = o
  BY AppendProperties
<1>2. /\ b \in Seq(EngineOrders) /\ Len(b) = Len(a) + 1
      /\ \A j \in 1..Len(a) : b[j] = a[j]
      /\ b[Len(a) + 1] = o
  BY <1>1, Zenon
<1>3. DOMAIN b = 1..(Len(a) + 1) /\ DOMAIN a = 1..Len(a) /\ Len(a) \in Nat
  BY <1>2, LenProperties
<1>4. PICK x, y, e : x = Resting(a) /\ y = Resting(b) /\ e = Entry(o)
  OBVIOUS
<1>5. x \in Seq(Items) /\ y \in Seq(Items) /\ e \in Items /\ Len(x) = Len(a) /\ Len(y) = Len(a) + 1
  BY <1>2, <1>4, RestingItems, EntryItem
<1>6. /\ \A j \in 1..Len(a) : x[j] = Entry(a[j])
      /\ \A j \in 1..(Len(a) + 1) : y[j] = Entry(b[j])
  BY <1>3, <1>4 DEF Resting
<1>7. PICK z : z = Append(x, e)
  OBVIOUS
<1>8. /\ Append(x, e) \in Seq(Items) /\ Len(Append(x, e)) = Len(x) + 1
      /\ \A j \in 1..Len(x) : Append(x, e)[j] = x[j]
      /\ Append(x, e)[Len(x) + 1] = e
  BY <1>5, AppendProperties
<1>9. /\ z \in Seq(Items) /\ Len(z) = Len(x) + 1
      /\ \A j \in 1..Len(x) : z[j] = x[j]
      /\ z[Len(x) + 1] = e
  BY <1>7, <1>8, Zenon
<1>10. \A j \in 1..(Len(a) + 1) : y[j] = z[j]
  <2> TAKE j \in 1..(Len(a) + 1)
  <2>1. CASE j \in 1..Len(a)
    BY <1>2, <1>5, <1>6, <1>9, <2>1
  <2>2. CASE j = Len(a) + 1
    BY <1>2, <1>4, <1>5, <1>6, <1>9, <2>2
  <2> QED BY <1>3, <2>1, <2>2
<1>11. y = z
  <2>1. Len(y) = Len(z) /\ \A j \in 1..Len(y) : y[j] = z[j]
    BY <1>5, <1>9, <1>10
  <2> QED BY <1>5, <1>9, <2>1, SeqEqual
<1>12. z = x \o <<e>>
  BY <1>5, <1>7, AppendIsConcat
<1>13. <<e>> \in Seq(Items)
  BY <1>5
<1>14. (x \o <<e>>) \o R = x \o (<<e>> \o R)
  BY <1>5, <1>13, ConcatAssociative
<1>15. y \o R = x \o (<<e>> \o R)
  BY <1>11, <1>12, <1>14
<1> QED BY <1>2, <1>4, <1>15

\* A new order in hand is the message.
LEMMA InHandEntry ==
  ASSUME NEW m \in Messages
  PROVE  /\ InHand(m) \in [at: {"pop", "match"}, order: EngineOrders]
         /\ m.msg_type = "NewOrder" => InHand(m).at = "match" /\ Entry(InHand(m).order) = m
         /\ m.msg_type # "NewOrder" => InHand(m) = Polling /\ InHand(m).at = "pop"
<1>1. m \in Items
  BY MessagesAreItems
<1>2. m.order_id \in Nat /\ m.price \in Nat /\ m.qty \in Nat /\ m.side \in BookSides
  BY <1>1 DEF Items
<1>3. Polling \in [at: {"pop", "match"}, order: EngineOrders] /\ Polling.at = "pop"
  BY DEF Polling, NoOrder, EngineOrders, BookSides
<1>4. CASE m.msg_type = "NewOrder"
  <2>1. PICK o : o = [id |-> m.order_id, side |-> m.side, price |-> m.price, qty |-> m.qty]
    OBVIOUS
  <2>2. o \in EngineOrders
    BY <1>2, <2>1 DEF EngineOrders
  <2>3. InHand(m) = [at |-> "match", order |-> o]
    BY <1>4, <2>1 DEF InHand
  <2>4. InHand(m).at = "match" /\ InHand(m).order = o /\ InHand(m) \in [at: {"pop", "match"}, order: EngineOrders]
    BY <2>2, <2>3
  <2>5. Entry(o) = m
    <3>1. o.id = m.order_id /\ o.side = m.side /\ o.price = m.price /\ o.qty = m.qty
      BY <2>1
    <3>2. m = [msg_type |-> m.msg_type, order_id |-> m.order_id, price |-> m.price, qty |-> m.qty, side |-> m.side]
      BY <1>1 DEF Items
    <3> QED BY <1>4, <3>1, <3>2 DEF Entry
  <2> QED BY <1>4, <2>4, <2>5
<1>5. CASE m.msg_type # "NewOrder"
  BY <1>3, <1>5 DEF InHand
<1> QED BY <1>4, <1>5
----------------------------------------------------------------------------
(***************************************************************************)
(* Types.                                                                  *)
(***************************************************************************)
\* The engine's thread.
Thread == [at: {"pop", "match"}, order: EngineOrders]

\* What the reader keeps; the feed gives out at most one reference with a message.
ReaderTyped ==
  /\ mode \in Modes
  /\ reader \in [at: {"read", "wait", "join", "done"}, count: 0..MaxMsgs]
  /\ nextRef \in Nat /\ 1 <= nextRef /\ nextRef <= reader.count + 1
  /\ DOMAIN tr \subseteq Refs
  /\ out \in Seq(Messages)
  /\ exit \in -1..4

\* The flags.
FlagsTyped ==
  /\ target \in BOOLEAN /\ started \in BOOLEAN /\ exceeded \in BOOLEAN /\ crossed \in BOOLEAN
  /\ overflowed \in BOOLEAN /\ lost \in BOOLEAN /\ timedOut \in BOOLEAN

\* The queue and the book are within their bounds.
EngineTyped ==
  /\ inbound \in Seq(Messages) /\ Len(inbound) <= InboundBound
  /\ book \in Seq(EngineOrders) /\ Len(book) <= kMaxOrders
  /\ engine \in Thread
  /\ sent \in Nat /\ processed \in Nat

Typed == ReaderTyped /\ FlagsTyped /\ EngineTyped

\* A cancel or a modify leaves a book, and no longer one.
LEMMA AmendedBook ==
  ASSUME NEW a \in Seq(EngineOrders), NEW m \in Messages, NEW b, b = Amended(a, m)
  PROVE  b \in Seq(EngineOrders) /\ Len(b) <= Len(a)
<1>0. Len(a) \in Nat
  BY LenProperties
<1>1. PICK id, q : id = m.order_id /\ q = m.qty
  OBVIOUS
<1>2. CASE m.msg_type = "NewOrder"
  BY <1>0, <1>2 DEF Amended
<1>3. CASE m.msg_type = "CancelOrder"
  <2>1. b = CancelOrder(a, id)
    BY <1>1, <1>3 DEF Amended
  <2>2. CASE PositionsOf(a, id) = {}
    BY <1>0, <2>1, <2>2 DEF CancelOrder
  <2>3. CASE PositionsOf(a, id) # {}
    <3>1. PICK i : i = CHOOSE j \in PositionsOf(a, id) : TRUE
      OBVIOUS
    <3>2. i \in DOMAIN a
      BY <2>3, <3>1 DEF PositionsOf
    <3>3. b = RemoveAt(a, i)
      BY <2>1, <2>3, <3>1 DEF CancelOrder
    <3>4. b \in Seq(EngineOrders) /\ Len(b) = Len(a) - 1
      BY <3>2, <3>3, OneLess
    <3> QED BY <1>0, <3>4
  <2> QED BY <2>2, <2>3
<1>4. CASE m.msg_type = "ModifyOrder"
  <2>1. b = ModifyOrder(a, id, q)
    BY <1>1, <1>4 DEF Amended
  <2>0. q \in Nat /\ q # 0
    BY <1>1, <1>4 DEF Messages
  <2>2. CASE PositionsOf(a, id) = {}
    BY <1>0, <2>1, <2>2 DEF ModifyOrder
  <2>3. CASE PositionsOf(a, id) # {}
    <3>1. PICK i : i = CHOOSE j \in PositionsOf(a, id) : TRUE
      OBVIOUS
    <3>2. i \in DOMAIN a
      BY <2>3, <3>1 DEF PositionsOf
    <3>3. b = Append(RemoveAt(a, i), [a[i] EXCEPT !.qty = q]) \/ b = [a EXCEPT ![i].qty = q]
      BY <2>0, <2>1, <2>3, <3>1 DEF ModifyOrder
    <3>4. b \in Seq(EngineOrders) /\ Len(b) = Len(a)
      BY <2>0, <3>2, <3>3, OneChanged, OneMoved
    <3> QED BY <1>0, <3>4
  <2> QED BY <2>2, <2>3
<1> QED BY <1>2, <1>3, <1>4 DEF Messages, MessageTypes

\* An engine step and a sending step leave what the reader keeps alone.
LEMMA ReaderAlone ==
  ASSUME ReaderTyped, UNCHANGED <<mode, reader, nextRef, tr>>, out' \in Seq(Messages), exit' \in -1..4
  PROVE  ReaderTyped'
BY DEF ReaderTyped

\* A reading step leaves the engine alone.
LEMMA EngineAlone ==
  ASSUME EngineTyped, UNCHANGED <<engineVars, inbound, sent>>
  PROVE  EngineTyped'
BY DEF EngineTyped, engineVars

\* submit() accepts.
LEMMA SendTyped ==
  ASSUME Typed, Send
  PROVE  Typed'
<1>1. out \in Seq(Messages) /\ out # <<>> /\ inbound \in Seq(Messages) /\ Len(inbound) < InboundBound
  BY DEF Typed, ReaderTyped, EngineTyped, Send
<1>2. Head(out) \in Messages /\ Tail(out) \in Seq(Messages)
  BY <1>1, HeadTailProperties
<1>3. inbound' = Append(inbound, Head(out)) /\ out' = Tail(out) /\ sent' = sent + 1
         /\ UNCHANGED <<engine, book, processed>>
  BY DEF Send, engineVars
<1>4. inbound' \in Seq(Messages) /\ Len(inbound') = Len(inbound) + 1
  BY <1>1, <1>2, <1>3, AppendProperties
<1>5. Len(inbound') <= InboundBound
  <2>1. InboundBound \in Nat /\ Len(inbound) \in Nat
    BY <1>1, ItchReplayAssumption, LenProperties
  <2> QED BY <1>1, <1>4, <2>1
<1>6. EngineTyped'
  BY <1>3, <1>4, <1>5 DEF Typed, EngineTyped
<1>7. ReaderTyped'
  <2>1. UNCHANGED <<mode, reader, nextRef, tr, exit>>
    BY DEF Send, feedVars
  <2>2. ReaderTyped /\ out' \in Seq(Messages) /\ exit' \in -1..4
    BY <1>2, <1>3, <2>1 DEF Typed, ReaderTyped
  <2> QED BY <2>1, <2>2, ReaderAlone
<1>8. FlagsTyped'
  <2>1. UNCHANGED <<target, started, exceeded, crossed, overflowed, lost, timedOut>>
    BY DEF Send, feedVars, engineVars
  <2> QED BY <2>1 DEF Typed, FlagsTyped
<1> QED BY <1>6, <1>7, <1>8 DEF Typed

\* submit() refuses.
LEMMA RefusedTyped ==
  ASSUME Typed, SendRefused
  PROVE  Typed'
<1>1. out \in Seq(Messages) /\ out # <<>> /\ exit = -1
  BY DEF Typed, ReaderTyped, SendRefused
<1>2. Tail(out) \in Seq(Messages)
  BY <1>1, HeadTailProperties
<1>3. EngineTyped'
  BY EngineAlone DEF Typed, SendRefused
<1>4. out' \in Seq(Messages) /\ exit' \in -1..4
  BY <1>1, <1>2 DEF SendRefused
<1>5. ReaderTyped'
  BY <1>4, ReaderAlone DEF Typed, SendRefused, feedVars
<1>6. FlagsTyped'
  BY DEF Typed, FlagsTyped, SendRefused, feedVars, engineVars
<1> QED BY <1>3, <1>5, <1>6 DEF Typed

\* stat_messages_ counts.
LEMMA CountMessageTyped ==
  ASSUME processed \in Nat, CountMessage
  PROVE  processed' \in Nat
BY DEF CountMessage

\* The engine takes a message.
LEMMA PopTyped ==
  ASSUME Typed, Pop
  PROVE  Typed'
<1>1. inbound \in Seq(Messages) /\ inbound # <<>> /\ Len(inbound) <= InboundBound
         /\ book \in Seq(EngineOrders) /\ Len(book) <= kMaxOrders
  BY DEF Typed, EngineTyped, Pop
<1>2. Head(inbound) \in Messages /\ Tail(inbound) \in Seq(Messages) /\ Len(Tail(inbound)) = Len(inbound) - 1
  BY <1>1, HeadTailProperties
<1>3. engine' \in Thread
  BY <1>2, InHandEntry DEF Pop, Thread
<1>4. book' \in Seq(EngineOrders) /\ Len(book') <= Len(book)
  BY <1>1, <1>2, AmendedBook DEF Pop
<1>5. Len(book') <= kMaxOrders
  <2>1. kMaxOrders \in Nat /\ Len(book) \in Nat /\ Len(book') \in Nat
    BY <1>1, <1>4, OrderBookAssumption, LenProperties
  <2> QED BY <1>1, <1>4, <2>1
<1>6. inbound' \in Seq(Messages) /\ Len(inbound') <= InboundBound
  <2>1. InboundBound \in Nat /\ Len(inbound) \in Nat
    BY <1>1, ItchReplayAssumption, LenProperties
  <2> QED BY <1>1, <1>2, <2>1 DEF Pop
<1>7. processed' \in Nat
  BY CountMessageTyped DEF Pop, Typed, EngineTyped
<1>8. EngineTyped'
  <2>1. sent' \in Nat
    BY DEF Pop, Typed, EngineTyped
  <2> QED BY <1>3, <1>4, <1>5, <1>6, <1>7, <2>1 DEF EngineTyped
<1>9. ReaderTyped'
  <2>1. UNCHANGED <<mode, reader, nextRef, tr, out, exit>>
    BY DEF Pop, feedVars
  <2> QED BY <2>1, ReaderAlone DEF Typed, ReaderTyped
<1>10. FlagsTyped'
  BY DEF Typed, FlagsTyped, Pop, feedVars
<1> QED BY <1>8, <1>9, <1>10 DEF Typed

\* The engine executes.
LEMMA ExecuteTyped ==
  ASSUME Typed, Execute
  PROVE  Typed'
<1>1. book \in Seq(EngineOrders) /\ Len(book) <= kMaxOrders /\ engine \in Thread
  BY DEF Typed, EngineTyped
<1>2. PICK i \in Best(book, engine.order) :
         /\ book' = Hit(book, engine.order, i)
         /\ engine' = [engine EXCEPT !.order.qty = @ - FillQty(book, engine.order, i)]
  BY DEF Execute
<1>3. i \in DOMAIN book
  BY <1>2 DEF Best, Opposite
<1>4. PICK o, f : o = engine.order /\ f = FillQty(book, o, i)
  OBVIOUS
<1>5. o \in EngineOrders
  BY <1>1, <1>4 DEF Thread
<1>6. f \in Nat /\ f <= o.qty /\ book' \in Seq(EngineOrders) /\ Len(book') <= Len(book)
  BY <1>1, <1>2, <1>3, <1>4, <1>5, HitTrades
<1>7. engine' \in Thread
  <2>1. o.qty \in Nat
    BY <1>5 DEF EngineOrders
  <2>2. o.qty - f \in Nat
    BY <1>6, <2>1
  <2>3. engine' = [engine EXCEPT !.order.qty = o.qty - f]
    BY <1>2, <1>4
  <2> QED BY <1>1, <2>2, <2>3 DEF Thread, EngineOrders
<1>8. Len(book') <= kMaxOrders
  <2>1. kMaxOrders \in Nat /\ Len(book) \in Nat /\ Len(book') \in Nat
    BY <1>1, <1>6, OrderBookAssumption, LenProperties
  <2> QED BY <1>1, <1>6, <2>1
<1>9. EngineTyped'
  BY <1>6, <1>7, <1>8 DEF Typed, EngineTyped, Execute
<1>10. ReaderTyped'
  <2>1. UNCHANGED <<mode, reader, nextRef, tr, out, exit>>
    BY DEF Execute, feedVars
  <2> QED BY <2>1, ReaderAlone DEF Typed, ReaderTyped
<1>11. FlagsTyped'
  BY DEF Typed, FlagsTyped, Execute, feedVars
<1> QED BY <1>9, <1>10, <1>11 DEF Typed

\* The engine rests or refuses an order.
LEMMA CountTyped ==
  ASSUME Typed, Count
  PROVE  Typed'
<1>1. book \in Seq(EngineOrders) /\ Len(book) <= kMaxOrders /\ engine \in Thread
  BY DEF Typed, EngineTyped
<1>2. engine.order \in EngineOrders
  BY <1>1 DEF Thread
<1>3. ASSUME engine.order.qty > 0 /\ Fits(book, engine.order)
      PROVE  book' \in Seq(EngineOrders) /\ Len(book') <= kMaxOrders
  <2>1. book' = Append(book, engine.order) /\ Len(book) < kMaxOrders
    BY <1>3 DEF Count, Rested, Fits
  <2>2. book' \in Seq(EngineOrders) /\ Len(book') = Len(book) + 1
    BY <1>1, <1>2, <2>1, AppendProperties
  <2>3. kMaxOrders \in Nat /\ Len(book) \in Nat
    BY <1>1, OrderBookAssumption, LenProperties
  <2>4. Len(book') <= kMaxOrders
    BY <2>1, <2>2, <2>3
  <2> QED BY <2>2, <2>4
<1>4. ASSUME ~(engine.order.qty > 0 /\ Fits(book, engine.order))
      PROVE  book' \in Seq(EngineOrders) /\ Len(book') <= kMaxOrders
  BY <1>1, <1>4 DEF Count, Rested
<1>5. engine' \in Thread
  BY DEF Count, Polling, NoOrder, Thread, EngineOrders, BookSides
<1>6. processed' \in Nat
  BY CountMessageTyped DEF Count, Typed, EngineTyped
<1>7. EngineTyped'
  <2>1. book' \in Seq(EngineOrders) /\ Len(book') <= kMaxOrders
    BY <1>3, <1>4
  <2> QED BY <1>5, <1>6, <2>1 DEF Typed, EngineTyped, Count
<1>8. ReaderTyped'
  <2>1. UNCHANGED <<mode, reader, nextRef, tr, out, exit>>
    BY DEF Count, feedVars
  <2> QED BY <2>1, ReaderAlone DEF Typed, ReaderTyped
<1>9. FlagsTyped'
  BY DEF Typed, FlagsTyped, Count, feedVars
<1> QED BY <1>7, <1>8, <1>9 DEF Typed

\* A message is counted, and at most one reference given out.
LEMMA CountedTyped ==
  ASSUME ReaderTyped, Reading, NEW m, Counted(m)
  PROVE  /\ reader' \in [at: {"read", "wait", "join", "done"}, count: 0..MaxMsgs]
         /\ reader'.at = reader.at
         /\ nextRef' \in Nat /\ 1 <= nextRef' /\ nextRef' <= reader'.count + 1
         /\ nextRef' = NextBound(m)
<1>1. reader.count \in Nat /\ reader.count < MaxMsgs /\ MaxMsgs \in Nat
         /\ reader.at \in {"read", "wait", "join", "done"}
  BY ItchReplayAssumption DEF ReaderTyped, Reading
<1>2. reader' = [at |-> reader.at, count |-> reader.count + 1]
  BY DEF ReaderTyped, Counted
<1>3. nextRef \in Nat /\ 1 <= nextRef /\ nextRef <= reader.count + 1
  BY DEF ReaderTyped
<1>4. nextRef' = nextRef \/ nextRef' = nextRef + 1
  BY DEF Counted
<1>5. reader'.count = reader.count + 1 /\ reader'.at = reader.at
  BY <1>2
<1>6. reader.count + 1 \in 0..MaxMsgs
  BY <1>1
<1>7. nextRef' \in Nat /\ 1 <= nextRef' /\ nextRef' <= reader'.count + 1
  BY <1>1, <1>3, <1>4, <1>5
<1>8. nextRef' = NextBound(m)
  BY DEF Counted, NextBound
<1> QED BY <1>1, <1>2, <1>5, <1>6, <1>7, <1>8

\* A snapshot can be sent.
LEMMA SnapshotMessages ==
  ASSUME IInv
  PROVE  Snapshot(tr) \in Seq(Messages) /\ ToSend(Snapshot(tr)) \in Seq(Messages)
<1>1. Snapshot(tr) \in Seq(Messages)
  BY SnapshotLists DEF IInv
<1>2. <<>> \in Seq(Messages)
  BY EmptySeq
<1> QED BY <1>1, <1>2 DEF ToSend

\* A book message in the replay.
LEMMA ReplayTyped ==
  ASSUME IInv, Typed, NEW m \in FeedMessages, NEW reached \in BOOLEAN, ReplayMessage(m, reached)
  PROVE  Typed'
<1>1. ReaderTyped /\ Reading /\ Counted(m)
  BY DEF Typed, ReplayMessage
<1>2. /\ reader' \in [at: {"read", "wait", "join", "done"}, count: 0..MaxMsgs]
      /\ nextRef' \in Nat /\ 1 <= nextRef' /\ nextRef' <= reader'.count + 1
  BY <1>1, CountedTyped
<1>3. EngineTyped'
  BY EngineAlone DEF Typed, ReplayMessage
<1>4. DOMAIN tr' \subseteq Refs
  <2>1. CASE m.type = "Malformed"
    BY <1>1, <2>1 DEF ReaderTyped, ReplayMessage
  <2>2. CASE m.type # "Malformed"
    BY <1>1, <2>2, MessageRefs DEF ReaderTyped, ReplayMessage
  <2> QED BY <2>1, <2>2
<1>5. out' \in Seq(Messages)
  <2>0. <<>> \in Seq(Messages)
    BY EmptySeq
  <2>1. PICK s : s = IF ~started /\ reached THEN Snapshot(tr) ELSE <<>>
    OBVIOUS
  <2>2. s \in Seq(Messages)
    BY <2>0, <2>1, SnapshotMessages
  <2>3. CASE m.type = "Malformed"
    BY <2>0, <2>1, <2>2, <2>3 DEF ReplayMessage, ToSend
  <2>4. CASE m.type # "Malformed"
    <3>1. Translate(tr, m).out \in Seq(Messages)
      <4>1. <<>> \in Seq(Items)
        BY EmptySeq
      <4> QED BY <2>4, <4>1, MessageFollows
    <3>2. PICK t : t = IF started \/ reached THEN Translate(tr, m).out ELSE <<>>
      OBVIOUS
    <3>3. t \in Seq(Messages)
      BY <2>0, <3>1, <3>2
    <3>4. s \o t \in Seq(Messages)
      BY <2>2, <3>3, ConcatProperties
    <3>5. out' = ToSend(s \o t)
      BY <2>1, <2>4, <3>2 DEF ReplayMessage
    <3> QED BY <2>0, <3>4, <3>5 DEF ToSend
  <2> QED BY <2>3, <2>4
<1>6. ReaderTyped'
  <2>1. mode' \in Modes /\ exit' \in -1..4
    BY <1>1 DEF ReaderTyped, ReplayMessage
  <2> QED BY <1>2, <1>4, <1>5, <2>1 DEF ReaderTyped
<1>7. FlagsTyped'
  <2>1. UNCHANGED <<target, overflowed, lost, timedOut>>
    BY DEF ReplayMessage, engineVars
  <2>2. started' \in BOOLEAN /\ crossed' \in BOOLEAN
    BY DEF ReplayMessage
  <2>3. exceeded' \in BOOLEAN
    <3>1. exceeded \in BOOLEAN
      BY DEF Typed, FlagsTyped
    <3>2. CASE m.type = "Malformed"
      BY <3>1, <3>2 DEF ReplayMessage
    <3>3. CASE m.type # "Malformed"
      BY <3>3 DEF ReplayMessage
    <3> QED BY <3>2, <3>3
  <2> QED BY <2>1, <2>2, <2>3 DEF Typed, FlagsTyped
<1> QED BY <1>3, <1>6, <1>7 DEF Typed

\* A message on the live path.
LEMMA LiveTyped ==
  ASSUME IInv, Typed, NEW m \in FeedMessages, LiveMessage(m)
  PROVE  Typed'
<1>1. ReaderTyped /\ Reading /\ Counted(m)
  BY DEF Typed, LiveMessage
<1>2. /\ reader' \in [at: {"read", "wait", "join", "done"}, count: 0..MaxMsgs]
      /\ nextRef' \in Nat /\ 1 <= nextRef' /\ nextRef' <= reader'.count + 1
  BY <1>1, CountedTyped
<1>3. EngineTyped'
  BY EngineAlone DEF Typed, LiveMessage
<1>4. DOMAIN tr' \subseteq Refs /\ out' \in Seq(Messages)
  <2>1. CASE m.type = "Malformed"
    BY <1>1, <2>1 DEF ReaderTyped, LiveMessage
  <2>2. CASE m.type # "Malformed"
    <3>1. <<>> \in Seq(Items)
      BY EmptySeq
    <3>2. Translate(tr, m).out \in Seq(Messages)
      BY <2>2, <3>1, MessageFollows
    <3> QED BY <1>1, <2>2, <3>2, MessageRefs DEF ReaderTyped, LiveMessage
  <2> QED BY <2>1, <2>2
<1>5. ReaderTyped'
  <2>1. mode' \in Modes /\ exit' \in -1..4
    BY <1>1 DEF ReaderTyped, LiveMessage
  <2> QED BY <1>2, <1>4, <2>1 DEF ReaderTyped
<1>6. FlagsTyped'
  BY DEF Typed, FlagsTyped, LiveMessage, engineVars
<1> QED BY <1>3, <1>5, <1>6 DEF Typed

\* A message of another symbol.
LEMMA SkipTyped ==
  ASSUME Typed, NEW m, SkipMessage(m)
  PROVE  Typed'
<1>1. ReaderTyped /\ Reading /\ Counted(m)
  BY DEF Typed, SkipMessage
<1>2. /\ reader' \in [at: {"read", "wait", "join", "done"}, count: 0..MaxMsgs]
      /\ nextRef' \in Nat /\ 1 <= nextRef' /\ nextRef' <= reader'.count + 1
  BY <1>1, CountedTyped
<1>3. EngineTyped'
  BY EngineAlone DEF Typed, SkipMessage
<1>4. ReaderTyped'
  BY <1>1, <1>2 DEF ReaderTyped, SkipMessage
<1>5. FlagsTyped'
  BY DEF Typed, FlagsTyped, SkipMessage, engineVars
<1> QED BY <1>3, <1>4, <1>5 DEF Typed

\* The steps that only move the reader on.
LEMMA OnwardTyped ==
  ASSUME IInv, Typed, ReadDirectory \/ EndOfFile \/ LiveEnds \/ WaitUntilDrained \/ Finish
  PROVE  Typed'
<1>1. EngineTyped'
  BY EngineAlone DEF Typed, ReadDirectory, EndOfFile, LiveEnds, WaitUntilDrained, Finish
<1>2. FlagsTyped'
  BY DEF Typed, FlagsTyped, ReadDirectory, EndOfFile, LiveEnds, WaitUntilDrained, Finish, engineVars
<1>3. \E a \in {"read", "wait", "join", "done"} : reader' = [reader EXCEPT !.at = a]
  <2>1. CASE ReadDirectory
    <3>1. reader' = [reader EXCEPT !.at = reader.at] /\ reader.at \in {"read", "wait", "join", "done"}
      BY <2>1 DEF ReadDirectory, Typed, ReaderTyped
    <3> QED BY <3>1
  <2> QED BY <2>1 DEF EndOfFile, LiveEnds, WaitUntilDrained, Finish
<1>4. UNCHANGED <<mode, nextRef, tr>>
  BY DEF ReadDirectory, EndOfFile, LiveEnds, WaitUntilDrained, Finish
<1>5. out' \in Seq(Messages)
  <2>1. CASE EndOfFile
    BY <2>1, SnapshotMessages, EmptySeq DEF EndOfFile
  <2> QED BY <2>1 DEF Typed, ReaderTyped, ReadDirectory, LiveEnds, WaitUntilDrained, Finish
<1>6. exit' \in -1..4
  <2>1. CASE Finish
    <3>1. exit' \in {0, 1, 3, 4}
      BY <2>1 DEF Finish
    <3> QED BY <3>1
  <2> QED BY <2>1 DEF Typed, ReaderTyped, ReadDirectory, EndOfFile, LiveEnds, WaitUntilDrained
<1>7. reader' \in [at: {"read", "wait", "join", "done"}, count: 0..MaxMsgs] /\ reader'.count = reader.count
  BY <1>3 DEF Typed, ReaderTyped
<1>8. ReaderTyped'
  BY <1>4, <1>5, <1>6, <1>7 DEF Typed, ReaderTyped
<1> QED BY <1>1, <1>2, <1>8 DEF Typed

\* Types are kept by every step.
LEMMA InductiveTyped == Spec => []Typed
<1>1. Init => Typed
  <2>1. SUFFICES ASSUME Init PROVE Typed
    OBVIOUS
  <2>2. EngineTyped
    <3>1. inbound = <<>> /\ book = <<>> /\ sent = 0 /\ processed = 0
      BY <2>1 DEF Init
    <3>2. <<>> \in Seq(Messages) /\ <<>> \in Seq(EngineOrders) /\ Len(<<>>) = 0
      BY EmptySeq
    <3>3. engine \in Thread
      BY <2>1 DEF Init, Polling, NoOrder, Thread, EngineOrders, BookSides
    <3>4. 0 <= InboundBound /\ 0 <= kMaxOrders
      BY ItchReplayAssumption, OrderBookAssumption
    <3> QED BY <3>1, <3>2, <3>3, <3>4 DEF EngineTyped
  <2>3. FlagsTyped
    BY <2>1 DEF Init, FlagsTyped
  <2>4. ReaderTyped
    <3>1. <<>> \in Seq(Messages)
      BY EmptySeq
    <3>2. DOMAIN tr \subseteq Refs
      BY <2>1 DEF Init
    <3>3. MaxMsgs \in Nat
      BY ItchReplayAssumption
    <3>4. reader \in [at: {"read", "wait", "join", "done"}, count: 0..MaxMsgs] /\ reader.count = 0
      BY <2>1, <3>3 DEF Init
    <3>5. nextRef = 1 /\ mode \in Modes /\ out = <<>> /\ exit = -1
      BY <2>1 DEF Init
    <3> QED BY <3>1, <3>2, <3>4, <3>5 DEF ReaderTyped
  <2> QED BY <2>2, <2>3, <2>4 DEF Typed
<1>2. ASSUME IInv, Typed, [Next]_vars
      PROVE  Typed'
  <2>1. CASE ReadMessage
    <3>1. PICK m \in FeedMessages :
            \/ SkipMessage(m)
            \/ \E reached \in BOOLEAN : ReplayMessage(m, reached)
            \/ LiveMessage(m)
      BY <2>1 DEF ReadMessage
    <3> QED BY <1>2, <3>1, SkipTyped, ReplayTyped, LiveTyped
  <2>2. CASE ReadDirectory \/ EndOfFile \/ LiveEnds \/ WaitUntilDrained \/ Finish
    BY <1>2, <2>2, OnwardTyped
  <2>3. CASE Send \/ SendRefused
    BY <1>2, <2>3, SendTyped, RefusedTyped
  <2>4. CASE Pop \/ Execute \/ Count
    BY <1>2, <2>4, PopTyped, ExecuteTyped, CountTyped
  <2>5. CASE Ended \/ UNCHANGED vars
    BY <1>2, <2>5 DEF Ended, vars, feedVars, engineVars, Typed, ReaderTyped, FlagsTyped, EngineTyped
  <2> QED BY <1>2, <2>1, <2>2, <2>3, <2>4, <2>5 DEF Next, Reader
<1> QED BY <1>1, <1>2, Inductive, PTL DEF Spec

\* Every variable keeps its type: the inbound queue and the book stay within
\* their bounds, and the feed gives out no reference for which it has no message.
THEOREM TypeCorrect == Spec => []TypeOK
<1>1. IInv /\ Typed => TypeOK
  <2>1. SUFFICES ASSUME IInv, Typed PROVE TypeOK
    OBVIOUS
  <2>2. \A r \in DOMAIN tr : tr[r] \in [side: ItchSides, price: Prices, qty: Nat]
    BY <2>1 DEF IInv, Below, Known
  <2>3. nextRef \in 1..(MaxMsgs + 1)
    <3>1. reader.count \in 0..MaxMsgs /\ MaxMsgs \in Nat
      BY <2>1, ItchReplayAssumption DEF Typed, ReaderTyped
    <3>2. nextRef \in Nat /\ 1 <= nextRef /\ nextRef <= reader.count + 1
      BY <2>1 DEF Typed, ReaderTyped
    <3> QED BY <3>1, <3>2
  <2>4. mode \in Modes /\ reader \in [at: {"read", "wait", "join", "done"}, count: 0..MaxMsgs]
           /\ DOMAIN tr \subseteq Refs /\ exit \in -1..4
    BY <2>1 DEF Typed, ReaderTyped
  <2>5. Len(inbound) <= InboundBound /\ Len(book) <= kMaxOrders /\ {sent, processed} \subseteq Nat
    BY <2>1 DEF Typed, EngineTyped
  <2>6. {target, started, exceeded, crossed, overflowed, lost, timedOut} \subseteq BOOLEAN
    BY <2>1 DEF Typed, FlagsTyped
  <2> QED BY <2>2, <2>3, <2>4, <2>5, <2>6 DEF TypeOK
<1> QED BY <1>1, Inductive, InductiveTyped, PTL
----------------------------------------------------------------------------
(***************************************************************************)
(* Where the messages are that were sent, and what the program has passed  *)
(* when it has come to its end.                                            *)
(***************************************************************************)
\* Messages that the engine has taken and not counted.
InEngine == IF engine.at = "match" THEN 1 ELSE 0

\* The engine has nothing to do.
Quiet == inbound = <<>> /\ engine.at = "pop"

\* Until the program joins the engine, sent messages are counted, queued or in
\* hand; after a drain that did not time out they are all counted.
Accounted ==
  /\ reader.at \in {"read", "wait"} => sent = processed + Len(inbound) + InEngine
  /\ reader.at \in {"join", "done"} /\ ~timedOut /\ mode # "live" => sent = processed /\ Quiet

\* The places of the reader and what is behind it there.
Staged ==
  /\ reader.at \in {"join", "done"} => out = <<>>
  /\ reader.at # "read" /\ mode # "live" /\ target => started
  /\ exit \in {0, 1} => reader.at = "done" /\ Quiet
  /\ mode # "live" => ~lost
  /\ mode = "live" => reader.at # "wait" /\ started
  /\ exit \in {0, 1} /\ mode # "live" => target

Progress == Accounted /\ Staged

\* A step that leaves the reader's place and the counters alone.
LEMMA ReadProgress ==
  ASSUME Typed, Progress, NEW m, SkipMessage(m) \/ LiveMessage(m)
        \/ (\E reached \in BOOLEAN : ReplayMessage(m, reached))
  PROVE  Progress'
<1>1. reader.at = "read" /\ Reading /\ Counted(m) /\ ReaderTyped
  BY DEF SkipMessage, LiveMessage, ReplayMessage, Reading, Typed
<1>2. reader'.at = "read"
  BY <1>1, CountedTyped
<1>3. UNCHANGED <<mode, sent, processed, inbound, engine, exit, lost, timedOut, target>>
  BY DEF SkipMessage, LiveMessage, ReplayMessage, engineVars
<1>4. started => started'
  BY DEF SkipMessage, LiveMessage, ReplayMessage
<1>5. Accounted'
  BY <1>1, <1>2, <1>3 DEF Progress, Accounted, InEngine
<1>6. Staged'
  BY <1>1, <1>2, <1>3, <1>4 DEF Progress, Staged
<1> QED BY <1>5, <1>6 DEF Progress

\* submit() accepts.
LEMMA SendProgress ==
  ASSUME Typed, Progress, Send
  PROVE  Progress'
<1>1. out # <<>> /\ exit = -1 /\ reader.at \in {"read", "wait", "join", "done"}
  BY DEF Send, Typed, ReaderTyped
<1>2. reader.at \in {"read", "wait"}
  BY <1>1 DEF Progress, Staged
<1>3. UNCHANGED <<mode, reader, target, started, engine, processed, exit, lost, timedOut>>
  BY DEF Send, feedVars, engineVars
<1>4. Len(inbound') = Len(inbound) + 1 /\ sent' = sent + 1
  <2>1. out \in Seq(Messages) /\ inbound \in Seq(Messages)
    BY DEF Typed, ReaderTyped, EngineTyped
  <2>2. Head(out) \in Messages
    BY <1>1, <2>1, HeadTailProperties
  <2> QED BY <2>1, <2>2, AppendProperties DEF Send
<1>5. Accounted'
  <2>1. sent = processed + Len(inbound) + InEngine /\ InEngine' = InEngine
    BY <1>2, <1>3 DEF Progress, Accounted, InEngine
  <2>2. processed \in Nat /\ Len(inbound) \in Nat /\ InEngine \in Nat
    BY LenProperties DEF Typed, EngineTyped, InEngine
  <2>3. sent' = processed' + Len(inbound') + InEngine'
    BY <1>3, <1>4, <2>1, <2>2
  <2> QED BY <1>2, <1>3, <2>3 DEF Accounted
<1>6. Staged'
  BY <1>1, <1>2, <1>3 DEF Progress, Staged
<1> QED BY <1>5, <1>6 DEF Progress

\* submit() refuses: the replay gives up, the live path loses the message.
LEMMA RefusedProgress ==
  ASSUME Typed, Progress, SendRefused
  PROVE  Progress'
<1>1. out # <<>> /\ exit = -1 /\ reader.at \in {"read", "wait", "join", "done"}
  BY DEF SendRefused, Typed, ReaderTyped
<1>2. reader.at \in {"read", "wait"}
  BY <1>1 DEF Progress, Staged
<1>3. UNCHANGED <<mode, reader, target, started, engine, processed, inbound, sent, timedOut>>
  BY DEF SendRefused, feedVars, engineVars
<1>4. (exit' = -1 \/ exit' = 2) /\ (mode # "live" => lost' = lost)
  BY <1>1 DEF SendRefused
<1>5. Accounted'
  BY <1>2, <1>3 DEF Progress, Accounted, InEngine
<1>6. Staged'
  BY <1>2, <1>3, <1>4 DEF Progress, Staged
<1> QED BY <1>5, <1>6 DEF Progress

\* The engine is done with a message, or takes one.
LEMMA EngineProgress ==
  ASSUME Typed, Progress, exit = -1, ~Quiet,
         UNCHANGED <<mode, feedVars, out, sent, exit, lost, timedOut>>,
         reader.at \in {"read", "wait"} => processed + Len(inbound) + InEngine = processed' + Len(inbound') + InEngine'
  PROVE  Progress'
<1>1. UNCHANGED <<reader, target, started>>
  BY DEF feedVars
<1>2. Accounted'
  BY <1>1 DEF Progress, Accounted
<1>3. Staged'
  BY <1>1 DEF Progress, Staged
<1> QED BY <1>2, <1>3 DEF Progress

\* The engine takes a message.
LEMMA PopProgress ==
  ASSUME Typed, Progress, Pop
  PROVE  Progress'
<1>1. inbound # <<>> /\ engine.at = "pop" /\ exit = -1 /\ UNCHANGED <<mode, feedVars, out, sent, exit, lost, timedOut>>
  BY DEF Pop
<1>2. inbound \in Seq(Messages) /\ Len(inbound) \in Nat /\ processed \in Nat
  BY LenProperties DEF Typed, EngineTyped
<1>3. Len(inbound') = Len(inbound) - 1 /\ Head(inbound) \in Messages
  BY <1>1, <1>2, HeadTailProperties DEF Pop
<1>4. engine'.at \in {"pop", "match"}
  <2>1. engine' \in Thread
    BY PopTyped DEF Typed, EngineTyped
  <2> QED BY <2>1 DEF Thread
<1>5. ASSUME reader.at \in {"read", "wait"} PROVE processed' = IF engine'.at = "pop" THEN processed + 1 ELSE processed
  BY <1>5 DEF Pop, CountMessage
<1>6. ASSUME reader.at \in {"read", "wait"}
      PROVE processed + Len(inbound) + InEngine = processed' + Len(inbound') + InEngine'
  <2>1. CASE engine'.at = "pop"
    <3>1. InEngine = 0 /\ InEngine' = 0 /\ processed' = processed + 1
      BY <1>1, <1>5, <1>6, <2>1 DEF InEngine
    <3> QED BY <1>2, <1>3, <3>1
  <2>2. CASE engine'.at = "match"
    <3>1. InEngine = 0 /\ InEngine' = 1 /\ processed' = processed
      BY <1>1, <1>5, <1>6, <2>2 DEF InEngine
    <3> QED BY <1>2, <1>3, <3>1
  <2> QED BY <1>4, <2>1, <2>2
<1>7. ~Quiet
  BY <1>1 DEF Quiet
<1> QED BY <1>1, <1>6, <1>7, EngineProgress

\* The engine executes, rests or refuses.
LEMMA MatchProgress ==
  ASSUME Typed, Progress, Execute \/ Count
  PROVE  Progress'
<1>1. /\ engine.at = "match" /\ exit = -1 /\ inbound' = inbound
      /\ UNCHANGED <<mode, feedVars, out, sent, exit, lost, timedOut>>
  BY DEF Execute, Count
<1>2. Len(inbound) \in Nat /\ processed \in Nat
  BY LenProperties DEF Typed, EngineTyped
<1>3. ASSUME reader.at \in {"read", "wait"}
      PROVE processed + Len(inbound) + InEngine = processed' + Len(inbound') + InEngine'
  <2>1. CASE Execute
    <3>1. engine'.at = "match" /\ processed' = processed
      BY <1>1, <2>1 DEF Execute, Typed, EngineTyped, Thread
    <3> QED BY <1>1, <3>1 DEF InEngine
  <2>2. CASE Count
    <3>1. processed' = processed + 1 /\ InEngine = 1 /\ InEngine' = 0
      BY <1>1, <1>3, <2>2 DEF Count, CountMessage, InEngine, Polling
    <3> QED BY <1>1, <1>2, <3>1
  <2> QED BY <2>1, <2>2
<1>4. ~Quiet
  BY <1>1 DEF Quiet
<1> QED BY <1>1, <1>3, <1>4, EngineProgress

\* The reader goes on: wait_until_drained() ends with an idle engine or at its
\* deadline.
LEMMA OnwardProgress ==
  ASSUME Typed, Progress, ReadDirectory \/ EndOfFile \/ LiveEnds \/ WaitUntilDrained \/ Finish
  PROVE  Progress'
<1>1. UNCHANGED <<mode, engine, processed, inbound, sent, lost>>
  BY DEF ReadDirectory, EndOfFile, LiveEnds, WaitUntilDrained, Finish, engineVars
<1>2. reader \in [at: {"read", "wait", "join", "done"}, count: 0..MaxMsgs]
  BY DEF Typed, ReaderTyped
<1>3. InEngine' = InEngine /\ (Quiet' <=> Quiet)
  BY <1>1 DEF InEngine, Quiet
<1>4. CASE ReadDirectory
  <2>1. reader' = reader /\ reader.at = "read" /\ UNCHANGED <<started, out, exit, timedOut>>
           /\ target' = TRUE /\ mode # "live"
    BY <1>4 DEF ReadDirectory
  <2>2. Accounted'
    BY <1>1, <1>3, <2>1 DEF Progress, Accounted
  <2>3. Staged'
    BY <1>1, <1>3, <2>1 DEF Progress, Staged
  <2> QED BY <2>2, <2>3 DEF Progress
<1>5. CASE EndOfFile
  <2>1. reader.at = "read" /\ reader'.at = "wait" /\ started' = (started \/ target)
           /\ UNCHANGED <<target, exit, timedOut>> /\ mode # "live"
    BY <1>2, <1>5 DEF EndOfFile
  <2>2. Accounted'
    BY <1>1, <1>3, <2>1 DEF Progress, Accounted
  <2>3. Staged'
    BY <1>1, <1>3, <2>1 DEF Progress, Staged
  <2> QED BY <2>2, <2>3 DEF Progress
<1>6. CASE LiveEnds
  <2>1. reader.at = "read" /\ reader'.at = "join" /\ UNCHANGED <<started, target, exit, timedOut, out>>
           /\ mode = "live" /\ out = <<>>
    BY <1>2, <1>6 DEF LiveEnds
  <2>2. Accounted'
    BY <1>1, <1>3, <2>1 DEF Progress, Accounted
  <2>3. Staged'
    BY <1>1, <1>3, <2>1 DEF Progress, Staged
  <2> QED BY <2>2, <2>3 DEF Progress
<1>7. CASE WaitUntilDrained
  <2>1. reader.at = "wait" /\ reader'.at = "join" /\ UNCHANGED <<started, target, exit, out>> /\ out = <<>> /\ exit = -1
    BY <1>2, <1>7 DEF WaitUntilDrained
  <2>2. Accounted'
    <3>1. CASE timedOut' = TRUE
      BY <2>1, <3>1 DEF Accounted
    <3>2. CASE processed >= sent
      <4>1. sent = processed + Len(inbound) + InEngine
        BY <2>1 DEF Progress, Accounted
      <4>2. processed \in Nat /\ Len(inbound) \in Nat /\ InEngine \in {0, 1} /\ inbound \in Seq(Messages)
        BY LenProperties DEF Typed, EngineTyped, InEngine
      <4>3. sent = processed /\ Len(inbound) = 0 /\ InEngine = 0
        BY <3>2, <4>1, <4>2
      <4>4. inbound = <<>>
        BY <4>2, <4>3, EmptySeq
      <4>5. engine.at \in {"pop", "match"}
        BY DEF Typed, EngineTyped, Thread
      <4>6. Quiet
        BY <4>3, <4>4, <4>5 DEF Quiet, InEngine
      <4> QED BY <1>1, <1>3, <2>1, <4>3, <4>6 DEF Accounted
    <3> QED BY <1>7, <3>1, <3>2 DEF WaitUntilDrained
  <2>3. Staged'
    BY <1>1, <1>3, <2>1 DEF Progress, Staged
  <2> QED BY <2>2, <2>3 DEF Progress
<1>8. CASE Finish
  <2>1. reader.at = "join" /\ reader'.at = "done" /\ UNCHANGED <<started, target, timedOut, out>> /\ Quiet
    BY <1>2, <1>8 DEF Finish, Quiet
  <2>2. Accounted'
    BY <1>1, <1>3, <2>1 DEF Progress, Accounted
  <2>3. exit' \in {0, 1} /\ mode # "live" => target
    BY <1>8 DEF Finish
  <2>4. Staged'
    BY <1>1, <1>3, <2>1, <2>3 DEF Progress, Staged
  <2> QED BY <2>2, <2>4 DEF Progress
<1> QED BY <1>4, <1>5, <1>6, <1>7, <1>8

\* Kept by every step.
LEMMA InductiveProgress == Spec => []Progress
<1>1. Init => Progress
  <2>1. SUFFICES ASSUME Init PROVE Progress
    OBVIOUS
  <2>2. reader.at = "read" /\ sent = 0 /\ processed = 0 /\ inbound = <<>> /\ exit = -1 /\ lost = FALSE
           /\ engine.at = "pop"
    BY <2>1 DEF Init, Polling
  <2>3. Len(<<>>) = 0
    BY EmptySeq
  <2>4. Accounted
    BY <2>2, <2>3 DEF Accounted, InEngine
  <2>5. Staged
    <3>1. mode = "live" => started
      BY <2>1 DEF Init
    <3>2. exit \notin {0, 1}
      BY <2>2
    <3> QED BY <2>2, <3>1, <3>2 DEF Staged
  <2> QED BY <2>4, <2>5 DEF Progress
<1>2. ASSUME Typed, Progress, [Next]_vars
      PROVE  Progress'
  <2>1. CASE ReadMessage
    BY <1>2, <2>1, ReadProgress DEF ReadMessage
  <2>2. CASE ReadDirectory \/ EndOfFile \/ LiveEnds \/ WaitUntilDrained \/ Finish
    BY <1>2, <2>2, OnwardProgress
  <2>3. CASE Send \/ SendRefused
    BY <1>2, <2>3, SendProgress, RefusedProgress
  <2>4. CASE Pop \/ Execute \/ Count
    BY <1>2, <2>4, PopProgress, MatchProgress
  <2>5. CASE Ended \/ UNCHANGED vars
    BY <1>2, <2>5 DEF Ended, vars, feedVars, engineVars, Progress, Accounted, Staged, Quiet, InEngine
  <2> QED BY <1>2, <2>1, <2>2, <2>3, <2>4, <2>5 DEF Next, Reader
<1> QED BY <1>1, <1>2, InductiveTyped, PTL DEF Spec
----------------------------------------------------------------------------
(***************************************************************************)
(* The trail, in every state.                                              *)
(***************************************************************************)
\* The engine is told of the feed.
Feeding == started /\ mode # "no_engine"

\* The invariant: the trail is faithful to the feed unless a message was lost,
\* exact unless the book was crossed, and complete unless an order was refused.
Traced ==
  /\ ~lost => Faithful(Trail, tr, nextRef)
  /\ ~lost /\ ~crossed => Exact(Trail, tr)
  /\ ~lost /\ ~crossed /\ ~overflowed /\ Feeding => Tells(Trail, tr)
  /\ ~Feeding => Trail = <<>>

\* The parts of a trail make a trail.
LEMMA TrailOfParts ==
  ASSUME NEW e \in Thread, NEW i \in Seq(Messages), NEW o \in Seq(Messages), NEW b \in Seq(EngineOrders),
         NEW P, P = Holding(e) \o (i \o o), NEW T, T = Resting(b) \o P
  PROVE  /\ i \in Seq(Items) /\ o \in Seq(Items) /\ i \o o \in Seq(Items) /\ Holding(e) \in Seq(Items)
         /\ P \in Seq(Items) /\ T \in Seq(Items) /\ Begins(T, b, P) /\ Resting(b) \in Seq(Items)
<1>1. i \in Seq(Items) /\ o \in Seq(Items)
  BY MessagesAreItems
<1>2. PICK r : r = i \o o
  OBVIOUS
<1>3. r \in Seq(Items)
  BY <1>1, <1>2, ConcatProperties
<1>4. Holding(e) \in Seq(Items)
  <2>1. e.order \in EngineOrders
    BY DEF Thread
  <2>2. Entry(e.order) \in Items
    BY <2>1, EntryItem
  <2>3. <<Entry(e.order)>> \in Seq(Items) /\ <<>> \in Seq(Items)
    BY <2>2
  <2> QED BY <2>3 DEF Holding
<1>5. P \in Seq(Items)
  BY <1>2, <1>3, <1>4, ConcatProperties
<1>6. T \in Seq(Items) /\ Begins(T, b, P)
  BY <1>5, TrailBegins
<1>7. Resting(b) \in Seq(Items)
  BY RestingItems
<1> QED BY <1>1, <1>2, <1>3, <1>4, <1>5, <1>6, <1>7

\* The trail of a state, and of the next one.
LEMMA TrailItems ==
  ASSUME Typed
  PROVE  /\ inbound \in Seq(Items) /\ out \in Seq(Items) /\ inbound \o out \in Seq(Items)
        /\ Holding(engine) \in Seq(Items)
         /\ Pending \in Seq(Items) /\ Trail \in Seq(Items) /\ Begins(Trail, book, Pending)
               /\ Resting(book) \in Seq(Items)
BY TrailOfParts DEF Typed, ReaderTyped, EngineTyped, Pending, Trail

\* The same after a step.
LEMMA NextTrailItems ==
  ASSUME Typed'
  PROVE  /\ inbound' \in Seq(Items) /\ out' \in Seq(Items) /\ inbound' \o out' \in Seq(Items)
        /\ Holding(engine') \in Seq(Items)
         /\ Pending' \in Seq(Items) /\ Trail' \in Seq(Items) /\ Begins(Trail', book', Pending')
               /\ Resting(book') \in Seq(Items)
<1>1. engine' \in Thread /\ inbound' \in Seq(Messages) /\ out' \in Seq(Messages) /\ book' \in Seq(EngineOrders)
  BY DEF Typed, ReaderTyped, EngineTyped
<1>2. PICK e, i, o, b : e = engine' /\ i = inbound' /\ o = out' /\ b = book'
  OBVIOUS
<1>3. PICK P, T : P = Pending' /\ T = Trail'
  OBVIOUS
<1>4. P = Holding(e) \o (i \o o) /\ T = Resting(b) \o P
  BY <1>2, <1>3 DEF Pending, Trail, Holding
<1>5. e \in Thread /\ i \in Seq(Messages) /\ o \in Seq(Messages) /\ b \in Seq(EngineOrders)
  BY <1>1, <1>2
<1>6. /\ i \in Seq(Items) /\ o \in Seq(Items) /\ i \o o \in Seq(Items) /\ Holding(e) \in Seq(Items)
      /\ P \in Seq(Items) /\ T \in Seq(Items) /\ Begins(T, b, P) /\ Resting(b) \in Seq(Items)
  BY <1>4, <1>5, TrailOfParts
<1> QED BY <1>2, <1>3, <1>6

\* Nothing is under way from the reader to the engine that is not on the trail.
LEMMA UnchangedTrail ==
  ASSUME Typed, Traced, Trail' = Trail, tr' = tr, nextRef' = nextRef \/ nextRef' = nextRef + 1,
         ~lost' => ~lost, ~crossed' => ~crossed, ~overflowed' => ~overflowed, Feeding' <=> Feeding
  PROVE  Traced'
<1>1. Trail \in Seq(Items) /\ nextRef \in Nat
  BY TrailItems DEF Typed, ReaderTyped
<1>2. Faithful(Trail, tr, nextRef) => Faithful(Trail, tr, nextRef')
  <2>1. Faithful(Trail, tr, nextRef) => Faithful(Trail, tr, nextRef + 1)
    BY <1>1, LaterBound DEF Follows
  <2> QED BY <2>1
<1>3. ~lost' => Faithful(Trail', tr', nextRef')
  BY <1>2 DEF Traced
<1>4. ~lost' /\ ~crossed' => Exact(Trail', tr')
  BY DEF Traced
<1>5. ~lost' /\ ~crossed' /\ ~overflowed' /\ Feeding' => Tells(Trail', tr')
  BY DEF Traced
<1>6. ~Feeding' => Trail' = <<>>
  BY DEF Traced
<1> QED BY <1>3, <1>4, <1>5, <1>6 DEF Traced

\* What the engine does to the trail.
ThinsTrail(g, p) ==
  /\ Thinned(Trail', Trail, g, p)
  /\ ~lost /\ ~crossed => Untraded(Trail', Trail, g, p)
  /\ ~lost /\ ~crossed /\ ~overflowed' =>
       \A i \in DOMAIN Trail : IsNew(Trail, i) /\ Trail[i].order_id \in DOMAIN tr => \E k \in DOMAIN Trail' : g[k] = i

\* A step of the engine that thins the trail out.
LEMMA ThinnedTrail ==
  ASSUME IInv, Typed, Typed', Traced, NEW p \in Nat, \E g : ThinsTrail(g, p), Trail # <<>>,
         UNCHANGED <<tr, nextRef, lost, crossed, mode, started>>, ~overflowed' => ~overflowed
  PROVE  Traced'
<1>1. Trail \in Seq(Items) /\ Trail' \in Seq(Items)
  BY TrailItems, NextTrailItems
<1>2. nextRef \in Nat /\ Below(tr, nextRef)
  BY DEF IInv
<1>3. PICK g : ThinsTrail(g, p)
  OBVIOUS
<1>4. Thinned(Trail', Trail, g, p)
  BY <1>3 DEF ThinsTrail
<1>5. Feeding /\ (Feeding' <=> Feeding)
  BY DEF Traced, Feeding
<1>6. ASSUME ~lost' PROVE Faithful(Trail', tr', nextRef')
  <2>1. Faithful(Trail, tr, nextRef)
    BY <1>6 DEF Traced
  <2>2. Faithful(Trail', tr, nextRef)
    BY <1>1, <1>2, <1>4, <2>1, ThinnedFaithful
  <2> QED BY <2>2
<1>7. ASSUME ~lost', ~crossed' PROVE Exact(Trail', tr')
  <2>1. Exact(Trail, tr) /\ Untraded(Trail', Trail, g, p)
    BY <1>3, <1>7 DEF Traced, ThinsTrail
  <2>2. Exact(Trail', tr)
    BY <1>1, <1>4, <2>1, ThinnedExact
  <2> QED BY <2>2
<1>8. ASSUME ~lost', ~crossed', ~overflowed' PROVE Tells(Trail', tr')
  <2>1. Tells(Trail, tr)
    BY <1>5, <1>8 DEF Traced
  <2>2. \A i \in DOMAIN Trail : IsNew(Trail, i) /\ Trail[i].order_id \in DOMAIN tr => \E k \in DOMAIN Trail' : g[k] = i
    BY <1>3, <1>8 DEF ThinsTrail
  <2>3. Tells(Trail', tr)
    BY <1>4, <2>1, <2>2, ThinnedTells
  <2> QED BY <2>3
<1> QED BY <1>5, <1>6, <1>7, <1>8 DEF Traced

\* submit() accepts: the trail is as before.
LEMMA SendTraced ==
  ASSUME Typed, Traced, Send
  PROVE  Traced'
<1>1. inbound \in Seq(Items) /\ out \in Seq(Items) /\ out # <<>>
  BY TrailItems DEF Send
<1>2. inbound' \o out' = inbound \o out
  BY <1>1, HandedOver DEF Send
<1>3. UNCHANGED <<engine, book, tr, nextRef, lost, crossed, overflowed, mode, started>>
  BY DEF Send, feedVars, engineVars
<1>4. Trail' = Trail
  BY <1>2, <1>3 DEF Trail, Pending, Holding
<1> QED BY <1>3, <1>4, UnchangedTrail DEF Feeding

\* submit() refuses.
LEMMA RefusedTraced ==
  ASSUME Typed, Progress, Traced, SendRefused
  PROVE  Traced'
<1>1. UNCHANGED <<engine, book, inbound, tr, nextRef, crossed, overflowed, mode, started>>
  BY DEF SendRefused, feedVars, engineVars
<1>2. CASE mode = "live"
  <2>1. lost' = TRUE
    BY <1>2 DEF SendRefused
  <2>2. Feeding'
    BY <1>1, <1>2 DEF Feeding, Progress, Staged
  <2> QED BY <2>1, <2>2 DEF Traced
<1>3. CASE mode # "live"
  <2>1. out' = out /\ lost' = lost
    BY <1>3 DEF SendRefused
  <2>2. Trail' = Trail
    BY <1>1, <2>1 DEF Trail, Pending, Holding
  <2> QED BY <1>1, <2>1, <2>2, UnchangedTrail DEF Feeding
<1> QED BY <1>2, <1>3
----------------------------------------------------------------------------
(***************************************************************************)
(* What the engine does to the trail of a state.                           *)
(***************************************************************************)
\* What is not in the book is the next item, and what is behind it.
LEMMA BehindBook ==
  ASSUME Typed, NEW m, NEW R \in Seq(Items), m \in Items, Pending = <<m>> \o R
  PROVE  /\ Pending # <<>> /\ Pending[1] = m /\ Shorter(R, Pending) /\ Trail # <<>>
         /\ Len(book) \in Nat /\ Len(book) + 1 \in DOMAIN Trail /\ Trail[Len(book) + 1] = m
         /\ \A i \in DOMAIN book : i \in DOMAIN Trail /\ i < Len(book) + 1 /\ Trail[i] = Entry(book[i])
               /\ IsNew(Trail, i)
<1>1. Pending # <<>> /\ Pending[1] = m /\ Shorter(R, Pending)
  BY ItemBefore
<1>2. Begins(Trail, book, Pending) /\ Pending \in Seq(Items) /\ Trail \in Seq(Items) /\ book \in Seq(EngineOrders)
  BY TrailItems DEF Typed, EngineTyped
<1>3. /\ Len(book) \in Nat /\ Len(book) + 1 \in DOMAIN Trail /\ Trail[Len(book) + 1] = m
      /\ \A i \in DOMAIN book : i \in DOMAIN Trail /\ i < Len(book) + 1 /\ Trail[i] = Entry(book[i]) /\ IsNew(Trail, i)
  BY <1>1, <1>2, TrailPlaces
<1>4. Trail # <<>>
  BY <1>3
<1> QED BY <1>1, <1>3, <1>4

\* The message that the engine takes is the next item of the trail.
LEMMA NextToPop ==
  ASSUME Typed, Pop
  PROVE  /\ Pending = <<Head(inbound)>> \o (Tail(inbound) \o out)
         /\ Tail(inbound) \o out \in Seq(Items) /\ Head(inbound) \in Messages /\ Head(inbound) \in Items
<1>1. engine.at = "pop" /\ inbound # <<>> /\ inbound \in Seq(Items) /\ out \in Seq(Items)
         /\ inbound \in Seq(Messages) /\ inbound \o out \in Seq(Items)
  BY TrailItems DEF Pop, Typed, EngineTyped
<1>2. Head(inbound) \in Messages /\ Head(inbound) \in Items /\ Tail(inbound) \in Seq(Items)
  BY <1>1, HeadTailProperties
<1>3. Tail(inbound) \o out \in Seq(Items)
  BY <1>1, <1>2, ConcatProperties
<1>4. inbound \o out = <<Head(inbound)>> \o (Tail(inbound) \o out)
  BY <1>1, TakenOut
<1>5. Holding(engine) = <<>>
  BY <1>1 DEF Holding
<1>6. <<>> \o (inbound \o out) = inbound \o out
  BY <1>1, ConcatEmptySeq
<1> QED BY <1>2, <1>3, <1>4, <1>5, <1>6 DEF Pending

\* The engine takes a new order: the trail is as before.
LEMMA PopNewTraced ==
  ASSUME Typed, Traced, Pop, Head(inbound).msg_type = "NewOrder"
  PROVE  Traced'
<1>1. /\ Pending = <<Head(inbound)>> \o (Tail(inbound) \o out)
      /\ Head(inbound) \in Messages
  BY NextToPop
<1>2. engine'.at = "match" /\ Entry(engine'.order) = Head(inbound)
  BY <1>1, InHandEntry DEF Pop
<1>3. Holding(engine)' = <<Head(inbound)>>
  BY <1>2 DEF Holding
<1>4. book' = book
  BY DEF Pop, Amended
<1>5. inbound' = Tail(inbound) /\ UNCHANGED <<out, tr, nextRef, lost, crossed, overflowed, mode, started>>
  BY DEF Pop, feedVars
<1>6. Trail' = Trail
  BY <1>1, <1>3, <1>4, <1>5 DEF Trail, Pending
<1> QED BY <1>5, <1>6, UnchangedTrail DEF Feeding

\* No id rests twice.
LEMMA BookIdsDistinct ==
  ASSUME Typed, Traced, ~lost
  PROVE  Distinct(book)
<1>1. Faithful(Trail, tr, nextRef)
  BY DEF Traced
<1>2. Begins(Trail, book, Pending) /\ Pending \in Seq(Items) /\ book \in Seq(EngineOrders)
  BY TrailItems DEF Typed, EngineTyped
<1> QED BY <1>1, <1>2, BookDistinct

\* Once a message is lost nothing more is said.
LEMMA LostTraced ==
  ASSUME Typed, Traced, lost, lost' = lost, UNCHANGED <<mode, started>>, Trail # <<>>
  PROVE  Traced'
BY DEF Traced, Feeding

\* The engine takes a cancel or a modify and carries it out.
LEMMA PopAmendTraced ==
  ASSUME IInv, Typed, Typed', Traced, Pop, Head(inbound).msg_type # "NewOrder"
  PROVE  Traced'
<1>0. PICK m, R : m = Head(inbound) /\ R = Tail(inbound) \o out
  OBVIOUS
<1>1. Pending = <<m>> \o R /\ m \in Messages /\ m \in Items /\ R \in Seq(Items)
  BY <1>0, NextToPop
<1>2. /\ Pending # <<>> /\ Pending[1] = m /\ Shorter(R, Pending) /\ Trail # <<>>
      /\ Len(book) \in Nat /\ Len(book) + 1 \in DOMAIN Trail /\ Trail[Len(book) + 1] = m
  BY <1>1, BehindBook
<1>3. UNCHANGED <<out, tr, nextRef, lost, crossed, overflowed, mode, started>> /\ inbound' = Tail(inbound)
  BY DEF Pop, feedVars
<1>4. engine'.at = "pop"
  BY <1>0, <1>1, InHandEntry DEF Pop
<1>5. Pending' = R
  <2>1. Holding(engine)' = <<>>
    BY <1>4 DEF Holding
  <2>2. <<>> \o R = R
    BY <1>1, ConcatEmptySeq
  <2> QED BY <1>0, <1>3, <2>1, <2>2 DEF Pending
<1>6. CASE lost
  BY <1>2, <1>3, <1>6, LostTraced
<1>7. CASE ~lost
  <2>1. Distinct(book) /\ Faithful(Trail, tr, nextRef)
    BY <1>7, BookIdsDistinct DEF Traced
  <2>2. /\ Pending \in Seq(Items) /\ Trail \in Seq(Items) /\ Begins(Trail, book, Pending) /\ book \in Seq(EngineOrders)
    BY TrailItems DEF Typed, EngineTyped
  <2>3. Begins(Trail', book', R)
    BY <1>5, NextTrailItems
  <2>4. \E g : CarriedOut(Trail', Trail, g, Len(book) + 1, m.order_id)
           /\ (~lost /\ ~crossed => Untraded(Trail', Trail, g, Len(book) + 1))
    <3>0. PICK P, u, v, b, id : P = Pending /\ u = Trail /\ v = Trail' /\ b = book' /\ id = m.order_id
      OBVIOUS
    <3>1. CASE m.msg_type = "CancelOrder"
      <4>1. book' = CancelOrder(book, m.order_id)
        BY <1>0, <3>1 DEF Pop, Amended
      <4>2. \E g : CarriedOut(v, u, g, Len(book) + 1, P[1].order_id) /\ Untraded(v, u, g, Len(book) + 1)
        BY <1>1, <1>2, <2>1, <2>2, <2>3, <3>0, <3>1, <4>1, CancelThins
      <4> QED BY <1>2, <3>0, <4>2
    <3>2. CASE m.msg_type = "ModifyOrder"
      <4>1. book' = ModifyOrder(book, m.order_id, m.qty)
        BY <1>0, <3>2 DEF Pop, Amended
      <4>2. m.qty \in Nat \ {0}
        BY <1>1, <3>2 DEF Messages
      <4>3. \E g : /\ CarriedOut(v, u, g, Len(book) + 1, P[1].order_id)
                   /\ \A O : Exact(u, O) => Untraded(v, u, g, Len(book) + 1)
        BY <1>1, <1>2, <2>1, <2>2, <2>3, <3>0, <3>2, <4>1, <4>2, ModifyThins
      <4>4. ~lost /\ ~crossed => Exact(u, tr)
        BY <3>0 DEF Traced
      <4> QED BY <1>2, <3>0, <4>3, <4>4
    <3> QED BY <1>0, <1>1, <3>1, <3>2 DEF Messages, MessageTypes
  <2>5. PICK g : CarriedOut(Trail', Trail, g, Len(book) + 1, m.order_id)
           /\ (~lost /\ ~crossed => Untraded(Trail', Trail, g, Len(book) + 1))
    BY <2>4
  <2>6. ASSUME NEW i \in DOMAIN Trail, IsNew(Trail, i), Trail[i].order_id \in DOMAIN tr
        PROVE  \E k \in DOMAIN Trail' : g[k] = i
    <3>1. m.msg_type = "CancelOrder" => m.order_id \notin DOMAIN tr
      BY <1>2, <2>1 DEF Faithful, Gone
    <3>2. Trail[Len(book) + 1].msg_type = "CancelOrder" => Trail[i].order_id # m.order_id
      BY <1>2, <2>6, <3>1
    <3> QED BY <2>5, <2>6, <3>2 DEF CarriedOut
  <2>7. ThinsTrail(g, Len(book) + 1)
    BY <2>5, <2>6 DEF ThinsTrail, CarriedOut
  <2>8. Len(book) + 1 \in Nat
    BY <1>2
  <2> QED BY <1>2, <1>3, <2>7, <2>8, ThinnedTrail
<1> QED BY <1>6, <1>7

\* The order in hand is the next item of the trail.
LEMMA NextInHand ==
  ASSUME Typed, engine.at = "match"
  PROVE  /\ engine.order \in EngineOrders /\ Entry(engine.order) \in Items
         /\ inbound \o out \in Seq(Items) /\ Pending = <<Entry(engine.order)>> \o (inbound \o out)
<1>1. engine.order \in EngineOrders
  BY DEF Typed, EngineTyped, Thread
<1>2. Entry(engine.order) \in Items
  BY <1>1, EntryItem
<1>3. inbound \o out \in Seq(Items)
  BY TrailItems
<1> QED BY <1>1, <1>2, <1>3 DEF Pending, Holding

\* While the book has never been crossed nothing executes: an order that would
\* meet one in the book would come behind its cancel.
LEMMA NothingMeets ==
  ASSUME Typed, Traced, ~lost, ~crossed, engine.at = "match"
  PROVE  Best(book, engine.order) = {}
<1>1. SUFFICES ASSUME NEW i \in Best(book, engine.order) PROVE FALSE
  OBVIOUS
<1>2. PICK o : o = engine.order
  OBVIOUS
<1>3. i \in DOMAIN book /\ book[i].side = Other(o.side) /\ AsGood(o.side, o.price, book[i].price)
  BY <1>2 DEF Best, Opposite
<1>4. PICK z : z = Len(book) + 1
  OBVIOUS
<1>5. /\ z \in Nat /\ z \in DOMAIN Trail /\ Trail[z] = Entry(o) /\ Len(book) \in Nat
      /\ \A j \in DOMAIN book : j \in DOMAIN Trail /\ j < z /\ Trail[j] = Entry(book[j]) /\ IsNew(Trail, j)
  <2>1. PICK m, R : m = Entry(o) /\ R = inbound \o out
    OBVIOUS
  <2>2. m \in Items /\ R \in Seq(Items) /\ Pending = <<m>> \o R
    BY <1>2, <2>1, NextInHand
  <2>3. /\ Len(book) \in Nat /\ Len(book) + 1 \in DOMAIN Trail /\ Trail[Len(book) + 1] = m
        /\ \A j \in DOMAIN book : j \in DOMAIN Trail /\ j < Len(book) + 1 /\ Trail[j] = Entry(book[j])
              /\ IsNew(Trail, j)
    BY <2>2, BehindBook
  <2>4. Len(book) + 1 \in Nat
    BY <2>3
  <2> QED BY <1>4, <2>1, <2>3, <2>4
<1>6. Meet(Trail[i], Trail[z])
  BY <1>3, <1>5, EntryFields DEF Meet
<1>7. IsNew(Trail, i) /\ IsNew(Trail, z) /\ i < z
  BY <1>3, <1>5, EntryFields DEF IsNew
<1>8. PICK l \in DOMAIN Trail : i < l /\ l < z /\ Cancels(Trail, l, Trail[i].order_id)
  <2>1. Apart(Trail)
    BY DEF Traced, Exact
  <2> QED BY <1>3, <1>5, <1>6, <1>7, <2>1 DEF Apart
<1>9. l \in DOMAIN book
  <2>1. Trail \in Seq(Items) /\ book \in Seq(EngineOrders)
    BY TrailItems DEF Typed, EngineTyped
  <2>2. DOMAIN book = 1..Len(book) /\ l \in Nat /\ l > 0
    BY <2>1, LenProperties
  <2> QED BY <1>4, <1>5, <1>8, <2>2
<1> QED BY <1>5, <1>8, <1>9 DEF IsNew, Cancels

\* The engine executes.
LEMMA ExecuteTraced ==
  ASSUME IInv, Typed, Typed', Traced, Execute
  PROVE  Traced'
<1>1. engine.at = "match" /\ engine \in Thread /\ book \in Seq(EngineOrders)
  BY DEF Execute, Typed, EngineTyped
<1>2. PICK i \in Best(book, engine.order) :
         /\ book' = Hit(book, engine.order, i)
         /\ engine' = [engine EXCEPT !.order.qty = @ - FillQty(book, engine.order, i)]
  BY DEF Execute
<1>3. i \in DOMAIN book
  BY <1>2 DEF Best, Opposite
<1>4. PICK o, o2, R, f : o = engine.order /\ o2 = engine'.order /\ R = inbound \o out /\ f = FillQty(book, o, i)
  OBVIOUS
<1>5. o \in EngineOrders /\ Entry(o) \in Items /\ R \in Seq(Items) /\ Pending = <<Entry(o)>> \o R
  BY <1>1, <1>4, NextInHand
<1>6. f \in Nat /\ f <= o.qty /\ book' \in Seq(EngineOrders) /\ \E h : Trades(book', book, h)
  BY <1>1, <1>2, <1>3, <1>4, <1>5, HitTrades
<1>7. o2 \in EngineOrders /\ o2.id = o.id /\ o2.side = o.side /\ o2.price = o.price /\ o2.qty = o.qty - f
         /\ engine'.at = "match"
  <2>1. engine' = [engine EXCEPT !.order.qty = engine.order.qty - f]
    BY <1>2, <1>4
  <2>2. engine' \in Thread
    BY DEF Typed, EngineTyped
  <2> QED BY <1>1, <1>4, <2>1, <2>2 DEF Thread, EngineOrders
<1>8. o2.qty <= o.qty
  <2>1. o.qty \in Nat
    BY <1>5 DEF EngineOrders
  <2> QED BY <1>6, <1>7, <2>1
<1>9. UNCHANGED <<inbound, out, tr, nextRef, lost, crossed, overflowed, mode, started>>
  BY DEF Execute, feedVars
<1>10. Pending' = <<Entry(o2)>> \o R /\ Entry(o2) \in Items
  <2>1. Holding(engine)' = <<Entry(o2)>>
    BY <1>4, <1>7 DEF Holding
  <2> QED BY <1>4, <1>7, <1>9, <2>1, EntryItem DEF Pending
<1>11. Trail # <<>> /\ Pending # <<>> /\ Pending[1] = Entry(o) /\ Shorter(R, Pending)
  BY <1>5, BehindBook
<1>12. PICK P, Q, u, v, b : P = Pending /\ Q = Pending' /\ u = Trail /\ v = Trail' /\ b = book'
  OBVIOUS
<1>13. Q \in Seq(Items) /\ Q # <<>> /\ Q[1] = Entry(o2) /\ Shorter(R, Q)
  BY <1>5, <1>10, <1>12, ItemBefore
<1>14. /\ P \in Seq(Items) /\ u \in Seq(Items) /\ Begins(u, book, P) /\ Begins(v, b, Q)
  BY <1>12, TrailItems, NextTrailItems
<1>15. Len(Q) = Len(P) /\ DOMAIN Q = 1..Len(Q) /\ DOMAIN P = 1..Len(P) /\ Len(R) \in Nat
          /\ Len(P) = Len(R) + 1 /\ DOMAIN R = 1..Len(R)
  BY <1>5, <1>11, <1>12, <1>13, <1>14, LenProperties DEF Shorter
<1>16. ASSUME NEW k \in DOMAIN Q PROVE Alike(Q[k], P[k]) /\ Q[k].qty <= P[k].qty
  <2>1. CASE k = 1
    BY <1>7, <1>8, <1>11, <1>12, <1>13, <2>1, EntryFields DEF Alike
  <2>2. CASE k # 1
    <3>1. PICK j \in DOMAIN R : k = j + 1
      <4>1. k - 1 \in DOMAIN R /\ k = (k - 1) + 1
        BY <1>15, <2>2
      <4> QED BY <4>1
    <3>2. Q[k] = R[j] /\ P[k] = R[j]
      BY <1>11, <1>12, <1>13, <3>1 DEF Shorter
    <3>3. R[j].qty \in Nat
      BY <1>5, ItemTypes
    <3> QED BY <3>2, <3>3 DEF Alike
  <2> QED BY <2>1, <2>2
<1>17. \E g : Thinned(v, u, g, 0)
  <2>1. P # <<>> /\ P[1].msg_type = "NewOrder" /\ b \in Seq(EngineOrders) /\ \E h : Trades(b, book, h)
    BY <1>6, <1>11, <1>12, EntryFields
  <2> QED BY <1>1, <1>13, <1>14, <1>15, <1>16, <2>1, ExecutionThins
<1>18. ~(~lost /\ ~crossed)
  BY <1>1, <1>2, NothingMeets
<1>19. \E g : ThinsTrail(g, 0)
  BY <1>12, <1>17, <1>18 DEF ThinsTrail
<1> QED BY <1>9, <1>11, <1>19, ThinnedTrail

\* The engine rests the order in hand, and the trail is as before, or refuses it.
LEMMA CountTraced ==
  ASSUME IInv, Typed, Typed', Traced, Count
  PROVE  Traced'
<1>1. engine.at = "match" /\ book \in Seq(EngineOrders)
  BY DEF Count, Typed, EngineTyped
<1>2. PICK o, R : o = engine.order /\ R = inbound \o out
  OBVIOUS
<1>3. o \in EngineOrders /\ Entry(o) \in Items /\ R \in Seq(Items) /\ Pending = <<Entry(o)>> \o R
  BY <1>1, <1>2, NextInHand
<1>4. UNCHANGED <<inbound, out, tr, nextRef, lost, crossed, mode, started>> /\ (~overflowed' => ~overflowed)
  BY DEF Count, feedVars
<1>5. Pending' = R
  <2>1. Holding(engine)' = <<>>
    BY DEF Count, Polling, Holding
  <2>2. <<>> \o R = R
    BY <1>3, ConcatEmptySeq
  <2> QED BY <1>2, <1>4, <2>1, <2>2 DEF Pending
<1>6. CASE o.qty > 0 /\ Fits(book, o)
  <2>1. book' = Append(book, o)
    BY <1>2, <1>6 DEF Count, Rested
  <2>2. Resting(book') \o R = Resting(book) \o (<<Entry(o)>> \o R)
    BY <1>1, <1>3, <2>1, RestedTrail
  <2>3. Trail' = Resting(book') \o R
    BY <1>5 DEF Trail, Resting
  <2>4. Trail = Resting(book) \o (<<Entry(o)>> \o R)
    BY <1>3 DEF Trail
  <2>5. Trail' = Trail
    BY <2>2, <2>3, <2>4
  <2> QED BY <1>4, <2>5, UnchangedTrail DEF Feeding
<1>7. CASE ~(o.qty > 0 /\ Fits(book, o))
  <2>1. book' = book
    BY <1>2, <1>7 DEF Count, Rested
  <2>2. /\ Trail # <<>> /\ Pending # <<>> /\ Pending[1] = Entry(o) /\ Shorter(R, Pending)
        /\ Len(book) + 1 \in DOMAIN Trail /\ Trail[Len(book) + 1] = Entry(o)
    BY <1>3, BehindBook
  <2>3. PICK P, u, v : P = Pending /\ u = Trail /\ v = Trail'
    OBVIOUS
  <2>4. P \in Seq(Items) /\ u \in Seq(Items) /\ Begins(u, book, P) /\ Begins(v, book, R)
    BY <1>5, <2>1, <2>3, TrailItems, NextTrailItems
  <2>5. P[1].msg_type = "NewOrder" /\ P # <<>> /\ Shorter(R, P)
    BY <2>2, <2>3, EntryFields
  <2>6. PICK g : Thinned(v, u, g, 0) /\ Untraded(v, u, g, 0)
    BY <1>1, <1>3, <2>4, <2>5, RefusalThins
  <2>7. ASSUME ~lost, ~crossed, ~overflowed' PROVE FALSE
    <3>1. Shrinking(Trail, tr)
      BY <2>7 DEF Traced, Exact
    <3>2. Sizes(Trail, Len(book) + 1)
      BY <2>2, EntryFields DEF Sizes
    <3>3. Trail[Len(book) + 1].qty > 0
      BY <2>2, <3>1, <3>2 DEF Shrinking
    <3>4. o.qty > 0
      BY <2>2, <3>3, EntryFields
    <3>5. ~Fits(book, o)
      BY <1>7, <3>4
    <3>6. overflowed'
      BY <1>2, <3>4, <3>5 DEF Count
    <3> QED BY <2>7, <3>6
  <2>8. ThinsTrail(g, 0)
    BY <2>3, <2>6, <2>7 DEF ThinsTrail
  <2> QED BY <1>4, <2>2, <2>8, ThinnedTrail
<1> QED BY <1>6, <1>7
----------------------------------------------------------------------------
(***************************************************************************)
(* What the reader adds to it.                                             *)
(***************************************************************************)
\* What the reader has to send goes to the end of the trail.
LEMMA GrownTrail ==
  ASSUME Typed, out = <<>>, out' \in Seq(Messages), UNCHANGED <<engine, book, inbound>>
  PROVE  Trail' = Trail \o out'
<1>1. PICK x, h, i, s : x = Resting(book) /\ h = Holding(engine) /\ i = inbound /\ s = out'
  OBVIOUS
<1>2. x \in Seq(Items) /\ h \in Seq(Items) /\ i \in Seq(Items) /\ s \in Seq(Items)
  BY <1>1, TrailItems, MessagesAreItems
<1>3. h \o i \in Seq(Items) /\ i \o s \in Seq(Items)
  BY <1>2, ConcatProperties
<1>4. Trail = x \o (h \o i)
  <2>1. i \o <<>> = i
    BY <1>2, ConcatEmptySeq
  <2> QED BY <1>1, <2>1 DEF Trail, Pending
<1>5. Trail' = x \o (h \o (i \o s))
  BY <1>1 DEF Trail, Pending, Resting, Holding
<1>6. (h \o i) \o s = h \o (i \o s)
  BY <1>2, ConcatAssociative
<1>7. PICK k : k = h \o i
  OBVIOUS
<1>8. k \in Seq(Items)
  BY <1>3, <1>7
<1>9. (x \o k) \o s = x \o (k \o s)
  BY <1>2, <1>8, ConcatAssociative
<1>10. Trail = x \o k /\ Trail' = x \o (k \o s)
  BY <1>4, <1>5, <1>6, <1>7, Zenon
<1> QED BY <1>1, <1>9, <1>10, Zenon

\* The engine is fed: u, and then what the translator makes of the message.
Fed(u) ==
  /\ ~lost => Faithful(u, tr, nextRef)
  /\ ~lost /\ ~crossed' => Exact(u, tr)
  /\ ~lost /\ ~crossed' /\ ~overflowed => Tells(u, tr)

\* The translator's messages behind u.
LEMMA FedTraced ==
  ASSUME IInv, IInv', NEW m \in FeedMessages, m.type # "Malformed", NEW u \in Seq(Items), Fed(u),
         Trail' = u \o Translate(tr, m).out, tr' = Translate(tr, m).orders, nextRef' = NextBound(m),
         Feeding', crossed' \/ ~Crossed(ref'), lost' = lost, overflowed' = overflowed
  PROVE  Traced'
<1>1. Follows(u \o Translate(tr, m).out, u, Translate(tr, m).orders, tr, NextBound(m), nextRef)
  BY MessageFollows
<1>2. Follows(Trail', u, tr', tr, nextRef', nextRef)
  BY <1>1
<1>3. ASSUME ~crossed' PROVE NotCrossed(tr')
  <2>1. PICK b, n : b = ref' /\ n = nextRef'
    OBVIOUS
  <2>2. Aggregated(b) /\ b.orders = tr' /\ n \in Nat /\ Below(b.orders, n)
    BY <2>1 DEF IInv, TranslatorMirrorsRef, Aggregated
  <2>3. ~Crossed(b)
    BY <1>3, <2>1 DEF Crossed
  <2>4. NotCrossed(b.orders)
    BY <2>2, <2>3, CrossedOrders
  <2> QED BY <2>2, <2>4
<1>4. ~lost' => Faithful(Trail', tr', nextRef')
  BY <1>2 DEF Fed, Follows
<1>5. ~lost' /\ ~crossed' => Exact(Trail', tr')
  BY <1>2, <1>3 DEF Fed, Follows
<1>6. ~lost' /\ ~crossed' /\ ~overflowed' => Tells(Trail', tr')
  BY <1>2 DEF Fed, Follows
<1> QED BY <1>4, <1>5, <1>6 DEF Traced

\* A trail on which nothing follows.
LEMMA FedOnly ==
  ASSUME Fed(Trail'), tr' = tr, nextRef' = nextRef, Feeding', lost' = lost, overflowed' = overflowed
  PROVE  Traced'
<1>1. ~lost' => Faithful(Trail', tr', nextRef')
  BY DEF Fed
<1>2. ~lost' /\ ~crossed' => Exact(Trail', tr')
  BY DEF Fed
<1>3. ~lost' /\ ~crossed' /\ ~overflowed' => Tells(Trail', tr')
  BY DEF Fed
<1> QED BY <1>1, <1>2, <1>3 DEF Traced

\* The engine that is started gets a snapshot first.
LEMMA SnapshotFed ==
  ASSUME IInv, NEW s, s = Snapshot(tr), crossed' \/ ~Crossed(ref)
  PROVE  s \in Seq(Items) /\ s \in Seq(Messages) /\ Fed(s)
<1>1. nextRef \in Nat /\ Below(tr, nextRef) /\ Aggregated(ref) /\ ref.orders = tr
  BY DEF IInv, TranslatorMirrorsRef
<1>2. s \in Seq(Messages) /\ Lists(s, tr)
  BY <1>1, SnapshotLists
<1>3. s \in Seq(Items)
  BY <1>2, MessagesAreItems
<1>4. Faithful(s, tr, nextRef) /\ Tells(s, tr) /\ (NotCrossed(tr) => Exact(s, tr))
  BY <1>1, <1>2, <1>3, SnapshotBegins
<1>5. ~crossed' => NotCrossed(tr)
  <2>1. ~crossed' => ~Crossed(ref)
    OBVIOUS
  <2>2. ~Crossed(ref) => NotCrossed(ref.orders)
    BY <1>1, CrossedOrders
  <2> QED BY <1>1, <2>1, <2>2
<1> QED BY <1>2, <1>3, <1>4, <1>5 DEF Fed

\* Nothing has been said, and nothing is.
LEMMA EmptyTraced ==
  ASSUME Trail' = <<>>, ~Feeding'
  PROVE  Traced'
<1>1. Faithful(<<>>, tr', nextRef') /\ Exact(<<>>, tr')
  BY EmptyTrail
<1> QED BY <1>1 DEF Traced

\* A book message in the replay, with the snapshot if it starts the engine.
LEMMA ReplayTraced ==
  ASSUME IInv, IInv', Typed, Typed', Traced, NEW m \in FeedMessages, NEW reached \in BOOLEAN, ReplayMessage(m, reached)
  PROVE  Traced'
<1>1. /\ UNCHANGED <<mode, engine, book, overflowed, inbound, lost>> /\ out = <<>>
      /\ nextRef' = NextBound(m) /\ (m.type = "Malformed" => nextRef' = nextRef /\ tr' = tr)
  BY DEF ReplayMessage, Reading, Counted, NextBound, engineVars
<1>2. out' \in Seq(Messages) /\ out' \in Seq(Items) /\ Trail \in Seq(Items)
  BY TrailItems, NextTrailItems DEF Typed, ReaderTyped
<1>3. Trail' = Trail \o out'
  BY <1>1, <1>2, GrownTrail
<1>4. (started' <=> started \/ reached) /\ (crossed' <=> crossed \/ (~started /\ reached /\ Crossed(ref))
         \/ ((started \/ reached) /\ Crossed(ref')))
  BY DEF ReplayMessage
<1>5. Trail \o <<>> = Trail /\ <<>> \o out' = out' /\ <<>> \o <<>> = <<>>
  <2>1. <<>> \in Seq(Items)
    BY EmptySeq
  <2> QED BY <1>2, <2>1, ConcatEmptySeq
<1>6. CASE ~Feeding'
  <2>1. ~Feeding
    BY <1>1, <1>4, <1>6 DEF Feeding
  <2>2. Trail = <<>>
    BY <2>1 DEF Traced
  <2>3. out' = <<>>
    <3>1. CASE mode = "no_engine"
      BY <3>1 DEF ReplayMessage, ToSend
    <3>2. CASE mode # "no_engine"
      <4>1. ~started /\ ~reached
        BY <1>1, <1>4, <1>6, <3>2 DEF Feeding
      <4> QED BY <1>5, <4>1 DEF ReplayMessage, ToSend
    <3> QED BY <3>1, <3>2
  <2>4. Trail' = <<>>
    BY <1>3, <1>5, <2>2, <2>3
  <2> QED BY <1>6, <2>4, EmptyTraced
<1>7. CASE Feeding' /\ started
  <2>1. Feeding /\ mode # "no_engine"
    BY <1>1, <1>7 DEF Feeding
  <2>2. Fed(Trail)
    BY <1>4, <2>1 DEF Fed, Traced
  <2>3. CASE m.type = "Malformed"
    <3>1. out' = <<>>
      BY <1>7, <2>3 DEF ReplayMessage, ToSend
    <3>2. Trail' = Trail
      BY <1>3, <1>5, <3>1
    <3>3. Fed(Trail')
      BY <2>2, <3>2
    <3> QED BY <1>1, <1>7, <2>3, <3>3, FedOnly
  <2>4. CASE m.type # "Malformed"
    <3>1. PICK k : k = Translate(tr, m).out
      OBVIOUS
    <3>2. k \in Seq(Messages)
      BY <1>2, <2>4, <3>1, MessageFollows
    <3>3. out' = <<>> \o k /\ tr' = Translate(tr, m).orders
      BY <1>7, <2>1, <2>4, <3>1 DEF ReplayMessage, ToSend
    <3>4. <<>> \o k = k
      BY <3>2, ConcatEmptySeq
    <3>5. Trail' = Trail \o Translate(tr, m).out
      BY <1>3, <3>1, <3>3, <3>4
    <3>6. crossed' \/ ~Crossed(ref')
      BY <1>4, <1>7
    <3> QED BY <1>1, <1>2, <1>7, <2>2, <2>4, <3>3, <3>5, <3>6, FedTraced
  <2> QED BY <2>3, <2>4
<1>8. CASE Feeding' /\ ~started
  <2>1. ~Feeding /\ mode # "no_engine" /\ reached
    BY <1>1, <1>4, <1>8 DEF Feeding
  <2>2. Trail = <<>>
    BY <2>1 DEF Traced
  <2>3. PICK s : s = Snapshot(tr)
    OBVIOUS
  <2>4. s \in Seq(Items) /\ s \in Seq(Messages) /\ Fed(s)
    <3>1. crossed' \/ ~Crossed(ref)
      BY <1>4, <1>8, <2>1
    <3> QED BY <2>3, <3>1, SnapshotFed
  <2>5. Trail' = out'
    BY <1>3, <1>5, <2>2
  <2>6. CASE m.type = "Malformed"
    <3>1. out' = s
      BY <1>8, <2>1, <2>3, <2>6 DEF ReplayMessage, ToSend
    <3>2. Fed(Trail')
      BY <2>4, <2>5, <3>1
    <3> QED BY <1>1, <1>8, <2>6, <3>2, FedOnly
  <2>7. CASE m.type # "Malformed"
    <3>1. out' = s \o Translate(tr, m).out /\ tr' = Translate(tr, m).orders
      BY <1>8, <2>1, <2>3, <2>7 DEF ReplayMessage, ToSend
    <3>2. Trail' = s \o Translate(tr, m).out
      BY <2>5, <3>1
    <3>3. crossed' \/ ~Crossed(ref')
      BY <1>4, <2>1
    <3> QED BY <1>1, <1>8, <2>4, <2>7, <3>1, <3>2, <3>3, FedTraced
  <2> QED BY <2>6, <2>7
<1> QED BY <1>6, <1>7, <1>8

\* A message on the live path.
LEMMA LiveTraced ==
  ASSUME IInv, IInv', Typed, Typed', Progress, Traced, NEW m \in FeedMessages, LiveMessage(m)
  PROVE  Traced'
<1>1. /\ UNCHANGED <<mode, started, engine, book, overflowed, inbound, lost>> /\ out = <<>> /\ mode = "live"
      /\ nextRef' = NextBound(m) /\ (m.type = "Malformed" => nextRef' = nextRef /\ tr' = tr /\ out' = out)
  BY DEF LiveMessage, Reading, Counted, NextBound, engineVars
<1>2. out' \in Seq(Messages) /\ Trail \in Seq(Items)
  BY TrailItems DEF Typed, ReaderTyped
<1>3. Trail' = Trail \o out'
  BY <1>1, <1>2, GrownTrail
<1>4. crossed' <=> crossed \/ Crossed(ref')
  BY DEF LiveMessage
<1>5. Feeding /\ Feeding'
  BY <1>1 DEF Feeding, Progress, Staged
<1>6. Fed(Trail)
  BY <1>4, <1>5 DEF Fed, Traced
<1>7. CASE m.type = "Malformed"
  <2>1. Trail \o <<>> = Trail
    BY <1>2, ConcatEmptySeq
  <2>2. Trail' = Trail
    BY <1>1, <1>3, <1>7, <2>1
  <2>3. Fed(Trail')
    BY <1>6, <2>2
  <2> QED BY <1>1, <1>5, <1>7, <2>3, FedOnly
<1>8. CASE m.type # "Malformed"
  <2>1. out' = Translate(tr, m).out /\ tr' = Translate(tr, m).orders
    BY <1>8 DEF LiveMessage
  <2>2. Trail' = Trail \o Translate(tr, m).out
    BY <1>3, <2>1
  <2>3. crossed' \/ ~Crossed(ref')
    BY <1>4
  <2> QED BY <1>1, <1>2, <1>5, <1>6, <1>8, <2>1, <2>2, <2>3, FedTraced
<1> QED BY <1>7, <1>8

\* The end of the file, with the final snapshot.
LEMMA EndTraced ==
  ASSUME IInv, Typed, Typed', Traced, EndOfFile
  PROVE  Traced'
<1>1. /\ UNCHANGED <<mode, engine, book, overflowed, inbound, lost, tr, nextRef>> /\ out = <<>>
      /\ (started' <=> started \/ target) /\ (crossed' <=> crossed \/ (target /\ ~started /\ Crossed(ref)))
  BY DEF EndOfFile, engineVars
<1>2. out' \in Seq(Messages) /\ Trail \in Seq(Items) /\ out' \in Seq(Items)
  BY TrailItems, NextTrailItems DEF Typed, ReaderTyped
<1>3. Trail' = Trail \o out' /\ Trail \o <<>> = Trail /\ <<>> \o out' = out'
  BY <1>1, <1>2, GrownTrail, ConcatEmptySeq
<1>4. CASE target /\ ~started /\ mode # "no_engine"
  <2>1. ~Feeding /\ Feeding'
    BY <1>1, <1>4 DEF Feeding
  <2>2. out' = Snapshot(tr)
    BY <1>4 DEF EndOfFile, ToSend
  <2>3. Trail' = Snapshot(tr)
    BY <1>3, <2>1, <2>2 DEF Traced
  <2>4. crossed' \/ ~Crossed(ref)
    BY <1>1, <1>4
  <2>5. Fed(Trail')
    BY <2>3, <2>4, SnapshotFed
  <2> QED BY <1>1, <2>1, <2>5, FedOnly
<1>5. CASE ~(target /\ ~started /\ mode # "no_engine")
  <2>1. out' = <<>>
    BY <1>5 DEF EndOfFile, ToSend
  <2>2. Trail' = Trail
    BY <1>3, <2>1
  <2>3. Feeding' <=> Feeding
    BY <1>1, <1>5 DEF Feeding
  <2>4. (~lost' => ~lost) /\ (~crossed' => ~crossed) /\ (~overflowed' => ~overflowed)
    BY <1>1
  <2> QED BY <1>1, <2>2, <2>3, <2>4, UnchangedTrail
<1> QED BY <1>4, <1>5

\* Steps that say nothing to the engine.
LEMMA IdleTraced ==
  ASSUME Typed, Traced,
         (\E m : SkipMessage(m)) \/ ReadDirectory \/ LiveEnds \/ WaitUntilDrained \/ Finish \/ Ended \/ UNCHANGED vars
  PROVE  Traced'
<1>1. UNCHANGED <<mode, started, engine, book, inbound, out, tr, lost, crossed, overflowed>>
         /\ (nextRef' = nextRef \/ nextRef' = nextRef + 1)
  BY DEF SkipMessage, Counted, ReadDirectory, LiveEnds, WaitUntilDrained, Finish, Ended, vars, feedVars, engineVars
<1>2. Trail' = Trail
  BY <1>1 DEF Trail, Pending, Holding
<1> QED BY <1>1, <1>2, UnchangedTrail DEF Feeding

\* The trail is traced in every state.
LEMMA InductiveTraced == Spec => []Traced
<1>1. Init => Traced
  <2>1. SUFFICES ASSUME Init PROVE Traced
    OBVIOUS
  <2>2. book = <<>> /\ inbound = <<>> /\ out = <<>> /\ engine = Polling /\ tr = <<>>
    BY <2>1 DEF Init
  <2>3. Trail = <<>>
    <3>1. Holding(engine) = <<>>
      BY <2>2 DEF Holding, Polling
    <3>2. Resting(book) = <<>>
      BY <2>2 DEF Resting
    <3>3. <<>> \in Seq(Items)
      BY EmptySeq
    <3>4. <<>> \o <<>> = <<>>
      BY <3>3, ConcatEmptySeq
    <3> QED BY <2>2, <3>1, <3>2, <3>4 DEF Trail, Pending
  <2>4. Faithful(<<>>, tr, nextRef) /\ Exact(<<>>, tr)
    BY EmptyTrail
  <2>5. Tells(<<>>, tr)
    BY <2>2 DEF Tells
  <2> QED BY <2>3, <2>4, <2>5 DEF Traced
<1>2. ASSUME IInv, IInv', Typed, Typed', Progress, Traced, [Next]_vars
      PROVE  Traced'
  <2>1. CASE ReadMessage
    <3>1. PICK m \in FeedMessages :
            \/ SkipMessage(m)
            \/ \E reached \in BOOLEAN : ReplayMessage(m, reached)
            \/ LiveMessage(m)
      BY <2>1 DEF ReadMessage
    <3> QED BY <1>2, <3>1, IdleTraced, ReplayTraced, LiveTraced
  <2>2. CASE Send \/ SendRefused \/ EndOfFile
    BY <1>2, <2>2, SendTraced, RefusedTraced, EndTraced
  <2>3. CASE Pop
    BY <1>2, <2>3, PopNewTraced, PopAmendTraced
  <2>4. CASE Execute \/ Count
    BY <1>2, <2>4, ExecuteTraced, CountTraced
  <2>5. CASE ReadDirectory \/ LiveEnds \/ WaitUntilDrained \/ Finish \/ Ended \/ UNCHANGED vars
    BY <1>2, <2>5, IdleTraced
  <2> QED BY <1>2, <2>1, <2>2, <2>3, <2>4, <2>5 DEF Next, Reader
<1> QED BY <1>1, <1>2, Inductive, InductiveTyped, InductiveProgress, PTL DEF Spec
----------------------------------------------------------------------------
(***************************************************************************)
(* What the trail says when the engine has seen it all.                    *)
(***************************************************************************)
\* The orders of b are orders of O, none larger; or none smaller either.
Within(b, O) ==
  /\ Distinct(b)
  /\ \A i \in DOMAIN b :
       /\ b[i].id \in DOMAIN O
       /\ b[i].side = EngineSide(O[b[i].id].side) /\ b[i].price = O[b[i].id].price * 100
       /\ b[i].qty <= O[b[i].id].qty
Equals(b, O) ==
  /\ \A i \in DOMAIN b : b[i].qty = O[b[i].id].qty
  /\ \A r \in DOMAIN O : \E i \in DOMAIN b : b[i].id = r

\* An engine at rest has nothing on the trail but the book.
LEMMA QuietTrail ==
  ASSUME Typed, out = <<>>, Quiet
  PROVE  /\ DOMAIN Trail = DOMAIN book
         /\ \A i \in DOMAIN Trail : Trail[i] = Entry(book[i]) /\ IsNew(Trail, i) /\ Sizes(Trail, i)
               /\ ~LaterAmended(Trail, i)
<1>1. Pending = <<>>
  <2>1. Holding(engine) = <<>> /\ inbound = <<>>
    BY DEF Quiet, Holding
  <2>2. <<>> \in Seq(Items)
    BY EmptySeq
  <2>3. <<>> \o <<>> = <<>>
    BY <2>2, ConcatEmptySeq
  <2> QED BY <2>1, <2>3 DEF Pending
<1>2. Begins(Trail, book, <<>>) /\ book \in Seq(EngineOrders)
  BY <1>1, TrailItems DEF Typed, EngineTyped
<1>3. Len(<<>>) = 0 /\ Len(book) \in Nat /\ DOMAIN book = 1..Len(book)
  BY <1>2, EmptySeq, LenProperties
<1>4. DOMAIN Trail = DOMAIN book /\ \A i \in DOMAIN Trail : Trail[i] = Entry(book[i])
  BY <1>2, <1>3 DEF Begins
<1>5. \A i \in DOMAIN Trail : IsNew(Trail, i) /\ Sizes(Trail, i)
  BY <1>4, EntryFields DEF IsNew, Sizes
<1>6. \A i \in DOMAIN Trail : ~LaterAmended(Trail, i)
  BY <1>5 DEF LaterAmended, Amends, IsNew
<1> QED BY <1>4, <1>5, <1>6

\* The book of an engine at rest is within the feed's ...
LEMMA QuietWithin ==
  ASSUME Typed, Traced, ~lost, out = <<>>, Quiet
  PROVE  Within(book, tr)
<1>1. Faithful(Trail, tr, nextRef)
  BY DEF Traced
<1>2. /\ DOMAIN Trail = DOMAIN book
      /\ \A i \in DOMAIN Trail : Trail[i] = Entry(book[i]) /\ IsNew(Trail, i) /\ Sizes(Trail, i)
            /\ ~LaterAmended(Trail, i)
  BY QuietTrail
<1>3. Distinct(book)
  BY BookIdsDistinct
<1>4. ASSUME NEW i \in DOMAIN book
      PROVE  /\ book[i].id \in DOMAIN tr
             /\ book[i].side = EngineSide(tr[book[i].id].side) /\ book[i].price = tr[book[i].id].price * 100
             /\ book[i].qty <= tr[book[i].id].qty
  <2>1. Trail[i].order_id = book[i].id /\ Trail[i].side = book[i].side /\ Trail[i].price = book[i].price
           /\ Trail[i].qty = book[i].qty
    BY <1>2, EntryFields
  <2>2. Trail[i].order_id \in DOMAIN tr /\ Trail[i].qty <= tr[Trail[i].order_id].qty
    BY <1>1, <1>2 DEF Faithful, Current
  <2>3. Trail[i].side = EngineSide(tr[Trail[i].order_id].side) /\ Trail[i].price = tr[Trail[i].order_id].price * 100
    BY <1>1, <1>2, <2>2 DEF Faithful, Sided
  <2> QED BY <2>1, <2>2, <2>3
<1> QED BY <1>3, <1>4 DEF Within

\* ... and equal to it, if nothing was crossed, refused or lost.
LEMMA QuietEquals ==
  ASSUME Typed, Traced, ~lost, ~crossed, ~overflowed, Feeding, out = <<>>, Quiet
  PROVE  Equals(book, tr)
<1>1. Precise(Trail, tr) /\ Tells(Trail, tr)
  BY DEF Traced, Exact
<1>2. /\ DOMAIN Trail = DOMAIN book
      /\ \A i \in DOMAIN Trail : Trail[i] = Entry(book[i]) /\ IsNew(Trail, i) /\ Sizes(Trail, i)
            /\ ~LaterAmended(Trail, i)
  BY QuietTrail
<1>3. \A i \in DOMAIN book : Trail[i].order_id = book[i].id /\ Trail[i].qty = book[i].qty
  BY <1>2, EntryFields
<1>4. \A i \in DOMAIN book : book[i].qty = tr[book[i].id].qty
  BY <1>1, <1>2, <1>3 DEF Precise
<1>5. \A r \in DOMAIN tr : \E i \in DOMAIN book : book[i].id = r
  BY <1>1, <1>2, <1>3 DEF Tells
<1> QED BY <1>4, <1>5 DEF Equals

\* The inductive invariant.
LEMMA InductiveAll == Spec => [](IInv /\ Typed /\ Progress /\ Traced)
BY Inductive, InductiveTyped, InductiveProgress, InductiveTraced, PTL

\* Whatever the engine executes on a crossed book, refuses for want of space or
\* is started with: when it has worked off what it was sent, nothing rests in
\* it that the feed does not show.
THEOREM NothingForeignRests == Spec => []EngineWithinFeed
<1>1. IInv /\ Typed /\ Progress /\ Traced => EngineWithinFeed
  <2>1. SUFFICES ASSUME Typed, Traced, out = <<>>, inbound = <<>>, engine.at = "pop", ~lost,
                        NEW i \in DOMAIN book
                 PROVE  /\ book[i].id \in DOMAIN tr
                        /\ book[i].side = EngineSide(tr[book[i].id].side) /\ book[i].price = tr[book[i].id].price * 100
                        /\ book[i].qty <= tr[book[i].id].qty
    BY DEF EngineWithinFeed
  <2>2. Quiet
    BY <2>1 DEF Quiet
  <2> QED BY <2>1, <2>2, QuietWithin DEF Within
<1> QED BY <1>1, InductiveAll, PTL

\* A level's queue is in the order of arrival, from a snapshot as from the
\* whole feed, and through every reduction.
THEOREM QueueInOrder == Spec => []PriorityKept
<1>1. IInv /\ Typed /\ Progress /\ Traced => PriorityKept
  <2>1. SUFFICES ASSUME Typed, Traced, ~crossed, ~lost, NEW i \in DOMAIN book, NEW j \in DOMAIN book, i < j
                 PROVE  book[i].id < book[j].id
    BY DEF PriorityKept
  <2>2. InSequence(Trail)
    BY <2>1 DEF Traced, Exact
  <2>3. Begins(Trail, book, Pending) /\ Pending \in Seq(Items) /\ book \in Seq(EngineOrders) /\ Trail \in Seq(Items)
    BY <2>1, TrailItems DEF Typed, EngineTyped
  <2>4. Trail[i] = Entry(book[i]) /\ Trail[j] = Entry(book[j])
    BY <2>3 DEF Begins
  <2>5. i \in DOMAIN Trail /\ j \in DOMAIN Trail
    <3>1. Len(book) \in Nat /\ Len(Pending) \in Nat /\ DOMAIN book = 1..Len(book)
      BY <2>3, LenProperties
    <3>2. DOMAIN Trail = 1..(Len(book) + Len(Pending))
      BY <2>3 DEF Begins
    <3> QED BY <2>1, <3>1, <3>2
  <2>6. IsNew(Trail, i) /\ IsNew(Trail, j) /\ Trail[i].order_id = book[i].id /\ Trail[j].order_id = book[j].id
    BY <2>4, EntryFields DEF IsNew
  <2>7. Trail[i].order_id < Trail[j].order_id
    BY <2>1, <2>2, <2>5, <2>6 DEF InSequence
  <2> QED BY <2>6, <2>7
<1> QED BY <1>1, InductiveAll, PTL
----------------------------------------------------------------------------
(***************************************************************************)
(* The comparison: depths and orders.                                      *)
(***************************************************************************)
\* The orders at a level, by their places in the engine's book.
Positions(b, s, p) == {i \in DOMAIN b : b[i].side = EngineSide(s) /\ b[i].price = p * 100}

\* The orders of a level in the engine's book and in the feed's.
LEMMA LevelInjection ==
  ASSUME NEW b \in Seq(EngineOrders), NEW O, NEW n \in Nat, Below(O, n), Within(b, O),
         NEW s \in ItchSides, NEW p \in Nat, NEW A, A = Positions(b, s, p), NEW B, B = AtLevel(O, s, p),
         NEW h, h = [i \in A |-> b[i].id]
  PROVE  /\ Quantified(b, A) /\ Quantified(O, B) /\ IsFiniteSet(B)
         /\ h \in [A -> B] /\ \A x, y \in A : h[x] = h[y] => x = y
         /\ \A x \in A : Qty(b, x) <= Qty(O, h[x])
         /\ \A x \in B : Qty(O, x) > 0
<1>1. Len(b) \in Nat /\ DOMAIN b = 1..Len(b) /\ \A i \in DOMAIN b : b[i].qty \in Nat /\ b[i].price \in Nat
  <2>1. Len(b) \in Nat /\ DOMAIN b = 1..Len(b)
    BY LenProperties
  <2>2. \A i \in DOMAIN b : b[i] \in EngineOrders
    BY <2>1, ElementOfSeq
  <2> QED BY <2>1, <2>2 DEF EngineOrders
<1>2. IsFiniteSet(A)
  <2>1. IsFiniteSet(1..Len(b))
    BY <1>1, FS_Interval
  <2>2. A \in SUBSET (1..Len(b))
    BY <1>1 DEF Positions
  <2> QED BY <2>1, <2>2, FS_Subset
<1>3. Quantified(b, A)
  BY <1>1, <1>2 DEF Quantified, Qty, Positions
<1>4. Quantified(O, B) /\ IsFiniteSet(B)
  <2>1. Sound(O)
    BY DEF Sound
  <2>2. B \in SUBSET AtLevel(O, s, p)
    OBVIOUS
  <2> QED BY <2>1, <2>2, LevelSum
<1>5. ASSUME NEW i \in A PROVE h[i] = b[i].id /\ h[i] \in B /\ Qty(b, i) <= Qty(O, h[i])
  <2>1. i \in DOMAIN b /\ b[i].side = EngineSide(s) /\ b[i].price = p * 100
    BY <1>5 DEF Positions
  <2>2. h[i] = b[i].id
    BY <1>5
  <2>3. PICK r : r = b[i].id
    OBVIOUS
  <2>4. r \in DOMAIN O /\ EngineSide(s) = EngineSide(O[r].side) /\ p * 100 = O[r].price * 100 /\ b[i].qty <= O[r].qty
    BY <2>1, <2>3 DEF Within
  <2>5. O[r].side \in ItchSides /\ O[r].price \in Nat
    BY <2>4, Itch50Assumption DEF Below, Known
  <2>6. O[r].side = s
    BY <2>4, <2>5 DEF EngineSide, ItchSides
  <2>7. O[r].price = p
    BY <2>4, <2>5
  <2> QED BY <2>2, <2>3, <2>4, <2>6, <2>7 DEF AtLevel, Qty
<1>6. h \in [A -> B]
  BY <1>5
<1>7. \A x, y \in A : h[x] = h[y] => x = y
  BY <1>5 DEF Within, Distinct, Positions
<1>8. \A x \in B : Qty(O, x) > 0
  BY DEF AtLevel, Below, Known, Qty
<1> QED BY <1>3, <1>4, <1>5, <1>6, <1>7, <1>8

\* Depth() is the sum over the positions of a level.
LEMMA DepthTotals ==
  ASSUME NEW b, NEW side
  PROVE  /\ DOMAIN Depth(b, side) = PricesOf(b, side)
         /\ \A p \in PricesOf(b, side) :
              Depth(b, side)[p] = Totals(b, {i \in DOMAIN b : b[i].side = side /\ b[i].price = p})
BY DEF Depth, Totals, MapThenSumSet, MapThenFoldSet, QtySum, SumOver, SumStep, Qty

\* The depth that the replay compares: the sums of the levels, in ITCH prices.
LEMMA EngineDepthTotals ==
  ASSUME book \in Seq(EngineOrders), NEW n \in Nat, Below(tr, n), Within(book, tr), NEW s \in ItchSides
  PROVE  /\ EngineDepth(s) = [p \in DOMAIN EngineDepth(s) |-> EngineDepth(s)[p]]
         /\ \A p : p \in DOMAIN EngineDepth(s) <=> p \in Nat /\ Positions(book, s, p) # {}
         /\ \A p \in DOMAIN EngineDepth(s) : EngineDepth(s)[p] = Totals(book, Positions(book, s, p))
<1> DEFINE d == Depth(book, EngineSide(s))
           D == {q \div 100 : q \in DOMAIN d}
<1>1. EngineDepth(s) = [p \in D |-> d[p * 100]]
  BY DEF EngineDepth
<1>2. DOMAIN d = PricesOf(book, EngineSide(s))
  BY DepthTotals
<1>3. \A q \in DOMAIN d : \E c \in Nat : q = c * 100 /\ q \div 100 = c
  <2> TAKE q \in DOMAIN d
  <2>1. PICK i \in DOMAIN book : q = book[i].price
    BY <1>2 DEF PricesOf
  <2>2. PICK c : c = tr[book[i].id].price
    OBVIOUS
  <2>3. c \in Nat /\ q = c * 100
    BY <2>1, <2>2, Itch50Assumption DEF Within, Below, Known
  <2>4. (c * 100) \div 100 = c
    BY <2>3
  <2> QED BY <2>3, <2>4
<1>4. \A p : p \in D <=> p \in Nat /\ p * 100 \in DOMAIN d
  <2>1. ASSUME NEW p \in D PROVE p \in Nat /\ p * 100 \in DOMAIN d
    BY <1>3
  <2>2. ASSUME NEW p \in Nat, p * 100 \in DOMAIN d PROVE p \in D
    <3>1. (p * 100) \div 100 = p
      OBVIOUS
    <3> QED BY <2>2, <3>1
  <2> QED BY <2>1, <2>2
<1>5. \A p : p * 100 \in DOMAIN d <=> Positions(book, s, p) # {}
  BY <1>2 DEF PricesOf, Positions
<1>6. \A p \in D : d[p * 100] = Totals(book, Positions(book, s, p))
  <2> TAKE p \in D
  <2>1. p * 100 \in PricesOf(book, EngineSide(s))
    BY <1>2, <1>4
  <2>2. d[p * 100] = Totals(book, {i \in DOMAIN book : book[i].side = EngineSide(s) /\ book[i].price = p * 100})
    BY <2>1, DepthTotals
  <2> QED BY <2>2 DEF Positions
<1> HIDE DEF d, D
<1>7. DOMAIN EngineDepth(s) = D /\ \A p \in D : EngineDepth(s)[p] = d[p * 100]
  BY <1>1
<1> QED BY <1>1, <1>4, <1>5, <1>6, <1>7
----------------------------------------------------------------------------
(***************************************************************************)
(* The exit codes.                                                         *)
(***************************************************************************)
\* Levels that add up to the same hold the same orders: quantities are never
\* larger in the engine, so none can make up for another.
LEMMA DepthsDecide ==
  ASSUME IInv, book \in Seq(EngineOrders), Within(book, tr), \A s \in ItchSides : EngineDepth(s) = ref.levels[s]
  PROVE  Equals(book, tr)
<1>1. nextRef \in Nat /\ Below(tr, nextRef) /\ Aggregated(ref) /\ ref.orders = tr
  BY DEF IInv, TranslatorMirrorsRef
<1>2. ASSUME NEW s \in ItchSides, NEW p \in Nat, AtLevel(tr, s, p) # {}
      PROVE  /\ \A r \in AtLevel(tr, s, p) : \E i \in DOMAIN book : book[i].id = r
             /\ \A i \in Positions(book, s, p) : book[i].qty = tr[book[i].id].qty
  <2>1. PICK A, B : A = Positions(book, s, p) /\ B = AtLevel(tr, s, p)
    OBVIOUS
  <2>2. PICK h : h = [i \in A |-> book[i].id]
    OBVIOUS
  <2>3. /\ Quantified(book, A) /\ Quantified(tr, B)
        /\ h \in [A -> B] /\ (\A x, y \in A : h[x] = h[y] => x = y)
        /\ (\A x \in A : Qty(book, x) <= Qty(tr, h[x]))
        /\ (\A x \in B : Qty(tr, x) > 0)
    BY <1>1, <2>1, <2>2, LevelInjection
  <2>4. p \in DOMAIN ref.levels[s] /\ ref.levels[s][p] = Totals(tr, B)
    BY <1>1, <1>2, <2>1, LevelKept
  <2>5. EngineDepth(s)[p] = Totals(book, A)
    BY <1>1, <2>1, <2>4, EngineDepthTotals
  <2>6. QtySum(book, A) = QtySum(tr, B)
    <3>1. Totals(book, A) = Totals(tr, B)
      BY <2>4, <2>5
    <3>2. Totals(book, A).qty = QtySum(book, A) /\ Totals(tr, B).qty = QtySum(tr, B)
      BY DEF Totals
    <3> QED BY <3>1, <3>2
  <2>7. (\A a \in A : Qty(book, a) = Qty(tr, h[a])) /\ (\A b \in B : \E a \in A : h[a] = b)
    BY <2>3, <2>6, SumInjection
  <2>8. \A a \in A : a \in DOMAIN book /\ h[a] = book[a].id
    BY <2>1, <2>2 DEF Positions
  <2> QED BY <2>1, <2>7, <2>8 DEF Qty
<1>3. \A r \in DOMAIN tr : tr[r].side \in ItchSides /\ tr[r].price \in Nat /\ r \in AtLevel(tr, tr[r].side, tr[r].price)
  BY <1>1, Itch50Assumption DEF Below, Known, AtLevel
<1>4. ASSUME NEW r \in DOMAIN tr PROVE \E i \in DOMAIN book : book[i].id = r
  <2>1. PICK s, p : s = tr[r].side /\ p = tr[r].price
    OBVIOUS
  <2>2. s \in ItchSides /\ p \in Nat /\ r \in AtLevel(tr, s, p)
    BY <1>3, <1>4, <2>1
  <2> QED BY <1>2, <2>2
<1>5. ASSUME NEW i \in DOMAIN book PROVE book[i].qty = tr[book[i].id].qty
  <2>1. PICK r, s, p : r = book[i].id /\ s = tr[r].side /\ p = tr[r].price
    OBVIOUS
  <2>2. r \in DOMAIN tr /\ book[i].side = EngineSide(s) /\ book[i].price = p * 100
    BY <1>5, <2>1 DEF Within
  <2>3. s \in ItchSides /\ p \in Nat /\ r \in AtLevel(tr, s, p)
    BY <1>3, <2>1, <2>2
  <2>4. i \in Positions(book, s, p)
    BY <2>2 DEF Positions
  <2> QED BY <1>2, <2>3, <2>4
<1> QED BY <1>4, <1>5 DEF Equals

\* Books with the same orders have the same depth.
LEMMA SameDepths ==
  ASSUME IInv, book \in Seq(EngineOrders), Within(book, tr), Equals(book, tr), NEW s \in ItchSides
  PROVE  EngineDepth(s) = ref.levels[s]
<1>1. nextRef \in Nat /\ Below(tr, nextRef) /\ Aggregated(ref) /\ ref.orders = tr
  BY DEF IInv, TranslatorMirrorsRef
<1>2. PICK F, G : F = EngineDepth(s) /\ G = ref.levels[s]
  OBVIOUS
<1>3. /\ F = [p \in DOMAIN F |-> F[p]]
      /\ \A p : p \in DOMAIN F <=> p \in Nat /\ Positions(book, s, p) # {}
      /\ \A p \in DOMAIN F : F[p] = Totals(book, Positions(book, s, p))
  BY <1>1, <1>2, EngineDepthTotals
<1>4. G = LevelsOf(tr, s) /\ \A p : (p \in DOMAIN G <=> AtLevel(tr, s, p) # {})
         /\ (p \in DOMAIN G => G[p] = Totals(tr, AtLevel(tr, s, p)))
  BY <1>1, <1>2, LevelKept
<1>5. G = [p \in DOMAIN G |-> G[p]]
  BY <1>4 DEF LevelsOf
<1>6. ASSUME NEW p \in Nat
      PROVE  /\ Positions(book, s, p) = {} <=> AtLevel(tr, s, p) = {}
             /\ Totals(book, Positions(book, s, p)) = Totals(tr, AtLevel(tr, s, p))
  <2>1. PICK A, B : A = Positions(book, s, p) /\ B = AtLevel(tr, s, p)
    OBVIOUS
  <2>2. PICK h : h = [i \in A |-> book[i].id]
    OBVIOUS
  <2>3. /\ Quantified(book, A) /\ Quantified(tr, B) /\ IsFiniteSet(B)
        /\ h \in [A -> B] /\ (\A x, y \in A : h[x] = h[y] => x = y)
    BY <1>1, <2>1, <2>2, LevelInjection
  <2>4. \A b \in B : \E a \in A : h[a] = b
    <3> TAKE b \in B
    <3>1. b \in DOMAIN tr /\ tr[b].side = s /\ tr[b].price = p
      BY <2>1 DEF AtLevel
    <3>2. PICK i \in DOMAIN book : book[i].id = b
      BY <3>1 DEF Equals
    <3>3. book[i].side = EngineSide(s) /\ book[i].price = p * 100
      BY <3>1, <3>2 DEF Within
    <3>4. i \in A
      BY <2>1, <3>3 DEF Positions
    <3> QED BY <2>2, <3>2, <3>4
  <2>5. \A a \in A : Qty(book, a) = Qty(tr, h[a])
    <3>1. \A a \in A : a \in DOMAIN book /\ h[a] = book[a].id
      BY <2>1, <2>2 DEF Positions
    <3> QED BY <3>1 DEF Equals, Qty
  <2>6. QtySum(book, A) = QtySum(tr, B)
    BY <2>3, <2>4, <2>5, SumBijection
  <2>7. Cardinality(A) = Cardinality(B)
    <3>1. h \in Injection(A, B) /\ h \in Surjection(A, B)
      BY <2>3, <2>4 DEF Injection, IsInjective, Surjection
    <3> QED BY <2>3, <3>1, FS_Injection
  <2>8. A = {} <=> B = {}
    BY <2>3, <2>4
  <2> QED BY <2>1, <2>6, <2>7, <2>8 DEF Totals
<1>7. DOMAIN F = DOMAIN G
  <2>1. ASSUME NEW p, AtLevel(tr, s, p) # {} PROVE p \in Nat
    BY <1>1, <2>1, Itch50Assumption DEF AtLevel, Below, Known
  <2>2. \A p : p \in DOMAIN F <=> p \in DOMAIN G
    BY <1>3, <1>4, <1>6, <2>1
  <2> QED BY <2>2
<1>8. \A p \in DOMAIN F : F[p] = G[p]
  BY <1>3, <1>4, <1>6, <1>7
<1>9. F = G
  BY <1>3, <1>5, <1>7, <1>8
<1> QED BY <1>2, <1>9

\* Books with the same orders, as sets of orders.
LEMMA SameOrders ==
  ASSUME NEW b \in Seq(EngineOrders), NEW O, NEW n \in Nat, Below(O, n), Within(b, O), Equals(b, O)
  PROVE  {b[i] : i \in DOMAIN b} =
           {[id |-> r, side |-> EngineSide(O[r].side), price |-> O[r].price * 100, qty |-> O[r].qty] : r \in DOMAIN O}
<1> DEFINE F(r) == [id |-> r, side |-> EngineSide(O[r].side), price |-> O[r].price * 100, qty |-> O[r].qty]
<1>1. ASSUME NEW i \in DOMAIN b PROVE b[i].id \in DOMAIN O /\ b[i] = F(b[i].id)
  <2>1. b[i] \in EngineOrders
    BY LenProperties, ElementOfSeq
  <2>2. b[i] = [id |-> b[i].id, side |-> b[i].side, price |-> b[i].price, qty |-> b[i].qty]
    BY <2>1 DEF EngineOrders
  <2>3. /\ b[i].id \in DOMAIN O /\ b[i].side = EngineSide(O[b[i].id].side)
        /\ b[i].price = O[b[i].id].price * 100 /\ b[i].qty = O[b[i].id].qty
    BY DEF Within, Equals
  <2> QED BY <2>2, <2>3
<1>2. \A r \in DOMAIN O : \E i \in DOMAIN b : b[i].id = r
  BY DEF Equals
<1> HIDE DEF F
<1>3. {b[i] : i \in DOMAIN b} = {F(r) : r \in DOMAIN O}
  BY <1>1, <1>2
<1> QED BY <1>3 DEF F

\* The exit code says what the comparison found.
Verdict ==
  /\ exit = 0 /\ mode # "live" => Agree
  /\ exit = 1 => ~Agree /\ ~exceeded /\ mode # "live"

\* After the comparison nothing moves.
LEMMA NothingAfter ==
  ASSUME Progress, exit \in {0, 1}, [Next]_vars
  PROVE  UNCHANGED vars
<1>1. reader.at = "done" /\ exit # -1
  BY DEF Progress, Staged
<1>2. ~Reader
  <2>1. ~ReadMessage
    BY <1>1 DEF ReadMessage, SkipMessage, ReplayMessage, LiveMessage, Reading
  <2>2. ~ReadDirectory /\ ~Send /\ ~SendRefused /\ ~EndOfFile /\ ~LiveEnds /\ ~WaitUntilDrained /\ ~Finish
    BY <1>1 DEF ReadDirectory, Send, SendRefused, EndOfFile, LiveEnds, WaitUntilDrained, Finish
  <2> QED BY <2>1, <2>2 DEF Reader
<1>3. ~Pop /\ ~Execute /\ ~Count
  BY <1>1 DEF Pop, Execute, Count
<1> QED BY <1>2, <1>3 DEF Next, Ended

\* Kept by every step.
LEMMA InductiveVerdict == Spec => []Verdict
<1>1. Init => Verdict
  BY DEF Init, Verdict
<1>2. ASSUME Progress, Verdict, [Next]_vars PROVE Verdict'
  <2>1. CASE exit \in {0, 1}
    <3>1. UNCHANGED vars
      BY <1>2, <2>1, NothingAfter
    <3>2. UNCHANGED <<exit, mode, exceeded, ref, book, processed, sent>>
      BY <3>1 DEF vars, feedVars, engineVars
    <3>3. Agree' <=> Agree
      BY <3>2 DEF Agree, EngineDepth
    <3> QED BY <1>2, <3>2, <3>3 DEF Verdict
  <2>2. CASE Finish
    <3>1. UNCHANGED <<mode, exceeded, ref, book, processed, sent>>
      BY <2>2 DEF Finish, engineVars
    <3>2. Agree' <=> Agree
      BY <3>1 DEF Agree, EngineDepth
    <3>3. CASE mode = "live"
      <4>1. exit' = 0
        BY <2>2, <3>3 DEF Finish
      <4> QED BY <3>1, <3>3, <4>1 DEF Verdict
    <3>4. CASE mode # "live" /\ ~target
      <4>1. exit' = 3
        BY <2>2, <3>4 DEF Finish
      <4> QED BY <4>1 DEF Verdict
    <3>5. CASE mode # "live" /\ target /\ exceeded
      <4>1. exit' = 4
        BY <2>2, <3>5 DEF Finish
      <4> QED BY <4>1 DEF Verdict
    <3>6. CASE mode # "live" /\ target /\ ~exceeded
      <4>1. exit' = IF Agree THEN 0 ELSE 1
        BY <2>2, <3>6 DEF Finish
      <4>2. (exit' = 0 => Agree) /\ (exit' = 1 => ~Agree)
        BY <4>1
      <4> QED BY <3>1, <3>2, <3>6, <4>2 DEF Verdict
    <3> QED BY <3>3, <3>4, <3>5, <3>6
  <2>3. CASE ~Finish /\ exit \notin {0, 1}
    <3>1. exit' = exit \/ exit' = 2
      BY <1>2, <2>3 DEF Next, Reader, ReadMessage, SkipMessage, ReplayMessage, LiveMessage, ReadDirectory, Send,
           SendRefused, EndOfFile, LiveEnds, WaitUntilDrained, Pop, Execute, Count, Ended, vars
    <3> QED BY <2>3, <3>1 DEF Verdict
  <2> QED BY <2>1, <2>2, <2>3
<1> QED BY <1>1, <1>2, InductiveProgress, PTL DEF Spec

\* Exit code 0 of a replay with an engine: not only do the levels agree, the
\* engine holds exactly the feed's orders, with the feed's quantities.
THEOREM ZeroMeansExact == Spec => []ExitZeroExact
<1>1. IInv /\ Typed /\ Progress /\ Traced /\ Verdict => ExitZeroExact
  <2>1. SUFFICES ASSUME IInv, Typed, Progress, Traced, Verdict, exit = 0, mode \in {"replay", "replay_late"}
                 PROVE  {book[i] : i \in DOMAIN book} =
                          {[id |-> r, side |-> EngineSide(tr[r].side), price |-> tr[r].price * 100, qty |-> tr[r].qty] :
                             r \in DOMAIN tr}
    BY DEF ExitZeroExact
  <2>2. reader.at = "done" /\ Quiet /\ out = <<>> /\ ~lost
    BY <2>1 DEF Progress, Staged
  <2>3. Within(book, tr)
    BY <2>1, <2>2, QuietWithin
  <2>4. \A s \in ItchSides : EngineDepth(s) = ref.levels[s]
    BY <2>1 DEF Verdict, Agree
  <2>5. book \in Seq(EngineOrders) /\ nextRef \in Nat /\ Below(tr, nextRef)
    BY <2>1 DEF Typed, EngineTyped, IInv
  <2>6. Equals(book, tr)
    BY <2>1, <2>3, <2>4, <2>5, DepthsDecide
  <2> QED BY <2>3, <2>5, <2>6, SameOrders
<1> QED BY <1>1, InductiveAll, InductiveVerdict, PTL

\* Exit code 1 is never a false alarm: while no book was crossed, no order was
\* refused and the wait did not give up, the depths that compare_books() looks at
\* are equal.
THEOREM OneHasCause == Spec => []DisagreementHasCause
<1>1. IInv /\ Typed /\ Progress /\ Traced /\ Verdict => DisagreementHasCause
  <2>1. SUFFICES ASSUME IInv, Typed, Progress, Traced, Verdict, exit = 1, ~crossed, ~overflowed, ~timedOut
                 PROVE  FALSE
    BY DEF DisagreementHasCause
  <2>2. reader.at = "done" /\ Quiet /\ out = <<>> /\ ~lost /\ mode # "live" /\ ~exceeded /\ ~Agree /\ target /\ started
    BY <2>1 DEF Progress, Staged, Verdict
  <2>3. mode # "no_engine"
    BY <2>2 DEF Agree
  <2>4. Feeding
    BY <2>2, <2>3 DEF Feeding
  <2>5. sent = processed
    BY <2>1, <2>2 DEF Progress, Accounted
  <2>6. book \in Seq(EngineOrders)
    BY <2>1 DEF Typed, EngineTyped
  <2>7. Within(book, tr) /\ Equals(book, tr)
    BY <2>1, <2>2, <2>4, QuietWithin, QuietEquals
  <2>8. \A s \in ItchSides : EngineDepth(s) = ref.levels[s]
    BY <2>1, <2>6, <2>7, SameDepths
  <2>9. Agree
    BY <2>2, <2>5, <2>8 DEF Agree
  <2> QED BY <2>2, <2>9
<1> QED BY <1>1, InductiveAll, InductiveVerdict, PTL
=============================================================================
