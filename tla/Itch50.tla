------------------------------- MODULE Itch50 -------------------------------
(***************************************************************************)
(* hft::itch50: the reference book and the translator from ITCH book       *)
(* messages to the engine's messages, as functions of their state.         *)
(*                                                                         *)
(* A decoded message keeps what the books look at: 'A' and 'F' are "Add",  *)
(* 'E', 'C' and 'X' are "Reduce" (they differ in counters only), 'D' is    *)
(* "Delete", 'U' is "Replace"; a body its parser rejects is "Malformed".   *)
(* Counters that are only printed are left out.                            *)
(***************************************************************************)
EXTENDS Integers, Sequences, SequencesExt, FiniteSets, FiniteSetsExt

CONSTANTS
  Refs,      \* order reference numbers
  Prices,    \* ITCH prices, four implied decimals
  Shares     \* share counts of adds, executions and cancels

ASSUME Itch50Assumption ==
  /\ Refs \subseteq Nat
  /\ Prices \subseteq Nat \ {0}
  /\ Shares \subseteq Nat \ {0}

ItchSides == {"B", "S"}
RefOrders == [side: ItchSides, price: Prices, qty: Shares]

\* What the parsers make of message bodies that refer to the orders of given
\* and introduce those of fresh.
Decoded(fresh, given) ==
  [type: {"Add"}, ref: fresh, side: ItchSides, price: Prices, qty: Shares]
    \cup [type: {"Reduce"}, ref: given, qty: Shares]
    \cup [type: {"Delete"}, ref: given]
    \cup [type: {"Replace"}, ref: given, nref: fresh, price: Prices, qty: Shares]
    \cup [type: {"Malformed"}]

\* A map after m[key] = val and after m.erase(key).
With(f, key, val) == [k \in DOMAIN f \cup {key} |-> IF k = key THEN val ELSE f[k]]
Without(f, key) == Restrict(f, DOMAIN f \ {key})
----------------------------------------------------------------------------
(***************************************************************************)
(* RefBook: the orders by reference, and the levels of each side, kept up  *)
(* to date message by message.                                             *)
(***************************************************************************)
EmptyRefBook == [orders |-> <<>>, levels |-> [s \in ItchSides |-> <<>>]]

LevelAt(b, s, px) ==
  IF px \in DOMAIN b.levels[s] THEN b.levels[s][px] ELSE [qty |-> 0, orders |-> 0]

\* add(): a reference that is already live is ignored.
RefAdd(b, ref, o) ==
  LET l == LevelAt(b, o.side, o.price)
  IN IF ref \in DOMAIN b.orders THEN b
     ELSE [orders |-> With(b.orders, ref, o),
           levels |-> [b.levels EXCEPT ![o.side] =
                         With(@, o.price, [qty |-> l.qty + o.qty, orders |-> l.orders + 1])]]

\* Faulty variant: the order count of the level is left alone.
SubLevelKeepsCount(b, s, px, q, orderGone) ==
  IF px \notin DOMAIN b.levels[s] THEN b.levels
  ELSE LET qty == b.levels[s][px].qty - Min({b.levels[s][px].qty, q})
       IN [b.levels EXCEPT ![s] = IF qty = 0 THEN Without(@, px) ELSE [@ EXCEPT ![px].qty = qty]]

\* sub_level(): the level goes when its quantity is used up.
SubLevel(b, s, px, q, orderGone) ==
  IF px \notin DOMAIN b.levels[s] THEN b.levels
  ELSE LET l == b.levels[s][px]
           qty == l.qty - Min({l.qty, q})
           orders == IF orderGone /\ l.orders > 0 THEN l.orders - 1 ELSE l.orders
       IN [b.levels EXCEPT ![s] = IF qty = 0 THEN Without(@, px)
                                  ELSE [@ EXCEPT ![px] = [qty |-> qty, orders |-> orders]]]

\* reduce(): an execution or a cancel, cut at what the order still has.
RefReduce(b, ref, by) ==
  IF ref \notin DOMAIN b.orders THEN b
  ELSE LET o == b.orders[ref]
           d == Min({by, o.qty})
       IN [orders |-> IF d = o.qty THEN Without(b.orders, ref)
                      ELSE [b.orders EXCEPT ![ref].qty = @ - d],
           levels |-> SubLevel(b, o.side, o.price, d, d = o.qty)]

RefRemove(b, ref) ==
  IF ref \notin DOMAIN b.orders THEN b
  ELSE LET o == b.orders[ref]
       IN [orders |-> Without(b.orders, ref),
           levels |-> SubLevel(b, o.side, o.price, o.qty, TRUE)]

\* replace(): the new order inherits the side of the one it replaces.
RefReplace(b, ref, nref, qty, price) ==
  IF ref \notin DOMAIN b.orders THEN b
  ELSE RefAdd(RefRemove(b, ref), nref,
              [side |-> b.orders[ref].side, price |-> price, qty |-> qty])

RefApply(b, m) ==
  CASE m.type = "Add"     -> RefAdd(b, m.ref, [side |-> m.side, price |-> m.price, qty |-> m.qty])
    [] m.type = "Reduce"  -> RefReduce(b, m.ref, m.qty)
    [] m.type = "Delete"  -> RefRemove(b, m.ref)
    [] m.type = "Replace" -> RefReplace(b, m.ref, m.nref, m.qty, m.price)

\* crossed()
Crossed(b) ==
  \E bid \in DOMAIN b.levels["B"], ask \in DOMAIN b.levels["S"] : bid >= ask
----------------------------------------------------------------------------
(***************************************************************************)
(* Translator: the orders by reference, and what each message becomes.     *)
(***************************************************************************)
EngineSide(side) == IF side = "B" THEN "Buy" ELSE "Sell"

\* make(): four implied decimals become six.
Make(type, ref, price, qty, side) ==
  [msg_type |-> type, order_id |-> ref, price |-> price * 100, qty |-> qty,
   side |-> EngineSide(side)]

\* on_add(): the entry is written whether or not the reference is live.
OnAdd(tr, ref, o) ==
  [orders |-> With(tr, ref, o),
   out |-> <<Make("NewOrder", ref, o.price, o.qty, o.side)>>]

Unknown(tr) == [orders |-> tr, out |-> <<>>]

\* Faulty variant: a partial cancel takes the whole order (BUGS_FOUND.md #16).
OnReduceWhole(tr, ref, by) ==
  IF ref \notin DOMAIN tr THEN Unknown(tr)
  ELSE [orders |-> Without(tr, ref),
        out |-> <<Make("CancelOrder", ref, tr[ref].price, 0, tr[ref].side)>>]

\* on_reduce(): a modify to what remains, or a cancel when nothing does.
OnReduce(tr, ref, by) ==
  IF ref \notin DOMAIN tr THEN Unknown(tr)
  ELSE LET o == tr[ref]
           left == o.qty - Min({by, o.qty})
       IN IF left = 0
          THEN [orders |-> Without(tr, ref),
                out |-> <<Make("CancelOrder", ref, o.price, 0, o.side)>>]
          ELSE [orders |-> [tr EXCEPT ![ref].qty = left],
                out |-> <<Make("ModifyOrder", ref, o.price, left, o.side)>>]

OnDelete(tr, ref) ==
  IF ref \notin DOMAIN tr THEN Unknown(tr)
  ELSE [orders |-> Without(tr, ref),
        out |-> <<Make("CancelOrder", ref, tr[ref].price, 0, tr[ref].side)>>]

\* Faulty variant: the engine is not told that the original is gone.
OnReplaceAddsOnly(tr, ref, nref, qty, price) ==
  IF ref \notin DOMAIN tr THEN Unknown(tr)
  ELSE LET o == [side |-> tr[ref].side, price |-> price, qty |-> qty]
       IN [orders |-> With(Without(tr, ref), nref, o),
           out |-> <<Make("NewOrder", nref, price, qty, o.side)>>]

\* on_replace(): the original is cancelled, then the new order added.
OnReplace(tr, ref, nref, qty, price) ==
  IF ref \notin DOMAIN tr THEN Unknown(tr)
  ELSE LET side == tr[ref].side
       IN [orders |-> With(Without(tr, ref), nref, [side |-> side, price |-> price, qty |-> qty]),
           out |-> <<Make("CancelOrder", ref, tr[ref].price, 0, side),
                     Make("NewOrder", nref, price, qty, side)>>]

\* The switch on the message type, the same in replay_itch50's loop and in
\* ItchAdapter::on_mold_message().
Translate(tr, m) ==
  CASE m.type = "Add"     -> OnAdd(tr, m.ref, [side |-> m.side, price |-> m.price, qty |-> m.qty])
    [] m.type = "Reduce"  -> OnReduce(tr, m.ref, m.qty)
    [] m.type = "Delete"  -> OnDelete(tr, m.ref)
    [] m.type = "Replace" -> OnReplace(tr, m.ref, m.nref, m.qty, m.price)

\* A map's entries as new orders, in the order in which refs lists its references.
NewOrders(tr, refs) ==
  [i \in DOMAIN refs |-> Make("NewOrder", refs[i], tr[refs[i]].price, tr[refs[i]].qty, tr[refs[i]].side)]

Listings(tr) == [1..Cardinality(DOMAIN tr) -> DOMAIN tr]

\* Faulty variant: the references are sorted the wrong way round.
SnapshotUnsorted(tr) ==
  NewOrders(tr, CHOOSE refs \in Listings(tr) : \A i, j \in DOMAIN refs : i < j => refs[i] > refs[j])

\* snapshot(): the resting orders as new orders, by ascending reference.
Snapshot(tr) ==
  NewOrders(tr, CHOOSE refs \in Listings(tr) : \A i, j \in DOMAIN refs : i < j => refs[i] < refs[j])
=============================================================================
