----------------------------- MODULE SpscQueue -----------------------------
(***************************************************************************)
(* The single-producer single-consumer ring of the matching engine         *)
(* (core/spsc_queue.hpp).  try_push and try_pop are split where the other  *)
(* thread can come between: the load of the other side's position, the     *)
(* access to the slot, the store of the own position.                      *)
(*                                                                         *)
(* Memory.  A load of the other thread's position may return an old value, *)
(* only never one older than the same thread has already seen (coherence   *)
(* of one atomic variable); r_view and w_view say how far each thread has  *)
(* seen.  Release/acquire makes the slot contents that belong to a seen    *)
(* position visible with it; the slot accesses themselves are plain, so a  *)
(* read and a write of one slot at the same time would be a data race.     *)
(***************************************************************************)
EXTENDS Integers, Sequences

CONSTANTS
  Items,       \* what can be queued
  NoItem,      \* an element no push has written
  kCapacity    \* number of slots

\* The code requires a power of two; nothing below needs more than this.
ASSUME CapacityAssumption == kCapacity \in Nat /\ kCapacity > 1

VARIABLES
  buffer, write_pos, read_pos,
  push,     \* try_push: where it is, and its local wp and item
  pop,      \* try_pop: where it is, and its local rp and out
  pushed,   \* positions published so far: write_pos is this modulo kCapacity
  popped,   \* positions released so far: read_pos is this modulo kCapacity
  r_view,   \* the latest value of popped the producer has seen
  w_view,   \* the latest value of pushed the consumer has seen
  taken     \* the items try_pop has returned

vars == <<buffer, write_pos, read_pos, push, pop,
          pushed, popped, r_view, w_view, taken>>

Slots == 0 .. kCapacity - 1

\* Faulty variant: the positions wrap one slot early.
AdvancedShort(position) == (position + 1) % (kCapacity - 1)

\* Faulty variant: the positions never wrap.
AdvancedStraight(position) == position + 1

\* (position + 1) & kMask
Advanced(position) == (position + 1) % kCapacity
----------------------------------------------------------------------------
Init ==
  /\ buffer = [s \in Slots |-> NoItem]
  /\ write_pos = 0
  /\ read_pos = 0
  /\ push = [at |-> "idle", wp |-> 0, item |-> NoItem]
  /\ pop = [at |-> "idle", rp |-> 0, out |-> NoItem]
  /\ pushed = 0
  /\ popped = 0
  /\ r_view = 0
  /\ w_view = 0
  /\ taken = <<>>

\* Faulty variant: the full check is missing.
PushUnchecked(v) ==
  /\ push.at = "idle"
  /\ r_view' \in r_view .. popped
  /\ push' = [at |-> "write", wp |-> write_pos, item |-> v]
  /\ UNCHANGED <<buffer, write_pos, read_pos, pop, pushed, popped, w_view, taken>>

\* try_push(v): load both positions; return false when the ring looks full.
PushLoad(v) ==
  /\ push.at = "idle"
  /\ r_view' \in r_view .. popped
  /\ IF Advanced(write_pos) = r_view' % kCapacity
     THEN UNCHANGED push
     ELSE push' = [at |-> "write", wp |-> write_pos, item |-> v]
  /\ UNCHANGED <<buffer, write_pos, read_pos, pop, pushed, popped, w_view, taken>>

PushWrite ==
  /\ push.at = "write"
  /\ buffer' = [buffer EXCEPT ![push.wp] = push.item]
  /\ push' = [push EXCEPT !.at = "publish"]
  /\ UNCHANGED <<write_pos, read_pos, pop, pushed, popped, r_view, w_view, taken>>

PushPublish ==
  /\ push.at = "publish"
  /\ write_pos' = Advanced(push.wp)
  /\ pushed' = pushed + 1
  /\ push' = [push EXCEPT !.at = "idle"]
  /\ UNCHANGED <<buffer, read_pos, pop, popped, r_view, w_view, taken>>
----------------------------------------------------------------------------
\* try_pop: load both positions; return false when the ring looks empty.
PopLoad ==
  /\ pop.at = "idle"
  /\ w_view' \in w_view .. pushed
  /\ IF read_pos = w_view' % kCapacity
     THEN UNCHANGED pop
     ELSE pop' = [pop EXCEPT !.at = "read", !.rp = read_pos]
  /\ UNCHANGED <<buffer, write_pos, read_pos, push, pushed, popped, r_view, taken>>

\* Faulty variant: the slot is given back before it has been read.
PopReadReleased ==
  /\ pop.at = "read"
  /\ read_pos' = Advanced(pop.rp)
  /\ popped' = popped + 1
  /\ pop' = [pop EXCEPT !.at = "advance"]
  /\ UNCHANGED <<buffer, write_pos, push, pushed, r_view, w_view, taken>>

PopRead ==
  /\ pop.at = "read"
  /\ pop' = [pop EXCEPT !.at = "advance", !.out = buffer[pop.rp]]
  /\ UNCHANGED <<buffer, write_pos, read_pos, push, pushed, popped, r_view, w_view, taken>>

PopAdvance ==
  /\ pop.at = "advance"
  /\ read_pos' = Advanced(pop.rp)
  /\ popped' = popped + 1
  /\ taken' = Append(taken, pop.out)
  /\ pop' = [pop EXCEPT !.at = "idle"]
  /\ UNCHANGED <<buffer, write_pos, push, pushed, r_view, w_view>>

Push == PushWrite \/ PushPublish \/ \E v \in Items : PushLoad(v)
Pop == PopLoad \/ PopRead \/ PopAdvance

Next == Push \/ Pop

Spec == Init /\ [][Next]_vars
----------------------------------------------------------------------------
(***************************************************************************)
(* Properties.                                                             *)
(***************************************************************************)
\* Types of the variables.
TypeOK ==
  /\ buffer \in [Slots -> Items \cup {NoItem}]
  /\ write_pos \in Slots /\ read_pos \in Slots
  /\ push \in [at: {"idle", "write", "publish"}, wp: Slots, item: Items \cup {NoItem}]
  /\ pop \in [at: {"idle", "read", "advance"}, rp: Slots, out: Items \cup {NoItem}]
  /\ {pushed, popped, r_view, w_view} \subseteq Nat
  /\ taken \in Seq(Items \cup {NoItem})

\* What the ring holds, in the order in which it is to come out.
Contents == [i \in 1 .. pushed - popped |-> buffer[(popped + i - 1) % kCapacity]]

\* The ring is a FIFO of kCapacity - 1 items: whatever the two threads
\* interleave and however stale the positions they see, no item is lost,
\* repeated, reordered or torn, and no push overruns an item not yet taken.
Fifo == INSTANCE BoundedFifo WITH q <- Contents, out <- taken, Bound <- kCapacity - 1
ImplementsFifo == Fifo!FifoSpec

\* The plain accesses to a slot never meet: no slot is written while the
\* consumer may be reading it.
NoDataRace ==
  push.at = "write" /\ pop.at = "read" => push.wp # pop.rp

\* One empty slot tells full from empty: comparing positions refuses a push
\* exactly when every usable slot is taken as far as the producer has seen,
\* and a pop exactly when there is nothing as far as the consumer has seen.
RefusalsExact ==
  /\ Advanced(write_pos) = r_view % kCapacity <=> pushed - r_view = kCapacity - 1
  /\ read_pos = w_view % kCapacity <=> w_view = popped
=============================================================================
