-------------------------- MODULE SpscQueueProofs --------------------------
(***************************************************************************)
(* The ring implements a bounded FIFO, for every capacity and every set of *)
(* items.                                                                  *)
(*                                                                         *)
(* The inductive invariant orders the four counters as each thread sees    *)
(* them, r_view <= popped <= w_view <= pushed <= r_view + kCapacity - 1,   *)
(* and says what each thread knows between its steps.  Everything else     *)
(* follows from positions less than kCapacity apart being different.       *)
(***************************************************************************)
EXTENDS SpscQueue, DataLemmas

\* The counters behind the positions, and how stale a view may be.
Ordered ==
  /\ write_pos = pushed % kCapacity /\ read_pos = popped % kCapacity
  /\ r_view <= popped /\ popped <= w_view /\ w_view <= pushed
  /\ pushed <= r_view + kCapacity - 1

\* What a thread that has passed its check may rely on.
Pushing ==
  /\ push.at # "idle" => /\ push.wp = write_pos
                         /\ pushed < r_view + kCapacity - 1
                         /\ push.item \in Items
  /\ push.at = "publish" => buffer[push.wp] = push.item

Popping ==
  /\ pop.at # "idle" => pop.rp = read_pos /\ popped < w_view
  /\ pop.at = "advance" => pop.out = buffer[pop.rp]

Inv == TypeOK /\ Ordered /\ Pushing /\ Popping
----------------------------------------------------------------------------
LEMMA Capacity == kCapacity \in Nat \ {0} /\ kCapacity > 1
BY CapacityAssumption

LEMMA SlotOf == \A n \in Nat : n % kCapacity \in Slots
BY Capacity DEF Slots

LEMMA Counters ==
  ASSUME Inv
  PROVE  pushed \in Nat /\ popped \in Nat /\ r_view \in Nat /\ w_view \in Nat
BY DEF Inv, TypeOK

LEMMA InitInv == Init => Inv
<1> SUFFICES ASSUME Init PROVE Inv
  OBVIOUS
<1>1. 0 \in Slots /\ 0 % kCapacity = 0
  BY Capacity DEF Slots
<1>2. TypeOK
  BY <1>1 DEF Init, TypeOK
<1>3. Ordered
  BY <1>1, Capacity DEF Init, Ordered
<1> QED BY <1>2, <1>3 DEF Inv, Init, Pushing, Popping

\* The full check: it passes only when a slot is free.
LEMMA PushLoadInv ==
  ASSUME Inv, NEW v \in Items, PushLoad(v)
  PROVE  Inv'
<1>1. /\ r_view' \in r_view .. popped
      /\ buffer' = buffer /\ write_pos' = write_pos /\ read_pos' = read_pos
      /\ pop' = pop /\ pushed' = pushed /\ popped' = popped
      /\ w_view' = w_view /\ taken' = taken
  BY DEF PushLoad
<1>2. r_view' \in Nat /\ r_view' >= r_view /\ r_view' <= popped
  BY <1>1, Counters
<1>3. Ordered'
  BY <1>1, <1>2, Counters, Capacity DEF Inv, Ordered
<1>4. TypeOK'
  BY <1>1, <1>2 DEF Inv, TypeOK, PushLoad
<1>5. Popping'
  BY <1>1 DEF Inv, Popping
<1>6. CASE push' = push
  <2>1. push.at = "idle"
    BY DEF PushLoad
  <2> QED BY <1>3, <1>4, <1>5, <1>6, <2>1 DEF Inv, Pushing
<1>7. CASE push' # push
  <2>1. /\ push' = [at |-> "write", wp |-> write_pos, item |-> v]
        /\ Advanced(write_pos) # r_view' % kCapacity
    BY <1>7 DEF PushLoad
  <2>2. Advanced(write_pos) = (pushed + 1) % kCapacity
    BY ModSucc, Capacity, Counters DEF Inv, Ordered, Advanced
  <2>3. pushed # r_view' + kCapacity - 1
    <3>1. ASSUME pushed = r_view' + kCapacity - 1 PROVE FALSE
      <4>1. pushed + 1 = r_view' + kCapacity
        BY <1>2, <3>1, Capacity, Counters
      <4>2. (pushed + 1) % kCapacity = r_view' % kCapacity
        BY <1>2, <4>1, ModRound, Capacity
      <4> QED BY <2>1, <2>2, <4>2
    <3> QED BY <3>1
  <2>4. pushed < r_view' + kCapacity - 1
    BY <1>1, <1>2, <1>3, <2>3, Counters, Capacity DEF Ordered
  <2>5. Pushing'
    BY <1>1, <2>1, <2>4 DEF Pushing
  <2> QED BY <1>3, <1>4, <1>5, <2>5 DEF Inv
<1> QED BY <1>6, <1>7

\* The slot being written is none of those that hold an item.
LEMMA FreeSlotElsewhere ==
  ASSUME Inv, push.at # "idle", NEW n \in Nat, popped <= n, n < pushed
  PROVE  n % kCapacity # push.wp
<1>1. pushed < n + kCapacity
  BY Counters, Capacity DEF Inv, Pushing, Ordered
<1>2. push.wp = pushed % kCapacity
  BY DEF Inv, Pushing, Ordered
<1> QED BY <1>1, <1>2, ModInjective, Counters, Capacity

LEMMA PushWriteInv ==
  ASSUME Inv, PushWrite
  PROVE  Inv'
<1>1. /\ push.at = "write" /\ buffer' = [buffer EXCEPT ![push.wp] = push.item]
      /\ push' = [push EXCEPT !.at = "publish"]
      /\ write_pos' = write_pos /\ read_pos' = read_pos
      /\ pop' = pop /\ pushed' = pushed /\ popped' = popped
      /\ r_view' = r_view /\ w_view' = w_view /\ taken' = taken
  BY DEF PushWrite
<1>2. TypeOK'
  BY <1>1 DEF Inv, TypeOK
<1>3. Ordered'
  BY <1>1 DEF Inv, Ordered
<1>4. push.wp \in Slots /\ buffer \in [Slots -> Items \cup {NoItem}]
      /\ push \in [at: {"idle", "write", "publish"}, wp: Slots, item: Items \cup {NoItem}]
  BY DEF Inv, TypeOK
<1>5. Pushing'
  BY <1>1, <1>4 DEF Inv, Pushing
<1>6. Popping'
  <2>1. CASE pop.at = "idle"
    BY <1>1, <2>1 DEF Popping
  <2>2. CASE pop.at # "idle"
    <3>1. pop.rp = read_pos /\ popped < pushed
      BY <2>2, Counters DEF Inv, Popping, Ordered
    <3>2. pop.rp # push.wp
      BY <1>1, <3>1, FreeSlotElsewhere, Counters DEF Inv, Ordered
    <3>3. buffer'[pop.rp] = buffer[pop.rp]
      BY <1>1, <1>4, <3>2 DEF Inv, TypeOK
    <3> QED BY <1>1, <3>3 DEF Inv, Popping
  <2> QED BY <2>1, <2>2
<1> QED BY <1>2, <1>3, <1>5, <1>6 DEF Inv

LEMMA PushPublishInv ==
  ASSUME Inv, PushPublish
  PROVE  Inv'
<1>1. /\ push.at = "publish" /\ write_pos' = Advanced(push.wp) /\ pushed' = pushed + 1
      /\ push' = [push EXCEPT !.at = "idle"]
      /\ buffer' = buffer /\ read_pos' = read_pos
      /\ pop' = pop /\ popped' = popped
      /\ r_view' = r_view /\ w_view' = w_view /\ taken' = taken
  BY DEF PushPublish
<1>2. push.wp = pushed % kCapacity /\ pushed < r_view + kCapacity - 1
  BY <1>1 DEF Inv, Pushing, Ordered
<1>3. write_pos' = pushed' % kCapacity
  BY <1>1, <1>2, ModSucc, Capacity, Counters DEF Advanced
<1>4. pushed' \in Nat /\ write_pos' \in Slots
  BY <1>1, <1>3, SlotOf, Counters
<1>5. TypeOK'
  BY <1>1, <1>4 DEF Inv, TypeOK
<1>6. Ordered'
  BY <1>1, <1>2, <1>3, Counters, Capacity DEF Inv, Ordered
<1>7. push'.at = "idle"
  BY <1>1 DEF Inv, TypeOK
<1>8. Popping'
  BY <1>1 DEF Inv, Popping
<1> QED BY <1>5, <1>6, <1>7, <1>8 DEF Inv, Pushing

\* The empty check: it passes only when there is an item.
LEMMA PopLoadInv ==
  ASSUME Inv, PopLoad
  PROVE  Inv'
<1>1. /\ w_view' \in w_view .. pushed
      /\ buffer' = buffer /\ write_pos' = write_pos /\ read_pos' = read_pos
      /\ push' = push /\ pushed' = pushed /\ popped' = popped
      /\ r_view' = r_view /\ taken' = taken
  BY DEF PopLoad
<1>2. w_view' \in Nat /\ w_view' >= w_view /\ w_view' <= pushed
  BY <1>1, Counters
<1>3. Ordered'
  BY <1>1, <1>2, Counters, Capacity DEF Inv, Ordered
<1>4. TypeOK'
  BY <1>1, <1>2 DEF Inv, TypeOK, PopLoad
<1>5. Pushing'
  BY <1>1 DEF Inv, Pushing
<1>6. Popping'
  <2>1. CASE pop' = pop
    BY <2>1 DEF PopLoad, Popping
  <2>2. CASE pop' # pop
    <3>1. /\ pop' = [pop EXCEPT !.at = "read", !.rp = read_pos]
          /\ read_pos # w_view' % kCapacity
      BY <2>2 DEF PopLoad
    <3>2. pop'.at = "read" /\ pop'.rp = read_pos
      BY <3>1 DEF Inv, TypeOK
    <3>3. popped # w_view'
      BY <3>1 DEF Inv, Ordered
    <3>4. popped < w_view'
      BY <1>2, <1>3, <1>1, <3>3, Counters DEF Ordered
    <3> QED BY <1>1, <3>2, <3>4 DEF Popping
  <2> QED BY <2>1, <2>2
<1> QED BY <1>3, <1>4, <1>5, <1>6 DEF Inv

LEMMA PopReadInv ==
  ASSUME Inv, PopRead
  PROVE  Inv'
<1>1. /\ pop.at = "read"
      /\ pop' = [pop EXCEPT !.at = "advance", !.out = buffer[pop.rp]]
      /\ buffer' = buffer /\ write_pos' = write_pos /\ read_pos' = read_pos
      /\ push' = push /\ pushed' = pushed /\ popped' = popped
      /\ r_view' = r_view /\ w_view' = w_view /\ taken' = taken
  BY DEF PopRead
<1>2. TypeOK'
  BY <1>1 DEF Inv, TypeOK
<1>3. Ordered' /\ Pushing'
  BY <1>1 DEF Inv, Ordered, Pushing
<1>4. Popping'
  BY <1>1 DEF Inv, TypeOK, Popping
<1> QED BY <1>2, <1>3, <1>4 DEF Inv

LEMMA PopAdvanceInv ==
  ASSUME Inv, PopAdvance
  PROVE  Inv'
<1>1. /\ pop.at = "advance" /\ read_pos' = Advanced(pop.rp) /\ popped' = popped + 1
      /\ taken' = Append(taken, pop.out) /\ pop' = [pop EXCEPT !.at = "idle"]
      /\ buffer' = buffer /\ write_pos' = write_pos
      /\ push' = push /\ pushed' = pushed /\ r_view' = r_view /\ w_view' = w_view
  BY DEF PopAdvance
<1>2. pop.rp = popped % kCapacity /\ popped < w_view
  BY <1>1 DEF Inv, Popping, Ordered
<1>3. read_pos' = popped' % kCapacity
  BY <1>1, <1>2, ModSucc, Capacity, Counters DEF Advanced
<1>4. popped' \in Nat /\ read_pos' \in Slots
  BY <1>1, <1>3, SlotOf, Counters
<1>5. TypeOK'
  BY <1>1, <1>4 DEF Inv, TypeOK
<1>6. Ordered'
  BY <1>1, <1>2, <1>3, Counters, Capacity DEF Inv, Ordered
<1>7. pop'.at = "idle"
  BY <1>1 DEF Inv, TypeOK
<1>8. Pushing'
  BY <1>1 DEF Inv, Pushing
<1> QED BY <1>5, <1>6, <1>7, <1>8 DEF Inv, Popping

LEMMA NextInv == Inv /\ [Next]_vars => Inv'
<1> SUFFICES ASSUME Inv, [Next]_vars PROVE Inv'
  OBVIOUS
<1>1. CASE UNCHANGED vars
  BY <1>1 DEF vars, Inv, TypeOK, Ordered, Pushing, Popping
<1> QED BY <1>1, PushLoadInv, PushWriteInv, PushPublishInv, PopLoadInv, PopReadInv,
           PopAdvanceInv DEF Next, Push, Pop

LEMMA Inductive == Spec => []Inv
BY InitInv, NextInv, PTL DEF Spec
----------------------------------------------------------------------------
(***************************************************************************)
(* Refinement: publishing is Put, advancing is Get, the rest stutters.     *)
(***************************************************************************)
LEMMA ContentsSpec ==
  ASSUME Inv
  PROVE  /\ pushed - popped \in Nat
         /\ Contents \in Seq(Items \cup {NoItem})
         /\ Len(Contents) = pushed - popped
         /\ \A i \in 1 .. pushed - popped :
              Contents[i] = buffer[(popped + i - 1) % kCapacity]
<1>1. pushed - popped \in Nat
  BY Counters DEF Inv, Ordered
<1>2. ASSUME NEW i \in 1 .. pushed - popped
      PROVE  buffer[(popped + i - 1) % kCapacity] \in Items \cup {NoItem}
  <2>1. popped + i - 1 \in Nat
    BY <1>1, Counters
  <2>2. (popped + i - 1) % kCapacity \in Slots
    BY <2>1, SlotOf
  <2> QED BY <2>2 DEF Inv, TypeOK
<1> QED BY <1>1, <1>2 DEF Contents

LEMMA LoadStutters ==
  ASSUME Inv, UNCHANGED <<buffer, pushed, popped, taken>>
  PROVE  UNCHANGED <<Contents, taken>>
BY DEF Contents

LEMMA WriteStutters ==
  ASSUME Inv, PushWrite
  PROVE  UNCHANGED <<Contents, taken>>
<1>1. /\ push.at # "idle" /\ buffer' = [buffer EXCEPT ![push.wp] = push.item]
      /\ pushed' = pushed /\ popped' = popped /\ taken' = taken
  BY DEF PushWrite
<1>2. ASSUME NEW i \in 1 .. pushed - popped
      PROVE  buffer'[(popped + i - 1) % kCapacity] = buffer[(popped + i - 1) % kCapacity]
  <2>1. popped + i - 1 \in Nat /\ popped <= popped + i - 1 /\ popped + i - 1 < pushed
    BY Counters
  <2>2. (popped + i - 1) % kCapacity # push.wp
    BY <1>1, <2>1, FreeSlotElsewhere
  <2>3. (popped + i - 1) % kCapacity \in Slots
    BY <2>1, SlotOf
  <2> QED BY <1>1, <2>2, <2>3 DEF Inv, TypeOK
<1> QED BY <1>1, <1>2 DEF Contents

LEMMA PublishPuts ==
  ASSUME Inv, PushPublish
  PROVE  Fifo!Put(push.item) /\ push.item \in Items
<1> DEFINE n == pushed - popped
<1>1. /\ push.at = "publish" /\ pushed' = pushed + 1 /\ buffer' = buffer
      /\ popped' = popped /\ taken' = taken
  BY DEF PushPublish
<1>2. /\ push.item \in Items /\ buffer[pushed % kCapacity] = push.item
      /\ pushed < r_view + kCapacity - 1
  BY <1>1 DEF Inv, Pushing, Ordered
<1>3. /\ n \in Nat /\ Contents \in Seq(Items \cup {NoItem}) /\ Len(Contents) = n
      /\ \A i \in 1 .. n : Contents[i] = buffer[(popped + i - 1) % kCapacity]
  BY ContentsSpec
<1>4. n < kCapacity - 1
  BY <1>2, Counters, Capacity DEF Inv, Ordered
<1>5. Contents' = [i \in 1 .. n + 1 |-> buffer[(popped + i - 1) % kCapacity]]
  <2>1. pushed' - popped' = n + 1
    BY <1>1, Counters
  <2> QED BY <1>1, <2>1 DEF Contents
<1>6. Contents' = Append(Contents, push.item)
  <2>1. Append(Contents, push.item) =
          [i \in 1 .. n + 1 |-> IF i = n + 1 THEN push.item ELSE Contents[i]]
    BY <1>2, <1>3
  <2>2. ASSUME NEW i \in 1 .. n + 1
        PROVE  buffer[(popped + i - 1) % kCapacity] =
                 IF i = n + 1 THEN push.item ELSE Contents[i]
    <3>1. CASE i = n + 1
      <4>1. popped + i - 1 = pushed
        BY <3>1, Counters
      <4> QED BY <1>2, <3>1, <4>1
    <3>2. CASE i # n + 1
      <4>1. i \in 1 .. n
        BY <1>3, <3>2
      <4> QED BY <1>3, <3>2, <4>1
    <3> QED BY <3>1, <3>2
  <2> HIDE DEF n
  <2> QED BY <1>5, <2>1, <2>2
<1> QED BY <1>1, <1>2, <1>3, <1>4, <1>6 DEF Fifo!Put

LEMMA AdvanceGets ==
  ASSUME Inv, PopAdvance
  PROVE  Fifo!Get
<1> DEFINE n == pushed - popped
<1>1. /\ pop.at = "advance" /\ popped' = popped + 1 /\ buffer' = buffer
      /\ pushed' = pushed /\ taken' = Append(taken, pop.out)
  BY DEF PopAdvance
<1>2. pop.out = buffer[popped % kCapacity] /\ popped < pushed
  BY <1>1, Counters DEF Inv, Popping, Ordered
<1>3. /\ n \in Nat /\ Contents \in Seq(Items \cup {NoItem}) /\ Len(Contents) = n
      /\ \A i \in 1 .. n : Contents[i] = buffer[(popped + i - 1) % kCapacity]
  BY ContentsSpec
<1>4. n >= 1
  BY <1>2, Counters
<1>5. Contents # <<>> /\ Head(Contents) = pop.out
  <2>1. Contents # <<>> /\ Head(Contents) = Contents[1]
    BY <1>3, <1>4
  <2>2. Contents[1] = buffer[(popped + 1 - 1) % kCapacity] /\ popped + 1 - 1 = popped
    BY <1>3, <1>4, Counters
  <2> QED BY <1>2, <2>1, <2>2
<1>6. Contents' = [i \in 1 .. n - 1 |-> buffer[(popped + 1 + i - 1) % kCapacity]]
  <2>1. pushed' - popped' = n - 1
    BY <1>1, Counters
  <2> QED BY <1>1, <2>1 DEF Contents
<1>7. Contents' = Tail(Contents)
  <2>1. Tail(Contents) = [i \in 1 .. n - 1 |-> Contents[i + 1]]
    <3>1. /\ Tail(Contents) \in Seq(Items \cup {NoItem})
          /\ Len(Tail(Contents)) = n - 1
          /\ \A i \in 1 .. n - 1 : Tail(Contents)[i] = Contents[i + 1]
      BY <1>3, <1>4, <1>5, HeadTailProperties
    <3>2. Tail(Contents) \in [1 .. n - 1 -> Items \cup {NoItem}]
      BY <3>1, LenProperties
    <3> HIDE DEF n
    <3> QED BY <3>1, <3>2
  <2>2. ASSUME NEW i \in 1 .. n - 1
        PROVE  buffer[(popped + 1 + i - 1) % kCapacity] = Contents[i + 1]
    <3>1. i + 1 \in 1 .. n
      BY <1>3
    <3>2. popped + 1 + i - 1 = popped + (i + 1) - 1
      BY Counters, <1>3
    <3> QED BY <1>3, <3>1, <3>2
  <2> HIDE DEF n
  <2> QED BY <1>6, <2>1, <2>2
<1> QED BY <1>1, <1>5, <1>7 DEF Fifo!Get
----------------------------------------------------------------------------
\* The variables have their types.
THEOREM TypeCorrect == Spec => []TypeOK
<1>1. Inv => TypeOK
  BY DEF Inv
<1> QED BY Inductive, <1>1, PTL

\* A slot is never written while the consumer may be reading it.
THEOREM RaceFree == Spec => []NoDataRace
<1>1. Inv => NoDataRace
  <2> SUFFICES ASSUME Inv, push.at = "write", pop.at = "read" PROVE push.wp # pop.rp
    BY DEF NoDataRace
  <2>1. pop.rp = popped % kCapacity /\ popped < pushed
    BY Counters DEF Inv, Popping, Ordered
  <2> QED BY <2>1, FreeSlotElsewhere, Counters
<1> QED BY Inductive, <1>1, PTL

\* Comparing positions modulo kCapacity decides full and empty exactly.
THEOREM ChecksExact == Spec => []RefusalsExact
<1>1. Inv => RefusalsExact
  <2> SUFFICES ASSUME Inv PROVE RefusalsExact
    OBVIOUS
  <2>1. Advanced(write_pos) = (pushed + 1) % kCapacity
    BY ModSucc, Capacity, Counters DEF Inv, Ordered, Advanced
  <2>2. ASSUME pushed - r_view = kCapacity - 1
        PROVE  Advanced(write_pos) = r_view % kCapacity
    <3>1. pushed + 1 = r_view + kCapacity
      BY <2>2, Counters, Capacity
    <3> QED BY <2>1, <3>1, ModRound, Counters, Capacity
  <2>3. ASSUME pushed - r_view # kCapacity - 1
        PROVE  Advanced(write_pos) # r_view % kCapacity
    <3> DEFINE t == pushed + 1
    <3>1. t \in Nat /\ r_view < t /\ t < r_view + kCapacity
      BY <2>3, Counters, Capacity DEF Inv, Ordered
    <3>2. Advanced(write_pos) = t % kCapacity
      BY <2>1
    <3> HIDE DEF t
    <3>3. r_view % kCapacity # t % kCapacity
      BY <3>1, ModInjective, Counters, Capacity
    <3> QED BY <3>2, <3>3
  <2>4. read_pos = w_view % kCapacity <=> w_view = popped
    <3>1. CASE w_view = popped
      BY <3>1 DEF Inv, Ordered
    <3>2. CASE w_view # popped
      <4>1. popped < w_view /\ w_view < popped + kCapacity
        BY <3>2, Counters, Capacity DEF Inv, Ordered
      <4> QED BY <3>2, <4>1, ModInjective, Counters, Capacity DEF Inv, Ordered
    <3> QED BY <3>1, <3>2
  <2> QED BY <2>2, <2>3, <2>4 DEF RefusalsExact
<1> QED BY Inductive, <1>1, PTL

\* Every behaviour of the two threads is one of a FIFO of kCapacity - 1
\* items.
THEOREM Refinement == Spec => ImplementsFifo
<1>1. Init => Fifo!FifoInit
  BY DEF Init, Fifo!FifoInit, Contents
<1>2. Inv /\ [Next]_vars => [Fifo!FifoNext]_<<Contents, taken>>
  <2> SUFFICES ASSUME Inv, [Next]_vars
               PROVE  Fifo!FifoNext \/ UNCHANGED <<Contents, taken>>
    OBVIOUS
  <2>1. CASE PushPublish
    BY <2>1, PublishPuts DEF Fifo!FifoNext
  <2>2. CASE PopAdvance
    BY <2>2, AdvanceGets DEF Fifo!FifoNext
  <2>3. CASE PushWrite
    BY <2>3, WriteStutters
  <2>4. CASE PopLoad \/ PopRead \/ UNCHANGED vars \/ \E v \in Items : PushLoad(v)
    BY <2>4, LoadStutters DEF PopLoad, PopRead, PushLoad, vars
  <2> QED BY <2>1, <2>2, <2>3, <2>4 DEF Next, Push, Pop
<1> QED BY Inductive, <1>1, <1>2, PTL DEF Spec, ImplementsFifo, Fifo!FifoSpec
=============================================================================
