-------------------------- MODULE GapBufferProofs --------------------------
(***************************************************************************)
(* Proofs about the gap buffer, for every buffer capacity, every set of    *)
(* sessions, datagrams and clock readings, and every configuration.        *)
(*                                                                         *)
(* The inductive invariant IInv adds to the properties what they rest on:  *)
(* the high-water mark is never behind next_expected, a receiver without a *)
(* session or a position holds and has delivered nothing in this epoch,    *)
(* and a walk in progress stays below the high-water mark.                 *)
(***************************************************************************)
EXTENDS GapBuffer, DataLemmas

Quiescent(g) == g.next_expected = g.high_water

\* The buffer part of WindowSound, for an object g whose lowest admissible
\* buffered sequence number is low.
SoundFrom(g, low) ==
  \A i \in SlotIndex :
    g.slots[i].occupied =>
      /\ i = g.slots[i].seq_num % kCapacity
      /\ g.slots[i].seq_num < g.high_water
      /\ g.slots[i].seq_num < g.next_expected + kCapacity
      /\ g.slots[i].seq_num >= low
      /\ g.slots[i].body = Body(g.session, g.slots[i].seq_num)

\* An object between two calls, its gap state aside.
Well(g) ==
  /\ g \in State
  /\ g.next_expected <= g.high_water
  /\ SoundFrom(g, g.next_expected + 1)
  /\ ~g.seq_synced => g.next_expected = 0 /\ g.high_water = 0
  /\ g.session = Blank => Quiescent(g)

GapEq(g) == g.in_gap <=> g.next_expected < g.high_water

\* h has the stream position and the buffer of g.
SameStream(h, g) ==
  /\ h.session = g.session
  /\ h.seq_synced = g.seq_synced
  /\ h.next_expected = g.next_expected
  /\ h.high_water = g.high_water
  /\ h.slots = g.slots

\* GapEventExact, for the on_gap_ calls made on an object g.
ExactCalls(calls, g) ==
  \A e \in calls :
    /\ e \in [first_missing_seq: Nat, last_missing_seq: Int]
    /\ e.first_missing_seq = g.next_expected
    /\ e.first_missing_seq <= e.last_missing_seq
    /\ e.last_missing_seq < g.high_water
    /\ \A s \in e.first_missing_seq .. e.last_missing_seq : ~Holds(g, s)

Underway ==
  pc # "idle" => /\ gb.seq_synced
                 /\ gb.session = rx.session
                 /\ rx.session \in Sessions
                 /\ rx.seq_num + rx.msg_count <= gb.high_water

NothingYet ==
  (~gb.seq_synced \/ gb.session = Blank) => epoch_start = Len(delivered)

IInv ==
  /\ TypeOK
  /\ gb.next_expected <= gb.high_water
  /\ WindowSound
  /\ ~gb.seq_synced => gb.next_expected = 0 /\ gb.high_water = 0
  /\ gb.session = Blank => Quiescent(gb)
  /\ NothingYet
  /\ InOrderOnce
  /\ GapTracked
  /\ Underway
  /\ RequestsOnlyMissing
  /\ GapEventExact
----------------------------------------------------------------------------
(***************************************************************************)
(* Arithmetic.                                                             *)
(***************************************************************************)
\* seq & kMask is an index of the slot array.
LEMMA SlotOfSeq ==
  ASSUME NEW s \in Nat
  PROVE  s % kCapacity \in SlotIndex
BY ConstantsAssumption DEF SlotIndex

\* Two sequence numbers closer than kCapacity have different slots.
LEMMA SlotInjective ==
  ASSUME NEW s \in Nat, NEW t \in Nat, s < t, t < s + kCapacity
  PROVE  s % kCapacity # t % kCapacity
BY ConstantsAssumption, ModInjective
----------------------------------------------------------------------------
(***************************************************************************)
(* The methods.                                                            *)
(***************************************************************************)
\* missing_run() stops at its limit or at a buffered message, and skips
\* none.
LEMMA MissingRunSpec ==
  ASSUME NEW g \in State, g.next_expected <= g.high_water
  PROVE  LET limit == Least(g.high_water - g.next_expected, MaxRetransmitCount)
         IN  /\ MissingRun(g) \in 0 .. limit
             /\ MissingRun(g) = limit \/ Holds(g, g.next_expected + MissingRun(g))
             /\ \A m \in 0 .. MissingRun(g) - 1 : ~Holds(g, g.next_expected + m)
<1> DEFINE limit == Least(g.high_water - g.next_expected, MaxRetransmitCount)
           Stop(n) == n = limit \/ Holds(g, g.next_expected + n)
           T == {n \in 0 .. limit : Stop(n)}
           P(n) == Stop(n) /\ \A m \in 0 .. n - 1 : ~Holds(g, g.next_expected + m)
<1>1. limit \in Nat
  BY ConstantsAssumption DEF Least, State
<1>2. T \subseteq Nat /\ limit \in T
  BY <1>1
<1>3. PICK n \in T : \A y \in T : n <= y
  BY <1>2, LeastElement
<1>4. n \in 0 .. limit /\ P(n)
  BY <1>1, <1>3
<1>5. MissingRun(g) = CHOOSE k \in 0 .. limit : P(k)
  BY DEF MissingRun
<1> HIDE DEF P
<1>6. MissingRun(g) \in 0 .. limit /\ P(MissingRun(g))
  BY <1>4, <1>5
<1> QED BY <1>6 DEF P

\* check_gap_timeout() leaves the stream and the buffer alone, keeps the gap
\* state right, and asks only for messages that are missing.
LEMMA TimeoutSpec ==
  ASSUME NEW g, Well(g), GapEq(g), NEW now \in Nat, CheckGapTimeout(g, now)
  PROVE  /\ Well(gb')
         /\ GapEq(gb')
         /\ SameStream(gb', g)
         /\ retx_call' \subseteq Request
         /\ RequestsOnlyMissing'
<1> DEFINE m == MissingRun(g)
           limit == Least(g.high_water - g.next_expected, MaxRetransmitCount)
<1>1. /\ m \in 0 .. limit
      /\ \A k \in 0 .. m - 1 : ~Holds(g, g.next_expected + k)
  BY MissingRunSpec DEF Well
<1>2. /\ limit \in Nat /\ limit <= MaxRetransmitCount
      /\ limit <= g.high_water - g.next_expected
  BY ConstantsAssumption DEF Least, Well, State
<1>3. m \in Nat /\ m <= MaxRetransmitCount /\ g.next_expected + m <= g.high_water
  <2>1. g.next_expected \in Nat /\ g.high_water \in Nat
    BY DEF Well, State
  <2> HIDE DEF m, limit
  <2> QED BY <1>1, <1>2, <2>1, ConstantsAssumption
<1> HIDE DEF m, limit
<1>4. CASE gb' = g /\ retx_call' = {}
  BY <1>4 DEF RequestsOnlyMissing, SameStream
<1>5. CASE RequestDue(g, now) /\ MissingRun(g) = 0
  <2>1. gb' = [g EXCEPT !.in_gap = (g.next_expected < g.high_water)] /\ retx_call' = {}
    BY <1>5 DEF CheckGapTimeout
  <2>2. gb' = g
    BY <2>1 DEF GapEq, Well, State
  <2> QED BY <1>4, <2>1, <2>2
<1>6. CASE RequestDue(g, now) /\ MissingRun(g) # 0
  <2>1. /\ retx_call' = {RequestFor(g)}
        /\ gb' = [g EXCEPT !.gap_last_retx = now,
                           !.retx_requested_end = g.next_expected + m]
    BY <1>6 DEF CheckGapTimeout, m
  <2>2. gb' \in State /\ SameStream(gb', g) /\ gb'.in_gap = g.in_gap
    <3>1. g \in State /\ g.next_expected + m \in Nat
      BY <1>3 DEF Well, State
    <3>2. gb' \in State
      BY <2>1, <3>1, Zenon DEF State
    <3>3. SameStream(gb', g) /\ gb'.in_gap = g.in_gap
      BY <2>1, <3>1 DEF State, SameStream
    <3> QED BY <3>2, <3>3
  <2>3. Well(gb')
    BY <2>2 DEF Well, SoundFrom, SameStream, Quiescent
  <2>4. GapEq(gb')
    BY <2>2 DEF GapEq, SameStream
  <2>5. RequestFor(g) \in Request
    BY <1>3 DEF RequestFor, Request, Well, State, m
  <2>6. RequestsOnlyMissing'
    <3> DEFINE r == RequestFor(g)
    <3>1. r.session = gb'.session /\ r.first_seq = gb'.next_expected /\ r.count = m
      BY <2>2 DEF RequestFor, m, SameStream
    <3>2. m \in 1 .. MaxRetransmitCount
      BY <1>3, <1>6, ConstantsAssumption DEF m
    <3>3. ASSUME NEW s \in r.first_seq .. r.first_seq + r.count - 1
          PROVE  gb'.next_expected <= s /\ s < gb'.high_water /\ ~Holds(gb', s)
      <4>1. g.next_expected \in Nat /\ g.high_water \in Nat
        BY DEF Well, State
      <4>2. s \in g.next_expected .. g.next_expected + m - 1
        BY <3>1, <3>3, <2>2 DEF SameStream
      <4>3. s - g.next_expected \in 0 .. m - 1 /\ s = g.next_expected + (s - g.next_expected)
        BY <4>1, <4>2, <1>3
      <4>4. ~Holds(g, s)
        BY <4>3, <1>1
      <4> QED BY <4>1, <4>2, <4>4, <1>3, <2>2 DEF SameStream, Holds
    <3> QED BY <2>1, <3>1, <3>2, <3>3 DEF RequestsOnlyMissing
  <2> QED BY <2>1, <2>2, <2>3, <2>4, <2>5, <2>6
<1> QED BY <1>4, <1>5, <1>6 DEF CheckGapTimeout

\* An object that waits for the next message to be sent has no message
\* buffered.
LEMMA QuiescentEmpty ==
  ASSUME NEW g, Well(g), Quiescent(g)
  PROVE  /\ \A i \in SlotIndex : ~g.slots[i].occupied
         /\ \A s \in Nat : ~Holds(g, s)
<1>1. g.next_expected \in Nat /\ g.high_water \in Nat
  BY DEF Well, State
<1>2. ASSUME NEW i \in SlotIndex, g.slots[i].occupied PROVE FALSE
  <2>1. g.slots[i].seq_num \in Nat
    BY DEF Well, State, Slot
  <2> QED BY <1>1, <1>2, <2>1 DEF Well, SoundFrom, Quiescent
<1> QED BY <1>2, SlotOfSeq DEF Holds

\* reset_sequence_state() leaves an empty object at the configured position.
LEMMA ResetSpec ==
  ASSUME NEW g \in State, NEW sess \in Sessions \cup {Blank}
  PROVE  LET h == [ResetSequenceState(g) EXCEPT !.session = sess]
         IN  Well(h) /\ GapEq(h) /\ Quiescent(h) /\ h.session = sess
<1> DEFINE h == [ResetSequenceState(g) EXCEPT !.session = sess]
<1>1. FreeSlot \in Slot
  BY DEF FreeSlot, Slot, Body
<1>2. [i \in SlotIndex |-> FreeSlot] \in [SlotIndex -> Slot]
  BY <1>1
<1>3. h \in State
  <2>1. ExpectedFirstSeq \in Nat /\ 0 \in Nat
    BY ConstantsAssumption
  <2>2. (ExpectedFirstSeq # 0) \in BOOLEAN
    OBVIOUS
  <2> QED BY <1>2, <2>1, <2>2, Zenon DEF ResetSequenceState, State
<1>4. /\ h.session = sess
      /\ h.seq_synced = (ExpectedFirstSeq # 0)
      /\ h.next_expected = ExpectedFirstSeq
      /\ h.high_water = ExpectedFirstSeq
      /\ h.in_gap = FALSE
      /\ h.slots = [i \in SlotIndex |-> FreeSlot]
  BY DEF ResetSequenceState, State
<1>5. \A i \in SlotIndex : ~h.slots[i].occupied
  BY <1>4 DEF FreeSlot
<1> HIDE DEF h
<1>6. ExpectedFirstSeq \in Nat
  BY ConstantsAssumption
<1>7. Well(h)
  <2>1. ~h.seq_synced => ExpectedFirstSeq = 0
    BY <1>4, Zenon
  <2>2. SoundFrom(h, h.next_expected + 1)
    BY <1>5 DEF SoundFrom
  <2> QED BY <1>3, <1>4, <1>6, <2>1, <2>2 DEF Well, Quiescent
<1>8. GapEq(h) /\ Quiescent(h)
  BY <1>4, <1>6 DEF GapEq, Quiescent
<1> QED BY <1>4, <1>7, <1>8 DEF h

\* check_session() and the first-packet branch of ingest() give the object
\* the packet's session; the position moves only in a new session or where
\* there was none.
LEMMA PositionedSpec ==
  ASSUME NEW g, Well(g), GapEq(g), NEW p \in Headers
  PROVE  LET h == Positioned(g, p)
         IN  /\ Well(h) /\ GapEq(h)
             /\ h.session = p.session
             /\ \/ RollsOver(g, p)
                \/ g.session = Blank
                \/ ~g.seq_synced
                \/ h = g
<1> DEFINE c == CheckSession(g, p)
           h == Positioned(g, p)
<1>1. p.session \in Sessions /\ p.seq_num \in Nat /\ p.session # Blank
  BY ConstantsAssumption DEF Headers
<1>2. g \in State /\ g.next_expected \in Nat /\ g.high_water \in Nat
  BY DEF Well, State
<1>3. Well(c) /\ GapEq(c) /\ c.session = p.session
  <2>1. CASE RollsOver(g, p)
    BY <2>1, <1>1, <1>2, ResetSpec DEF CheckSession
  <2>2. CASE ~RollsOver(g, p)
    <3>1. c = [g EXCEPT !.session = p.session]
      BY <2>2 DEF CheckSession
    <3>2. CASE g.session = p.session
      <4>1. c = g
        BY <3>1, <3>2, <1>2 DEF State
      <4> QED BY <4>1, <3>2
    <3>3. CASE g.session = Blank
      <4>1. c \in State
        BY <3>1, <1>1, <1>2, Zenon DEF State
      <4>2. /\ c.session = p.session /\ c.seq_synced = g.seq_synced
            /\ c.next_expected = g.next_expected /\ c.high_water = g.high_water
            /\ c.in_gap = g.in_gap /\ c.slots = g.slots
        BY <3>1, <1>2 DEF State
      <4>3. \A i \in SlotIndex : ~c.slots[i].occupied
        BY <3>3, <4>2, QuiescentEmpty DEF Well
      <4> HIDE DEF c
      <4> QED BY <4>1, <4>2, <4>3, <1>1 DEF Well, SoundFrom, GapEq
    <3> QED BY <2>2, <3>2, <3>3 DEF RollsOver
  <2> QED BY <2>1, <2>2
<1>4. ~RollsOver(g, p) /\ g.session # Blank => c = g
  BY <1>2 DEF CheckSession, RollsOver, State
<1>5. c.seq_synced => h = c
  BY DEF Positioned, SyncSequence
<1> HIDE DEF c
<1>6. h = SyncSequence(c, p)
  BY DEF Positioned, c
<1> HIDE DEF h
<1> DEFINE Goal == /\ Well(h) /\ GapEq(h)
                   /\ h.session = p.session
                   /\ \/ RollsOver(g, p)
                      \/ g.session = Blank
                      \/ ~g.seq_synced
                      \/ h = g
<1>7. ASSUME h = c PROVE Goal
  BY <1>3, <1>4, <1>7
<1>8. ASSUME h # c PROVE Goal
  <2>1. ~c.seq_synced /\ p.seq_num # 0
    BY <1>6, <1>8 DEF SyncSequence
  <2>2. h = [c EXCEPT !.next_expected = p.seq_num, !.high_water = p.seq_num,
                      !.seq_synced = TRUE]
    BY <1>6, <2>1 DEF SyncSequence
  <2>3. c \in State /\ Quiescent(c) /\ ~c.in_gap
    BY <1>3, <2>1 DEF Well, Quiescent, GapEq
  <2>4. h \in State
    BY <1>1, <2>2, <2>3, Zenon DEF State
  <2>5. /\ h.session = c.session /\ h.seq_synced = TRUE
        /\ h.next_expected = p.seq_num /\ h.high_water = p.seq_num
        /\ h.in_gap = c.in_gap /\ h.slots = c.slots
    BY <2>2, <2>3 DEF State
  <2>6. \A i \in SlotIndex : ~h.slots[i].occupied
    BY <1>3, <2>3, <2>5, QuiescentEmpty
  <2>7. Well(h) /\ GapEq(h) /\ h.session = p.session
    BY <1>1, <1>3, <2>3, <2>4, <2>5, <2>6 DEF Well, SoundFrom, GapEq, Quiescent
  <2> QED BY <1>4, <2>1, <2>7
<1> QED BY <1>7, <1>8 DEF h

\* A change of gap timers or of the End of Session mark disturbs neither the
\* buffer nor the events.
LEMMA SameStreamSpec ==
  ASSUME NEW g, Well(g), NEW h \in State, SameStream(h, g)
  PROVE  /\ Well(h)
         /\ \A calls : ExactCalls(calls, g) => ExactCalls(calls, h)
<1>1. Well(h)
  BY DEF Well, SoundFrom, SameStream, Quiescent
<1>2. \A s : Holds(g, s) <=> Holds(h, s)
  BY DEF Holds, SameStream
<1>3. g.next_expected = h.next_expected /\ g.high_water = h.high_water
  BY DEF SameStream
<1> QED BY <1>1, <1>2, <1>3, Zenon DEF ExactCalls

\* note_high_water() raises the mark to what a packet announces.
LEMMA HighWaterSpec ==
  ASSUME NEW g, Well(g), g.seq_synced, g.session # Blank, NEW n \in Nat
  PROVE  LET h == NoteHighWater(g, n)
         IN  /\ Well(h)
             /\ h.session = g.session /\ h.seq_synced = g.seq_synced
             /\ h.next_expected = g.next_expected /\ h.slots = g.slots
             /\ h.in_gap = g.in_gap
             /\ h.high_water >= n
             /\ n <= g.high_water => h = g
<1> DEFINE h == NoteHighWater(g, n)
<1>1. g \in State /\ g.next_expected \in Nat /\ g.high_water \in Nat
  BY DEF Well, State
<1>2. CASE n <= g.high_water
  <2>1. ~(n > g.high_water)
    BY <1>1, <1>2
  <2>2. h = g
    BY <2>1 DEF NoteHighWater
  <2>3. h.high_water >= n
    BY <1>1, <1>2, <2>2
  <2> HIDE DEF h
  <2> QED BY <2>2, <2>3 DEF h
<1>3. CASE n > g.high_water
  <2>1. h = [g EXCEPT !.high_water = n]
    BY <1>3 DEF NoteHighWater
  <2>2. h \in State
    BY <1>1, <2>1, Zenon DEF State
  <2>3. /\ h.session = g.session /\ h.seq_synced = g.seq_synced
        /\ h.next_expected = g.next_expected /\ h.slots = g.slots
        /\ h.in_gap = g.in_gap /\ h.high_water = n
    BY <1>1, <2>1 DEF State
  <2> HIDE DEF h
  <2>4. SoundFrom(h, h.next_expected + 1)
    <3> SUFFICES ASSUME NEW i \in SlotIndex, g.slots[i].occupied
                 PROVE  g.slots[i].seq_num < n
      BY <2>3 DEF Well, SoundFrom
    <3>1. g.slots[i].seq_num \in Nat
      BY <1>1 DEF State, Slot
    <3> QED BY <1>1, <1>3, <3>1 DEF Well, SoundFrom
  <2>5. Well(h)
    BY <1>1, <1>3, <2>2, <2>3, <2>4 DEF Well, Quiescent
  <2>6. h.high_water >= n /\ ~(n <= g.high_water)
    BY <1>1, <1>3, <2>3
  <2> QED BY <2>3, <2>5, <2>6 DEF h
<1>4. n <= g.high_water \/ n > g.high_water
  BY <1>1
<1> QED BY <1>2, <1>3, <1>4, Zenon

\* handle_gap() starts the episode and leaves the stream alone.
LEMMA HandleGapSpec ==
  ASSUME NEW g \in State, NEW now \in Nat
  PROVE  LET h == HandleGap(g, now)
         IN h \in State /\ SameStream(h, g) /\ h.in_gap = TRUE
<1> DEFINE h == HandleGap(g, now)
<1>1. CASE g.in_gap
  BY <1>1 DEF HandleGap, SameStream, State
<1>2. CASE ~g.in_gap
  <2>1. h = [g EXCEPT !.in_gap = TRUE, !.gap_detected_at = now, !.gap_last_retx = 0]
    BY <1>2 DEF HandleGap
  <2>2. TRUE \in BOOLEAN /\ 0 \in Nat
    OBVIOUS
  <2>3. h \in State
    BY <2>1, <2>2, Zenon DEF State
  <2>4. SameStream(h, g) /\ h.in_gap = TRUE
    BY <2>1 DEF State, SameStream
  <2> QED BY <2>3, <2>4
<1> QED BY <1>1, <1>2

\* A packet that announces the numbers below n and starts at first: the mark
\* is raised, a loss episode opens when first lies past next_expected, and
\* what is reported is exactly what is known to be missing.
LEMMA AnnounceSpec ==
  ASSUME NEW g, Well(g), GapEq(g), g.seq_synced, g.session # Blank,
         NEW n \in Nat, NEW first \in Nat, first <= n, NEW now \in Nat
  PROVE  LET g1  == NoteHighWater(g, n)
             gap == first > g.next_expected
             g2  == IF gap THEN HandleGap(g1, now) ELSE g1
             calls == IF gap THEN GapCall(g1, first) ELSE {}
         IN  /\ Well(g2)
             /\ g2.session = g.session /\ g2.seq_synced = g.seq_synced
             /\ g2.next_expected = g.next_expected
             /\ g2.high_water >= n
             /\ n = first => GapEq(g2)
             /\ ExactCalls(calls, g2)
<1> DEFINE g1  == NoteHighWater(g, n)
           gap == first > g.next_expected
           g2  == IF gap THEN HandleGap(g1, now) ELSE g1
           calls == IF gap THEN GapCall(g1, first) ELSE {}
<1>1. /\ Well(g1)
      /\ g1.session = g.session /\ g1.seq_synced = g.seq_synced
      /\ g1.next_expected = g.next_expected /\ g1.slots = g.slots
      /\ g1.in_gap = g.in_gap
      /\ g1.high_water >= n
      /\ n <= g.high_water => g1 = g
  BY HighWaterSpec
<1> HIDE DEF g1
<1>2. g.next_expected \in Nat /\ g.high_water \in Nat /\ g.next_expected <= g.high_water
  BY DEF Well, State
<1>2a. g1 \in State /\ g1.high_water \in Nat
  BY <1>1 DEF Well, State
<1>3. CASE gap
  <2>1. g2 \in State /\ SameStream(g2, g1) /\ g2.in_gap = TRUE
    BY <1>2a, <1>3, HandleGapSpec
  <2> HIDE DEF g2
  <2>2. Well(g2) /\ (ExactCalls(calls, g1) => ExactCalls(calls, g2))
    BY <1>1, <2>1, SameStreamSpec, Zenon
  <2>3. GapEq(g2)
    BY <1>1, <1>2, <1>2a, <1>3, <2>1 DEF GapEq, SameStream
  <2>4. ExactCalls(calls, g1)
    <3>1. CASE g1.in_gap
      BY <3>1 DEF GapCall, ExactCalls
    <3>2. CASE ~g1.in_gap
      <4>1. Quiescent(g)
        BY <3>2, <1>1, <1>2 DEF GapEq, Quiescent
      <4>2. \A s \in Nat : ~Holds(g1, s)
        BY <4>1, <1>1, QuiescentEmpty DEF Holds
      <4>3. calls = {[first_missing_seq |-> g.next_expected,
                      last_missing_seq |-> first - 1]}
        BY <3>2, <1>1, <1>3 DEF GapCall
      <4>4. first - 1 \in Int /\ g.next_expected <= first - 1 /\ first - 1 < g1.high_water
        BY <1>1, <1>2, <1>2a, <1>3
      <4>5. \A s \in g.next_expected .. first - 1 : ~Holds(g1, s)
        BY <1>2, <4>2
      <4> HIDE DEF calls
      <4> QED BY <1>1, <1>2, <4>3, <4>4, <4>5 DEF ExactCalls
    <3> QED BY <3>1, <3>2
  <2>5. g2.high_water >= n /\ g2.session = g.session /\ g2.seq_synced = g.seq_synced
        /\ g2.next_expected = g.next_expected
    BY <1>1, <2>1 DEF SameStream
  <2> QED BY <2>2, <2>3, <2>4, <2>5 DEF g1, g2
<1>4. CASE ~gap
  <2>1. g2 = g1 /\ calls = {}
    BY <1>4
  <2>2. ASSUME n = first PROVE GapEq(g2)
    <3>1. g1 = g
      BY <1>1, <1>2, <1>4, <2>2
    <3> QED BY <2>1, <3>1
  <2> QED BY <1>1, <2>1, <2>2 DEF ExactCalls, g1
<1> QED BY <1>3, <1>4

\* on_end_of_session() touches only the End of Session mark.
LEMMA EndOfSessionSpec ==
  ASSUME NEW g, Well(g), GapEq(g), NEW p \in Headers
  PROVE  LET h == OnEndOfSession(g, p)
         IN  Well(h) /\ GapEq(h) /\ SameStream(h, g)
<1> DEFINE h == OnEndOfSession(g, p)
<1>1. CASE g.eos_seen
  BY <1>1 DEF OnEndOfSession, SameStream
<1>2. CASE ~g.eos_seen
  <2>1. h = [g EXCEPT !.eos_seen = TRUE, !.eos_seq = p.seq_num]
    BY <1>2 DEF OnEndOfSession
  <2>2. TRUE \in BOOLEAN /\ p.seq_num \in Nat /\ g \in State
    BY DEF Headers, Well
  <2>3. h \in State
    BY <2>1, <2>2, Zenon DEF State
  <2>4. SameStream(h, g) /\ h.in_gap = g.in_gap
    BY <2>1, <2>2 DEF State, SameStream
  <2> HIDE DEF h
  <2>5. Well(h)
    BY <2>3, <2>4, SameStreamSpec
  <2>6. GapEq(h)
    BY <2>4 DEF GapEq, SameStream
  <2> QED BY <2>4, <2>5, <2>6 DEF h
<1> QED BY <1>1, <1>2

\* What is buffered lies strictly past next_expected and inside the window.
LEMMA HoldsSpec ==
  ASSUME NEW g, Well(g), NEW s \in Nat, Holds(g, s)
  PROVE  s >= g.next_expected + 1 /\ s < g.high_water /\ s < g.next_expected + kCapacity
BY SlotOfSeq DEF Well, SoundFrom, Holds

\* first_present_after() skips no buffered message and stops past
\* next_expected.
LEMMA FirstPresentSpec ==
  ASSUME NEW g, Well(g), g.next_expected < g.high_water
  PROVE  LET f == FirstPresentAfter(g)
         IN  /\ f \in Nat /\ g.next_expected < f /\ f <= g.high_water
             /\ \A s \in g.next_expected .. f - 1 : ~Holds(g, s)
<1> DEFINE limit == Least(g.high_water, g.next_expected + kCapacity)
           present == {s \in g.next_expected .. limit - 1 : Holds(g, s)}
           f == FirstPresentAfter(g)
<1>1. /\ g.next_expected \in Nat /\ g.high_water \in Nat
      /\ kCapacity \in Nat /\ kCapacity > 0
  BY ConstantsAssumption DEF Well, State
<1>2. /\ limit \in Nat
      /\ \A s \in Nat : s < limit <=> s < g.high_water /\ s < g.next_expected + kCapacity
  BY <1>1 DEF Least
<1> HIDE DEF limit
<1>3. ASSUME NEW s \in Nat, Holds(g, s) PROVE s \in present /\ s > g.next_expected
  <2>1. s >= g.next_expected + 1 /\ s < limit
    BY <1>1, <1>2, <1>3, HoldsSpec
  <2> QED BY <1>1, <1>2, <1>3, <2>1
<1>4. CASE present = {}
  <2>1. f = g.high_water
    BY <1>4 DEF FirstPresentAfter, limit
  <2>2. \A s \in Nat : ~Holds(g, s)
    BY <1>3, <1>4
  <2>3. g.next_expected .. f - 1 \subseteq Nat
    BY <1>1, <2>1
  <2> QED BY <1>1, <2>1, <2>2, <2>3
<1>5. CASE present # {}
  <2>1. present \subseteq Nat
    BY <1>1, <1>2
  <2>2. \E x \in present : \A y \in present : x <= y
    BY <1>5, <2>1, LeastElement
  <2>3. f = CHOOSE x \in present : \A y \in present : x <= y
    BY <1>5 DEF FirstPresentAfter, limit
  <2>4. f \in present /\ \A y \in present : f <= y
    BY <2>2, <2>3
  <2> HIDE DEF f
  <2>5. f \in Nat /\ Holds(g, f)
    BY <2>1, <2>4
  <2>6. f > g.next_expected /\ f <= g.high_water
    BY <1>1, <1>3, <2>5, HoldsSpec
  <2>7. ASSUME NEW s \in g.next_expected .. f - 1 PROVE ~Holds(g, s)
    <3>1. s \in Nat /\ s < f
      BY <1>1, <2>5
    <3> QED BY <1>3, <2>4, <2>5, <3>1
  <2>8. g.next_expected < f
    BY <1>1, <2>5, <2>6
  <2> QED BY <2>5, <2>6, <2>7, <2>8 DEF f
<1> QED BY <1>4, <1>5

\* update_gap_state(), after the walk: the episode is open exactly when
\* something is missing, and what is reported is what is missing.
LEMMA UpdateGapSpec ==
  ASSUME NEW g, Well(g), NEW now \in Nat
  PROVE  LET h == UpdateGapState(g, now)
             calls == IF g.next_expected < g.high_water
                      THEN GapCall(g, FirstPresentAfter(g)) ELSE {}
         IN  Well(h) /\ GapEq(h) /\ SameStream(h, g) /\ ExactCalls(calls, g)
<1> DEFINE h == UpdateGapState(g, now)
           f == FirstPresentAfter(g)
           calls == IF g.next_expected < g.high_water THEN GapCall(g, f) ELSE {}
<1>1. g \in State /\ g.next_expected \in Nat /\ g.high_water \in Nat
  BY DEF Well, State
<1>2. /\ h \in State /\ SameStream(h, g)
      /\ h.in_gap = (g.next_expected < g.high_water)
  <2>1. CASE g.next_expected >= g.high_water
    <3>1. h = [g EXCEPT !.in_gap = FALSE]
      BY <2>1 DEF UpdateGapState
    <3>2. FALSE \in BOOLEAN
      OBVIOUS
    <3>3. h \in State
      BY <1>1, <3>1, <3>2, Zenon DEF State
    <3>4. SameStream(h, g) /\ h.in_gap = FALSE
      BY <1>1, <3>1 DEF State, SameStream
    <3>5. (g.next_expected < g.high_water) = FALSE
      BY <1>1, <2>1
    <3> HIDE DEF h
    <3> QED BY <3>3, <3>4, <3>5
  <2>2. CASE ~(g.next_expected >= g.high_water) /\ ~g.in_gap
    <3>1. h = HandleGap(g, now)
      BY <2>2 DEF UpdateGapState
    <3>2. g.next_expected < g.high_water
      BY <1>1, <2>2
    <3>3. h \in State /\ SameStream(h, g) /\ h.in_gap = TRUE
      BY <1>1, <3>1, HandleGapSpec
    <3>4. (g.next_expected < g.high_water) = TRUE
      BY <3>2
    <3> HIDE DEF h
    <3> QED BY <3>3, <3>4
  <2>3. CASE ~(g.next_expected >= g.high_water) /\ g.in_gap
    <3>1. (g.next_expected < g.high_water) = TRUE /\ g.in_gap = TRUE
      BY <1>1, <2>3 DEF State
    <3>2. CASE h = g
      BY <1>1, <3>1, <3>2 DEF SameStream
    <3>3. CASE h = [g EXCEPT !.gap_last_retx = 0]
      <4>1. 0 \in Nat
        OBVIOUS
      <4>2. h \in State
        BY <1>1, <3>3, <4>1, Zenon DEF State
      <4>3. SameStream(h, g) /\ h.in_gap = g.in_gap
        BY <1>1, <3>3 DEF State, SameStream
      <4> QED BY <3>1, <4>2, <4>3
    <3> QED BY <2>3, <3>2, <3>3 DEF UpdateGapState
  <2> QED BY <2>1, <2>2, <2>3
<1> HIDE DEF h
<1>3. Well(h)
  BY <1>2, SameStreamSpec
<1>4. GapEq(h)
  BY <1>2 DEF GapEq, SameStream
<1>5. ExactCalls(calls, g)
  <2>1. CASE ~(g.next_expected < g.high_water) \/ g.in_gap
    BY <2>1 DEF ExactCalls, GapCall
  <2>2. CASE g.next_expected < g.high_water /\ ~g.in_gap
    <3>1. calls = {[first_missing_seq |-> g.next_expected, last_missing_seq |-> f - 1]}
      BY <2>2 DEF GapCall
    <3>2. /\ f \in Nat /\ g.next_expected < f /\ f <= g.high_water
          /\ \A s \in g.next_expected .. f - 1 : ~Holds(g, s)
      BY <2>2, FirstPresentSpec
    <3> HIDE DEF f, calls
    <3>3. f - 1 \in Int /\ g.next_expected <= f - 1 /\ f - 1 < g.high_water
      BY <1>1, <3>2
    <3> QED BY <1>1, <3>1, <3>2, <3>3 DEF ExactCalls
  <2> QED BY <2>1, <2>2
<1> QED BY <1>2, <1>3, <1>4, <1>5 DEF h
----------------------------------------------------------------------------
(***************************************************************************)
(* The inductive invariant, action by action.                              *)
(***************************************************************************)
\* Outside flush_buffer() the object satisfies Well.
LEMMA WellState ==
  ASSUME IInv, pc # "flush"
  PROVE  Well(gb) /\ (pc = "idle" => GapEq(gb))
<1>1. gb \in State /\ gb.next_expected \in Nat /\ gb.high_water \in Nat
  BY DEF IInv, TypeOK, State
<1>2. SoundFrom(gb, gb.next_expected + 1)
  <2> SUFFICES ASSUME NEW i \in SlotIndex, gb.slots[i].occupied
               PROVE  /\ i = gb.slots[i].seq_num % kCapacity
                      /\ gb.slots[i].seq_num < gb.high_water
                      /\ gb.slots[i].seq_num < gb.next_expected + kCapacity
                      /\ gb.slots[i].seq_num >= gb.next_expected + 1
                      /\ gb.slots[i].body = Body(gb.session, gb.slots[i].seq_num)
    BY DEF SoundFrom
  <2>1. gb.slots[i].seq_num \in Nat
    BY <1>1 DEF State, Slot
  <2> QED BY <1>1, <2>1 DEF IInv, WindowSound
<1> QED BY <1>1, <1>2 DEF IInv, Well, GapEq, GapTracked

\* What a step must show when it leaves the object in a Well state.
LEMMA InvOfWell ==
  ASSUME Well(gb'), pc' \in {"idle", "walk"}, pc' = "idle" => GapEq(gb'),
         rx' \in [session: Sessions \cup {Blank}, seq_num: Nat, msg_count: Nat,
                  readable: Nat, now: Nat, i: Nat],
         delivered' \in Seq(Delivery), epoch_start' \in 0 .. Len(delivered'),
         session_call' \subseteq [old_session: Sessions \cup {Blank},
                                  new_session: Sessions, new_first_seq: Nat],
         ExactCalls(gap_call', gb'), retx_call' \subseteq Request,
         NothingYet', InOrderOnce', Underway', RequestsOnlyMissing'
  PROVE  IInv'
<1>1. gb' \in State /\ gb'.next_expected \in Nat
  BY DEF Well, State
<1>2. gap_call' \subseteq [first_missing_seq: Nat, last_missing_seq: Int]
  BY DEF ExactCalls
<1>3. TypeOK'
  BY <1>1, <1>2 DEF TypeOK
<1>4. WindowSound'
  <2> SUFFICES ASSUME NEW i \in SlotIndex, gb'.slots[i].occupied
               PROVE  /\ i = gb'.slots[i].seq_num % kCapacity
                      /\ gb'.slots[i].seq_num < gb'.high_water
                      /\ gb'.slots[i].seq_num < gb'.next_expected + kCapacity
                      /\ gb'.slots[i].seq_num >= gb'.next_expected
                      /\ gb'.slots[i].seq_num # gb'.next_expected
                      /\ gb'.slots[i].body = Body(gb'.session, gb'.slots[i].seq_num)
    BY DEF WindowSound
  <2>1. gb'.slots[i].seq_num \in Nat
    BY <1>1 DEF State, Slot
  <2> QED BY <1>1, <2>1 DEF Well, SoundFrom
<1>5. GapTracked'
  BY DEF GapTracked, GapEq
<1>6. GapEventExact'
  BY DEF GapEventExact, ExactCalls
<1> QED BY <1>3, <1>4, <1>5, <1>6 DEF IInv, Well, Quiescent

\* What has been delivered in the epoch stays in order when ingest()
\* positions the object: either the position is kept or the epoch is new.
LEMMA StreamKept ==
  ASSUME IInv, pc = "idle", NEW p \in Headers, NewEpoch(p),
         gb'.session = Positioned(gb, p).session,
         gb'.seq_synced = Positioned(gb, p).seq_synced,
         gb'.next_expected = Positioned(gb, p).next_expected,
         delivered' = delivered
  PROVE  /\ NothingYet' /\ InOrderOnce'
         /\ delivered' \in Seq(Delivery) /\ epoch_start' \in 0 .. Len(delivered')
         /\ session_call' \subseteq [old_session: Sessions \cup {Blank},
                                     new_session: Sessions, new_first_seq: Nat]
<1> DEFINE h == Positioned(gb, p)
<1>1. Well(gb) /\ GapEq(gb)
  BY WellState
<1>2. \/ RollsOver(gb, p) \/ gb.session = Blank \/ ~gb.seq_synced \/ h = gb
  BY <1>1, PositionedSpec
<1>3. epoch_start \in 0 .. Len(delivered) /\ delivered \in Seq(Delivery)
      /\ Len(delivered) \in Nat
  BY DEF IInv, TypeOK
<1>4. epoch_start' \in {epoch_start, Len(delivered)}
  BY DEF NewEpoch
<1>5. session_call' \subseteq [old_session: Sessions \cup {Blank},
                               new_session: Sessions, new_first_seq: Nat]
  <2>1. gb.session \in Sessions \cup {Blank} /\ p.session \in Sessions /\ p.seq_num \in Nat
    BY DEF IInv, TypeOK, State, Headers
  <2> QED BY <2>1 DEF NewEpoch
<1>6. CASE epoch_start' = Len(delivered)
  <2>1. NothingYet'
    BY <1>6 DEF NothingYet
  <2>2. epoch_start' + 1 .. Len(delivered') = {}
    BY <1>3, <1>6
  <2>3. InOrderOnce'
    BY <2>2 DEF InOrderOnce
  <2> QED BY <1>3, <1>5, <1>6, <2>1, <2>3
<1>7. CASE epoch_start' # Len(delivered)
  <2>1. epoch_start' = epoch_start /\ ~RollsOver(gb, p)
    BY <1>4, <1>7 DEF NewEpoch
  <2>2. h = gb
    BY <1>2, <1>7, <2>1 DEF IInv, NothingYet
  <2>3. gb'.session = gb.session /\ gb'.seq_synced = gb.seq_synced
        /\ gb'.next_expected = gb.next_expected
    BY <2>2
  <2>4. NothingYet'
    BY <2>1, <2>3 DEF IInv, NothingYet
  <2>5. InOrderOnce'
    BY <2>1, <2>3 DEF IInv, InOrderOnce
  <2> QED BY <1>3, <1>5, <2>1, <2>4, <2>5
<1> QED BY <1>6, <1>7

LEMMA InitInv == Init => IInv
<1> SUFFICES ASSUME Init PROVE IInv
  OBVIOUS
<1>1. FreeSlot \in Slot /\ [i \in SlotIndex |-> FreeSlot] \in [SlotIndex -> Slot]
  BY DEF FreeSlot, Slot, Body
<1>2. ExpectedFirstSeq \in Nat /\ 0 \in Nat /\ CfgSession \in Sessions \cup {Blank}
      /\ FALSE \in BOOLEAN /\ (ExpectedFirstSeq # 0) \in BOOLEAN
  BY ConstantsAssumption
<1>3. gb \in State
  BY <1>1, <1>2, Zenon DEF Init, State
<1>4. /\ gb.next_expected = ExpectedFirstSeq /\ gb.high_water = ExpectedFirstSeq
      /\ gb.in_gap = FALSE /\ gb.slots = [i \in SlotIndex |-> FreeSlot]
  BY DEF Init
<1>5. ~gb.seq_synced => ExpectedFirstSeq = 0
  BY Zenon DEF Init
<1>6. pc = "idle" /\ delivered = <<>> /\ epoch_start = 0
      /\ session_call = {} /\ gap_call = {} /\ retx_call = {}
  BY DEF Init
<1>7. Len(delivered) = 0 /\ delivered \in Seq(Delivery)
  BY <1>6
<1>8. rx \in [session: Sessions \cup {Blank}, seq_num: Nat, msg_count: Nat,
              readable: Nat, now: Nat, i: Nat]
  BY DEF Init, NoPacket
<1>9. TypeOK
  BY <1>3, <1>6, <1>7, <1>8 DEF TypeOK
<1>10. WindowSound
  BY <1>4 DEF WindowSound, FreeSlot
<1>11. InOrderOnce /\ NothingYet /\ Underway
  BY <1>6, <1>7 DEF InOrderOnce, NothingYet, Underway
<1>12. GapTracked
  BY <1>2, <1>4 DEF GapTracked
<1>13. RequestsOnlyMissing /\ GapEventExact
  BY <1>6 DEF RequestsOnlyMissing, GapEventExact
<1> QED BY <1>2, <1>4, <1>5, <1>9, <1>10, <1>11, <1>12, <1>13 DEF IInv, Quiescent

\* Heartbeats and End of Session.
LEMMA ControlInv ==
  ASSUME IInv, NEW p \in Headers, NEW now \in Nat, IngestControl(p, now)
  PROVE  IInv'
<1> DEFINE g0 == Positioned(gb, p)
           g1 == IF g0.seq_synced THEN NoteHighWater(g0, p.seq_num) ELSE g0
           gap == g0.seq_synced /\ p.seq_num > g0.next_expected
           g2 == IF gap THEN HandleGap(g1, now) ELSE g1
           g3 == IF IsEndOfSession(p) THEN OnEndOfSession(g2, p) ELSE g2
           calls == IF gap THEN GapCall(g1, p.seq_num) ELSE {}
<1>1. /\ pc = "idle" /\ CheckGapTimeout(g3, now) /\ gap_call' = calls
      /\ NewEpoch(p) /\ pc' = pc /\ rx' = rx /\ delivered' = delivered
  BY DEF IngestControl
<1>2. p.seq_num \in Nat /\ p.session # Blank
  BY ConstantsAssumption DEF Headers
<1>3. Well(g0) /\ GapEq(g0) /\ g0.session = p.session
  BY <1>1, WellState, PositionedSpec
<1> HIDE DEF g0
<1>4. /\ Well(g2) /\ GapEq(g2) /\ ExactCalls(calls, g2)
      /\ g2.session = g0.session /\ g2.seq_synced = g0.seq_synced
      /\ g2.next_expected = g0.next_expected
  <2>1. CASE g0.seq_synced
    <3> DEFINE n1 == NoteHighWater(g0, p.seq_num)
               gp == p.seq_num > g0.next_expected
               n2 == IF gp THEN HandleGap(n1, now) ELSE n1
               cs == IF gp THEN GapCall(n1, p.seq_num) ELSE {}
    <3>1. g2 = n2 /\ calls = cs
      BY <2>1
    <3>2. /\ Well(n2) /\ GapEq(n2) /\ ExactCalls(cs, n2)
          /\ n2.session = g0.session /\ n2.seq_synced = g0.seq_synced
          /\ n2.next_expected = g0.next_expected
      <4>1. p.seq_num <= p.seq_num /\ g0.session # Blank
        BY <1>2, <1>3
      <4> QED BY <1>2, <1>3, <2>1, <4>1, AnnounceSpec
    <3> HIDE DEF g2, calls, n2, cs
    <3> QED BY <3>1, <3>2
  <2>2. CASE ~g0.seq_synced
    <3>1. g2 = g0 /\ calls = {}
      BY <2>2
    <3> HIDE DEF g2, calls
    <3> QED BY <1>3, <3>1 DEF ExactCalls
  <2> QED BY <2>1, <2>2
<1> HIDE DEF g1, g2, calls, gap
<1>5. Well(g3) /\ GapEq(g3) /\ SameStream(g3, g2)
  <2>1. CASE IsEndOfSession(p)
    BY <1>4, <2>1, EndOfSessionSpec
  <2>2. CASE ~IsEndOfSession(p)
    BY <1>4, <2>2 DEF SameStream
  <2> QED BY <2>1, <2>2
<1> HIDE DEF g3
<1>6. /\ Well(gb') /\ GapEq(gb') /\ SameStream(gb', g3)
      /\ retx_call' \subseteq Request /\ RequestsOnlyMissing'
  BY <1>1, <1>5, TimeoutSpec
<1>7. SameStream(gb', g2)
  BY <1>5, <1>6 DEF SameStream
<1>8. ExactCalls(gap_call', gb')
  BY <1>1, <1>4, <1>6, <1>7, SameStreamSpec DEF Well
<1>9. /\ gb'.session = Positioned(gb, p).session
      /\ gb'.seq_synced = Positioned(gb, p).seq_synced
      /\ gb'.next_expected = Positioned(gb, p).next_expected
  BY <1>4, <1>7 DEF SameStream, g0
<1>10. /\ NothingYet' /\ InOrderOnce'
       /\ delivered' \in Seq(Delivery) /\ epoch_start' \in 0 .. Len(delivered')
       /\ session_call' \subseteq [old_session: Sessions \cup {Blank},
                                   new_session: Sessions, new_first_seq: Nat]
  BY <1>1, <1>9, StreamKept
<1>11. Underway'
  BY <1>1 DEF Underway
<1>12. rx' \in [session: Sessions \cup {Blank}, seq_num: Nat, msg_count: Nat,
                readable: Nat, now: Nat, i: Nat]
  BY <1>1 DEF IInv, TypeOK
<1> QED BY <1>1, <1>6, <1>8, <1>10, <1>11, <1>12, InvOfWell

LEMMA UnpositionedInv ==
  ASSUME IInv, NEW p \in Headers, IngestUnpositioned(p)
  PROVE  IInv'
<1>1. /\ pc = "idle" /\ NewEpoch(p) /\ gb' = Positioned(gb, p)
      /\ gap_call' = {} /\ retx_call' = {}
      /\ pc' = pc /\ rx' = rx /\ delivered' = delivered
  BY DEF IngestUnpositioned
<1>2. Well(gb') /\ GapEq(gb')
  BY <1>1, WellState, PositionedSpec
<1>3. /\ NothingYet' /\ InOrderOnce'
      /\ delivered' \in Seq(Delivery) /\ epoch_start' \in 0 .. Len(delivered')
      /\ session_call' \subseteq [old_session: Sessions \cup {Blank},
                                  new_session: Sessions, new_first_seq: Nat]
  BY <1>1, StreamKept
<1>4. Underway' /\ RequestsOnlyMissing' /\ ExactCalls(gap_call', gb')
  BY <1>1 DEF Underway, RequestsOnlyMissing, ExactCalls
<1>5. rx' \in [session: Sessions \cup {Blank}, seq_num: Nat, msg_count: Nat,
               readable: Nat, now: Nat, i: Nat]
  BY <1>1 DEF IInv, TypeOK
<1>6. retx_call' \subseteq Request
  BY <1>1
<1> QED BY <1>1, <1>2, <1>3, <1>4, <1>5, <1>6, InvOfWell

LEMMA DuplicateInv ==
  ASSUME IInv, NEW p \in Headers, NEW now \in Nat, IngestDuplicate(p, now)
  PROVE  IInv'
<1> DEFINE g == Positioned(gb, p)
           h == NoteHighWater(g, PacketEnd(p))
<1>1. /\ pc = "idle" /\ NewEpoch(p) /\ g.seq_synced
      /\ PacketEnd(p) <= g.next_expected /\ CheckGapTimeout(h, now)
      /\ gap_call' = {} /\ pc' = pc /\ rx' = rx /\ delivered' = delivered
  BY DEF IngestDuplicate
<1>2. Well(g) /\ GapEq(g)
  BY <1>1, WellState, PositionedSpec
<1> HIDE DEF g
<1>3. h = g
  <2>1. PacketEnd(p) \in Nat /\ g.next_expected \in Nat /\ g.high_water \in Nat
    BY <1>2 DEF PacketEnd, Headers, Well, State
  <2>2. ~(PacketEnd(p) > g.high_water)
    BY <1>1, <1>2, <2>1 DEF Well
  <2> QED BY <2>2 DEF NoteHighWater
<1>4. /\ Well(gb') /\ GapEq(gb') /\ SameStream(gb', g)
      /\ retx_call' \subseteq Request /\ RequestsOnlyMissing'
  BY <1>1, <1>2, <1>3, TimeoutSpec
<1>5. /\ gb'.session = Positioned(gb, p).session
      /\ gb'.seq_synced = Positioned(gb, p).seq_synced
      /\ gb'.next_expected = Positioned(gb, p).next_expected
  BY <1>4 DEF SameStream, g
<1>6. /\ NothingYet' /\ InOrderOnce'
      /\ delivered' \in Seq(Delivery) /\ epoch_start' \in 0 .. Len(delivered')
      /\ session_call' \subseteq [old_session: Sessions \cup {Blank},
                                  new_session: Sessions, new_first_seq: Nat]
  BY <1>1, <1>5, StreamKept
<1>7. Underway' /\ ExactCalls(gap_call', gb')
  BY <1>1 DEF Underway, ExactCalls
<1>8. rx' \in [session: Sessions \cup {Blank}, seq_num: Nat, msg_count: Nat,
               readable: Nat, now: Nat, i: Nat]
  BY <1>1 DEF IInv, TypeOK
<1> QED BY <1>1, <1>4, <1>6, <1>7, <1>8, InvOfWell

LEMMA DataInv ==
  ASSUME IInv, NEW p \in Headers, NEW now \in Nat, IngestData(p, now)
  PROVE  IInv'
<1> DEFINE g0 == Positioned(gb, p)
           n == PacketEnd(p)
           g1 == NoteHighWater(g0, n)
           gap == p.seq_num > g0.next_expected
           g2 == IF gap THEN HandleGap(g1, now) ELSE g1
           calls == IF gap THEN GapCall(g1, p.seq_num) ELSE {}
<1>0. /\ p.seq_num \in Nat /\ p.msg_count \in Nat /\ p.readable \in Nat
      /\ p.session \in Sessions /\ p.session # Blank
      /\ n \in Nat /\ p.seq_num <= n
  BY ConstantsAssumption DEF Headers, PacketEnd
<1>1. /\ pc = "idle" /\ NewEpoch(p) /\ g0.seq_synced /\ retx_call' = {}
      /\ pc' = "walk" /\ delivered' = delivered
      /\ rx' = [session |-> p.session, seq_num |-> p.seq_num,
                msg_count |-> p.msg_count, readable |-> p.readable,
                now |-> now, i |-> 0]
  BY DEF IngestData
<1>2. Well(g0) /\ GapEq(g0) /\ g0.session = p.session
  BY <1>1, WellState, PositionedSpec
<1>3. g1.next_expected = g0.next_expected
  BY <1>0, <1>1, <1>2, HighWaterSpec
<1>4. gb' = g2 /\ gap_call' = calls
  BY <1>3 DEF IngestData
<1> HIDE DEF g0, n
<1>5. /\ Well(g2)
      /\ g2.session = g0.session /\ g2.seq_synced = g0.seq_synced
      /\ g2.next_expected = g0.next_expected
      /\ g2.high_water >= n
      /\ ExactCalls(calls, g2)
  BY <1>0, <1>1, <1>2, AnnounceSpec
<1> HIDE DEF g2, calls
<1>6. /\ NothingYet' /\ InOrderOnce'
      /\ delivered' \in Seq(Delivery) /\ epoch_start' \in 0 .. Len(delivered')
      /\ session_call' \subseteq [old_session: Sessions \cup {Blank},
                                  new_session: Sessions, new_first_seq: Nat]
  BY <1>1, <1>4, <1>5, StreamKept DEF g0
<1>7. RequestsOnlyMissing' /\ retx_call' \subseteq Request
  BY <1>1 DEF RequestsOnlyMissing
<1>8. rx' \in [session: Sessions \cup {Blank}, seq_num: Nat, msg_count: Nat,
               readable: Nat, now: Nat, i: Nat]
  BY <1>0, <1>1
<1>9. Underway'
  <2>1. gb'.seq_synced /\ gb'.session = rx'.session /\ rx'.session \in Sessions
    BY <1>0, <1>1, <1>2, <1>4, <1>5
  <2>2. rx'.seq_num + rx'.msg_count <= gb'.high_water
    <3>1. gb'.high_water \in Nat /\ rx'.seq_num + rx'.msg_count = n
      BY <1>1, <1>4, <1>5 DEF Well, State, n, PacketEnd
    <3> QED BY <1>0, <1>4, <1>5, <3>1
  <2> QED BY <2>1, <2>2 DEF Underway
<1> QED BY <1>1, <1>4, <1>5, <1>6, <1>7, <1>8, <1>9, InvOfWell

LEMMA TickInv ==
  ASSUME IInv, NEW now \in Nat, Tick(now)
  PROVE  IInv'
<1>1. /\ pc = "idle" /\ CheckGapTimeout(gb, now)
      /\ gap_call' = {} /\ session_call' = {} /\ pc' = pc /\ rx' = rx
      /\ delivered' = delivered /\ epoch_start' = epoch_start
  BY DEF Tick
<1>2. Well(gb) /\ GapEq(gb)
  BY <1>1, WellState
<1>3. /\ Well(gb') /\ GapEq(gb') /\ SameStream(gb', gb)
      /\ retx_call' \subseteq Request /\ RequestsOnlyMissing'
  BY <1>1, <1>2, TimeoutSpec
<1>4. InOrderOnce' /\ NothingYet'
  BY <1>1, <1>3 DEF IInv, InOrderOnce, NothingYet, SameStream
<1>5. Underway' /\ ExactCalls(gap_call', gb')
  BY <1>1 DEF Underway, ExactCalls
<1>6. /\ rx' \in [session: Sessions \cup {Blank}, seq_num: Nat, msg_count: Nat,
                  readable: Nat, now: Nat, i: Nat]
      /\ delivered' \in Seq(Delivery) /\ epoch_start' \in 0 .. Len(delivered')
      /\ session_call' \subseteq [old_session: Sessions \cup {Blank},
                                  new_session: Sessions, new_first_seq: Nat]
  BY <1>1 DEF IInv, TypeOK
<1> QED BY <1>1, <1>3, <1>4, <1>5, <1>6, InvOfWell

LEMMA ResetInv ==
  ASSUME IInv, Reset
  PROVE  IInv'
<1>1. /\ pc = "idle" /\ gb' = [ResetSequenceState(gb) EXCEPT !.session = CfgSession]
      /\ epoch_start' = Len(delivered) /\ session_call' = {} /\ gap_call' = {}
      /\ retx_call' = {} /\ pc' = pc /\ rx' = rx /\ delivered' = delivered
  BY DEF Reset, NoCalls
<1>2. gb \in State /\ CfgSession \in Sessions \cup {Blank}
  BY ConstantsAssumption DEF IInv, TypeOK
<1>3. Well(gb') /\ GapEq(gb')
  BY <1>1, <1>2, ResetSpec
<1>4. Len(delivered) \in Nat /\ delivered \in Seq(Delivery)
  BY DEF IInv, TypeOK
<1>5. epoch_start' + 1 .. Len(delivered') = {} /\ epoch_start' \in 0 .. Len(delivered')
  BY <1>1, <1>4
<1>6. InOrderOnce' /\ NothingYet'
  BY <1>1, <1>5 DEF InOrderOnce, NothingYet
<1>7. Underway' /\ RequestsOnlyMissing' /\ ExactCalls(gap_call', gb')
  BY <1>1 DEF Underway, RequestsOnlyMissing, ExactCalls
<1>8. /\ rx' \in [session: Sessions \cup {Blank}, seq_num: Nat, msg_count: Nat,
                  readable: Nat, now: Nat, i: Nat]
      /\ session_call' \subseteq [old_session: Sessions \cup {Blank},
                                  new_session: Sessions, new_first_seq: Nat]
      /\ retx_call' \subseteq Request
  BY <1>1 DEF IInv, TypeOK
<1> QED BY <1>1, <1>3, <1>4, <1>5, <1>6, <1>7, <1>8, InvOfWell

LEMMA WalkDoneInv ==
  ASSUME IInv, WalkDone
  PROVE  IInv'
<1> DEFINE h == UpdateGapState(gb, rx.now)
<1>1. /\ pc = "walk" /\ CheckGapTimeout(h, rx.now) /\ session_call' = {}
      /\ gap_call' = IF gb.next_expected < gb.high_water
                     THEN GapCall(gb, FirstPresentAfter(gb)) ELSE {}
      /\ pc' = "idle" /\ rx' = NoPacket
      /\ delivered' = delivered /\ epoch_start' = epoch_start
  BY DEF WalkDone
<1>2. Well(gb) /\ rx.now \in Nat
  BY <1>1, WellState DEF IInv, TypeOK
<1>3. Well(h) /\ GapEq(h) /\ SameStream(h, gb) /\ ExactCalls(gap_call', gb)
  BY <1>1, <1>2, UpdateGapSpec
<1> HIDE DEF h
<1>4. /\ Well(gb') /\ GapEq(gb') /\ SameStream(gb', h)
      /\ retx_call' \subseteq Request /\ RequestsOnlyMissing'
  BY <1>1, <1>2, <1>3, TimeoutSpec
<1>5. SameStream(gb', gb)
  BY <1>3, <1>4 DEF SameStream
<1>6. ExactCalls(gap_call', gb')
  BY <1>2, <1>3, <1>4, <1>5, SameStreamSpec DEF Well
<1>7. InOrderOnce' /\ NothingYet' /\ Underway'
  BY <1>1, <1>5 DEF IInv, InOrderOnce, NothingYet, SameStream, Underway
<1>8. /\ rx' \in [session: Sessions \cup {Blank}, seq_num: Nat, msg_count: Nat,
                  readable: Nat, now: Nat, i: Nat]
      /\ delivered' \in Seq(Delivery) /\ epoch_start' \in 0 .. Len(delivered')
      /\ session_call' \subseteq [old_session: Sessions \cup {Blank},
                                  new_session: Sessions, new_first_seq: Nat]
  BY <1>1 DEF IInv, TypeOK, NoPacket
<1> QED BY <1>1, <1>4, <1>6, <1>7, <1>8, InvOfWell

\* The two steps of the walk that deliver nothing and leave the object alone.
LEMMA WalkIdleInv ==
  ASSUME IInv, WalkSkip \/ FlushDone
  PROVE  IInv'
<1>1. /\ gb' = gb /\ pc' = "walk" /\ pc \in {"walk", "flush"} /\ delivered' = delivered
      /\ epoch_start' = epoch_start /\ session_call' = {} /\ gap_call' = {}
      /\ retx_call' = {}
      /\ \/ rx' = rx
         \/ rx' = [rx EXCEPT !.i = @ + 1]
  BY DEF WalkSkip, FlushDone, NoCalls, Walking
<1>2. rx \in [session: Sessions \cup {Blank}, seq_num: Nat, msg_count: Nat,
              readable: Nat, now: Nat, i: Nat]
  BY DEF IInv, TypeOK
<1>3. /\ rx' \in [session: Sessions \cup {Blank}, seq_num: Nat, msg_count: Nat,
                  readable: Nat, now: Nat, i: Nat]
      /\ rx'.session = rx.session /\ rx'.seq_num = rx.seq_num
      /\ rx'.msg_count = rx.msg_count
  BY <1>1, <1>2
<1>4. Well(gb)
  <2>1. CASE pc = "walk"
    BY <2>1, WellState
  <2>2. CASE pc = "flush" /\ ~Holds(gb, gb.next_expected)
    <3>1. gb \in State /\ gb.next_expected \in Nat
      BY DEF IInv, TypeOK, State
    <3>2. SoundFrom(gb, gb.next_expected + 1)
      <4> SUFFICES ASSUME NEW i \in SlotIndex, gb.slots[i].occupied
                   PROVE  /\ i = gb.slots[i].seq_num % kCapacity
                          /\ gb.slots[i].seq_num < gb.high_water
                          /\ gb.slots[i].seq_num < gb.next_expected + kCapacity
                          /\ gb.slots[i].seq_num >= gb.next_expected + 1
                          /\ gb.slots[i].body = Body(gb.session, gb.slots[i].seq_num)
        BY DEF SoundFrom
      <4>1. gb.slots[i].seq_num \in Nat
        BY <3>1 DEF State, Slot
      <4>2. gb.slots[i].seq_num # gb.next_expected
        BY <2>2 DEF IInv, WindowSound, Holds
      <4> QED BY <3>1, <4>1, <4>2 DEF IInv, WindowSound
    <3> QED BY <3>1, <3>2 DEF IInv, Well
  <2> QED BY <2>1, <2>2, <1>1 DEF FlushDone, WalkSkip, Walking
<1>5. InOrderOnce' /\ NothingYet'
  BY <1>1 DEF IInv, InOrderOnce, NothingYet
<1>6. Underway'
  BY <1>1, <1>3 DEF IInv, Underway
<1>7. RequestsOnlyMissing' /\ ExactCalls(gap_call', gb')
  BY <1>1 DEF RequestsOnlyMissing, ExactCalls
<1>8. /\ delivered' \in Seq(Delivery) /\ epoch_start' \in 0 .. Len(delivered')
      /\ session_call' \subseteq [old_session: Sessions \cup {Blank},
                                  new_session: Sessions, new_first_seq: Nat]
      /\ retx_call' \subseteq Request
  BY <1>1 DEF IInv, TypeOK
<1> QED BY <1>1, <1>3, <1>4, <1>5, <1>6, <1>7, <1>8, InvOfWell

\* buffer_message() keeps the window sound.
LEMMA WalkBufferInv ==
  ASSUME IInv, WalkBuffer
  PROVE  IInv'
<1> DEFINE seq == CurrentSeq
           b == Body(rx.session, seq)
           j == seq % kCapacity
<1>1. /\ pc = "walk" /\ rx.i < rx.msg_count /\ seq > gb.next_expected
      /\ gb' = Buffered(gb, seq, b) /\ rx' = [rx EXCEPT !.i = @ + 1]
      /\ session_call' = {} /\ gap_call' = {} /\ retx_call' = {}
      /\ pc' = pc /\ delivered' = delivered /\ epoch_start' = epoch_start
  BY DEF WalkBuffer, Walking, NoCalls
<1>2. Well(gb)
  BY <1>1, WellState
<1>3. rx \in [session: Sessions \cup {Blank}, seq_num: Nat, msg_count: Nat,
              readable: Nat, now: Nat, i: Nat]
  BY DEF IInv, TypeOK
<1>4. /\ rx' \in [session: Sessions \cup {Blank}, seq_num: Nat, msg_count: Nat,
                  readable: Nat, now: Nat, i: Nat]
      /\ rx'.session = rx.session /\ rx'.seq_num = rx.seq_num
      /\ rx'.msg_count = rx.msg_count
  BY <1>1, <1>3
<1>5. /\ gb \in State /\ gb.next_expected \in Nat /\ gb.high_water \in Nat
      /\ seq \in Nat /\ seq < gb.high_water /\ gb.session = rx.session
      /\ rx.session \in Sessions /\ gb.seq_synced /\ gb.session # Blank
  <2>1. gb \in State /\ gb.next_expected \in Nat /\ gb.high_water \in Nat
    BY DEF IInv, TypeOK, State
  <2>2. /\ gb.seq_synced /\ gb.session = rx.session /\ rx.session \in Sessions
        /\ rx.seq_num + rx.msg_count <= gb.high_water
    BY <1>1 DEF IInv, Underway
  <2>3. seq \in Nat /\ seq < gb.high_water
    BY <1>1, <1>3, <2>1, <2>2 DEF CurrentSeq
  <2> QED BY <2>1, <2>2, <2>3, ConstantsAssumption
<1> HIDE DEF seq
<1>6. j \in SlotIndex
  BY <1>5, SlotOfSeq
<1> HIDE DEF j
<1>7. Well(gb') /\ gb'.session = gb.session /\ gb'.seq_synced = gb.seq_synced
      /\ gb'.next_expected = gb.next_expected /\ gb'.high_water = gb.high_water
  <2>1. CASE gb' = gb
    BY <1>2, <2>1
  <2>2. CASE gb' # gb
    <3> DEFINE new == [occupied |-> TRUE, seq_num |-> seq, body |-> b]
    <3>1. /\ ~(seq - gb.next_expected >= kCapacity)
          /\ gb' = [gb EXCEPT !.slots[j] = new]
      BY <1>1, <2>2 DEF Buffered, j
    <3>2. new \in Slot
      <4>1. b \in (Sessions \cup {Blank}) \X Nat /\ TRUE \in BOOLEAN
        BY <1>5 DEF Body
      <4> HIDE DEF b
      <4> QED BY <4>1, <1>5, Zenon DEF Slot
    <3> HIDE DEF new
    <3>3. [gb.slots EXCEPT ![j] = new] \in [SlotIndex -> Slot]
      BY <1>5, <1>6, <3>2 DEF State
    <3>4. gb' \in State
      BY <1>5, <3>1, <3>3, Zenon DEF State
    <3>5. /\ gb'.session = gb.session /\ gb'.seq_synced = gb.seq_synced
          /\ gb'.next_expected = gb.next_expected /\ gb'.high_water = gb.high_water
          /\ gb'.slots = [gb.slots EXCEPT ![j] = new]
      BY <1>5, <3>1 DEF State
    <3>6. SoundFrom(gb', gb'.next_expected + 1)
      <4> SUFFICES ASSUME NEW i \in SlotIndex, gb'.slots[i].occupied
                   PROVE  /\ i = gb'.slots[i].seq_num % kCapacity
                          /\ gb'.slots[i].seq_num < gb'.high_water
                          /\ gb'.slots[i].seq_num < gb'.next_expected + kCapacity
                          /\ gb'.slots[i].seq_num >= gb'.next_expected + 1
                          /\ gb'.slots[i].body = Body(gb'.session, gb'.slots[i].seq_num)
        BY DEF SoundFrom
      <4>1. CASE i # j
        <5>1. gb'.slots[i] = gb.slots[i]
          BY <1>5, <3>5, <4>1 DEF State
        <5> QED BY <1>2, <3>5, <5>1 DEF Well, SoundFrom
      <4>2. CASE i = j
        <5>1. gb'.slots[i] = new
          BY <1>5, <1>6, <3>5, <4>2 DEF State
        <5>2. seq < gb.next_expected + kCapacity /\ seq >= gb.next_expected + 1
          BY <1>1, <1>5, <3>1, ConstantsAssumption
        <5> QED BY <1>5, <3>5, <4>2, <5>1, <5>2 DEF new, j
      <4> QED BY <4>1, <4>2
    <3>7. Well(gb')
      BY <1>2, <3>4, <3>5, <3>6, <1>5 DEF Well, Quiescent
    <3> QED BY <3>5, <3>7
  <2> QED BY <2>1, <2>2
<1>8. InOrderOnce' /\ NothingYet'
  BY <1>1, <1>7 DEF IInv, InOrderOnce, NothingYet
<1>9. Underway'
  BY <1>1, <1>4, <1>7 DEF IInv, Underway
<1>10. RequestsOnlyMissing' /\ ExactCalls(gap_call', gb')
  BY <1>1 DEF RequestsOnlyMissing, ExactCalls
<1>11. /\ delivered' \in Seq(Delivery) /\ epoch_start' \in 0 .. Len(delivered')
       /\ session_call' \subseteq [old_session: Sessions \cup {Blank},
                                   new_session: Sessions, new_first_seq: Nat]
       /\ retx_call' \subseteq Request
  BY <1>1 DEF IInv, TypeOK
<1> QED BY <1>1, <1>4, <1>7, <1>8, <1>9, <1>10, <1>11, InvOfWell

\* The slot array after next_expected has been delivered.
Freed(slots) ==
  \/ slots = [gb.slots EXCEPT ![gb.next_expected % kCapacity] = FreeSlot]
  \/ slots = gb.slots /\ ~Holds(gb, gb.next_expected)

\* A call of on_message_ for next_expected, with the body the sender
\* published, extends the in-order stream; its slot, if any, is freed.
LEMMA DeliverInv ==
  ASSUME IInv, pc \in {"walk", "flush"}, pc' = "flush",
         gb.next_expected < gb.high_water,
         \E slots : /\ Freed(slots)
                    /\ gb' = [gb EXCEPT !.slots = slots,
                                        !.next_expected = gb.next_expected + 1],
         OnMessage(gb.next_expected, Body(gb.session, gb.next_expected)),
         rx' = rx \/ rx' = [rx EXCEPT !.i = @ + 1],
         NoCalls, epoch_start' = epoch_start
  PROVE  IInv'
<1> DEFINE seq == gb.next_expected
           j == seq % kCapacity
           msg == [session |-> gb.session, seq_num |-> seq, body |-> Body(gb.session, seq)]
<1>0. PICK slots :
        /\ \/ slots = [gb.slots EXCEPT ![seq % kCapacity] = FreeSlot]
           \/ slots = gb.slots /\ ~Holds(gb, seq)
        /\ gb' = [gb EXCEPT !.slots = slots, !.next_expected = seq + 1]
  BY DEF Freed
<1>1. /\ gb \in State /\ seq \in Nat /\ gb.high_water \in Nat
      /\ gb.session \in Sessions \cup {Blank}
  BY DEF IInv, TypeOK, State
<1>2. j \in SlotIndex
  BY <1>1, SlotOfSeq
<1>3. FreeSlot \in Slot
  BY DEF FreeSlot, Slot, Body
<1>4. slots \in [SlotIndex -> Slot]
  BY <1>0, <1>1, <1>2, <1>3 DEF State
<1>5. \A i \in SlotIndex :
        slots[i].occupied => slots[i] = gb.slots[i] /\ gb.slots[i].seq_num # seq
  <2> SUFFICES ASSUME NEW i \in SlotIndex, slots[i].occupied
               PROVE  slots[i] = gb.slots[i] /\ gb.slots[i].seq_num # seq
    OBVIOUS
  <2>1. slots[i] = gb.slots[i]
    BY <1>0, <1>1, <1>2 DEF State, FreeSlot
  <2>2. i = gb.slots[i].seq_num % kCapacity
    BY <2>1 DEF IInv, WindowSound
  <2>3. ASSUME gb.slots[i].seq_num = seq PROVE FALSE
    <3>1. i = j
      BY <2>2, <2>3
    <3>2. CASE slots = gb.slots /\ ~Holds(gb, seq)
      BY <2>1, <2>3, <3>1, <3>2 DEF Holds
    <3>3. CASE slots = [gb.slots EXCEPT ![j] = FreeSlot]
      BY <1>1, <1>2, <3>1, <3>3 DEF State, FreeSlot
    <3> QED BY <1>0, <3>2, <3>3
  <2> QED BY <2>1, <2>3
<1>6. gb' \in State
  <2>1. seq + 1 \in Nat
    BY <1>1
  <2> QED BY <1>0, <1>1, <1>4, <2>1, Zenon DEF State
<1>7. /\ gb'.session = gb.session /\ gb'.seq_synced = gb.seq_synced
      /\ gb'.next_expected = seq + 1 /\ gb'.high_water = gb.high_water
      /\ gb'.slots = slots
  BY <1>0, <1>1 DEF State
<1>8. /\ rx' \in [session: Sessions \cup {Blank}, seq_num: Nat, msg_count: Nat,
                  readable: Nat, now: Nat, i: Nat]
      /\ rx'.session = rx.session /\ rx'.seq_num = rx.seq_num
      /\ rx'.msg_count = rx.msg_count
  BY DEF IInv, TypeOK
<1>9. /\ delivered \in Seq(Delivery) /\ delivered' = Append(delivered, msg)
      /\ epoch_start \in 0 .. Len(delivered)
  BY DEF IInv, TypeOK, OnMessage
<1>10. msg \in Delivery
  BY <1>1 DEF Delivery, Body
<1> HIDE DEF msg
<1>11. /\ delivered' \in Seq(Delivery) /\ Len(delivered') = Len(delivered) + 1
       /\ epoch_start' \in 0 .. Len(delivered') /\ Len(delivered) \in Nat
       /\ delivered'[Len(delivered) + 1] = msg
       /\ \A k \in 1 .. Len(delivered) : delivered'[k] = delivered[k]
  BY <1>9, <1>10
<1>12. TypeOK'
  <2>1. session_call' = {} /\ gap_call' = {} /\ retx_call' = {}
    BY DEF NoCalls
  <2> QED BY <1>6, <1>8, <1>11, <2>1 DEF TypeOK
<1>13. WindowSound'
  <2> SUFFICES ASSUME NEW i \in SlotIndex, gb'.slots[i].occupied
               PROVE  /\ i = gb'.slots[i].seq_num % kCapacity
                      /\ gb'.slots[i].seq_num < gb'.high_water
                      /\ gb'.slots[i].seq_num < gb'.next_expected + kCapacity
                      /\ gb'.slots[i].seq_num >= gb'.next_expected
                      /\ gb'.slots[i].body = Body(gb'.session, gb'.slots[i].seq_num)
    BY DEF WindowSound
  <2>1. gb'.slots[i] = gb.slots[i] /\ gb.slots[i].occupied /\ gb.slots[i].seq_num # seq
    BY <1>5, <1>7
  <2>2. gb.slots[i].seq_num \in Nat
    BY <1>1 DEF State, Slot
  <2>3. /\ i = gb.slots[i].seq_num % kCapacity
        /\ gb.slots[i].seq_num < gb.high_water
        /\ gb.slots[i].seq_num < seq + kCapacity
        /\ gb.slots[i].seq_num >= seq
        /\ gb.slots[i].body = Body(gb.session, gb.slots[i].seq_num)
    BY <2>1 DEF IInv, WindowSound
  <2>4. gb.slots[i].seq_num >= seq + 1 /\ gb.slots[i].seq_num < (seq + 1) + kCapacity
    BY <1>1, <2>1, <2>2, <2>3, ConstantsAssumption
  <2> QED BY <1>7, <2>1, <2>3, <2>4
<1>14. InOrderOnce'
  <2> SUFFICES ASSUME NEW k \in epoch_start' + 1 .. Len(delivered')
               PROVE  LET s == gb'.next_expected - 1 - (Len(delivered') - k)
                      IN  delivered'[k] = [session |-> gb'.session, seq_num |-> s,
                                           body |-> Body(gb'.session, s)]
    BY DEF InOrderOnce
  <2>1. k \in Nat /\ k <= Len(delivered) + 1 /\ k >= 1
    BY <1>9, <1>11
  <2>2. CASE k = Len(delivered) + 1
    <3>1. gb'.next_expected - 1 - (Len(delivered') - k) = seq
      BY <1>1, <1>7, <1>11, <2>1, <2>2
    <3>2. delivered'[k] = msg
      BY <1>11, <2>2
    <3> QED BY <1>7, <3>1, <3>2 DEF msg
  <2>3. CASE k \in epoch_start + 1 .. Len(delivered)
    <3>1. gb'.next_expected - 1 - (Len(delivered') - k) = seq - 1 - (Len(delivered) - k)
      BY <1>1, <1>7, <1>11, <2>1
    <3>2. delivered'[k] = delivered[k]
      BY <1>9, <1>11, <2>3
    <3>3. LET s == seq - 1 - (Len(delivered) - k)
          IN  delivered[k] = [session |-> gb.session, seq_num |-> s,
                              body |-> Body(gb.session, s)]
      BY <2>3 DEF IInv, InOrderOnce
    <3> QED BY <1>7, <3>1, <3>2, <3>3
  <2> QED BY <1>9, <1>11, <2>1, <2>2, <2>3
<1>15. Underway'
  BY <1>7, <1>8 DEF IInv, Underway
<1>16. NothingYet'
  <2>1. gb'.seq_synced /\ gb'.session # Blank
    BY <1>7, ConstantsAssumption DEF IInv, Underway
  <2> QED BY <2>1 DEF NothingYet
<1>17. gb'.next_expected <= gb'.high_water
  BY <1>1, <1>7
<1>18. gb'.session # Blank /\ gb'.seq_synced
  BY <1>7, ConstantsAssumption DEF IInv, Underway
<1>19. RequestsOnlyMissing' /\ GapEventExact' /\ GapTracked'
  BY DEF NoCalls, RequestsOnlyMissing, GapEventExact, GapTracked
<1> QED BY <1>12, <1>13, <1>14, <1>15, <1>16, <1>17, <1>18, <1>19 DEF IInv

LEMMA WalkDeliverInv ==
  ASSUME IInv, WalkDeliver
  PROVE  IInv'
<1> DEFINE seq == gb.next_expected
           slots == [gb.slots EXCEPT ![seq % kCapacity] =
                       IF Holds(gb, seq) THEN FreeSlot ELSE @]
<1>1. /\ pc = "walk" /\ rx.i < rx.msg_count /\ CurrentSeq = seq
      /\ OnMessage(seq, Body(rx.session, seq))
      /\ gb' = [gb EXCEPT !.slots[seq % kCapacity] =
                            IF Holds(gb, seq) THEN FreeSlot ELSE @,
                          !.next_expected = seq + 1]
      /\ pc' = "flush" /\ rx' = [rx EXCEPT !.i = @ + 1]
      /\ NoCalls /\ epoch_start' = epoch_start
  BY DEF WalkDeliver, Walking
<1>2. /\ gb \in State /\ seq \in Nat /\ gb.high_water \in Nat
      /\ rx.seq_num \in Nat /\ rx.i \in Nat /\ rx.msg_count \in Nat
  BY DEF IInv, TypeOK, State
<1>3. gb.session = rx.session /\ rx.seq_num + rx.msg_count <= gb.high_water
  BY <1>1 DEF IInv, Underway
<1>4. seq < gb.high_water
  BY <1>1, <1>2, <1>3 DEF CurrentSeq
<1>5. gb' = [gb EXCEPT !.slots = slots, !.next_expected = seq + 1]
  BY <1>1, <1>2 DEF State
<1>6. \/ slots = [gb.slots EXCEPT ![seq % kCapacity] = FreeSlot]
      \/ slots = gb.slots /\ ~Holds(gb, seq)
  <2>1. CASE Holds(gb, seq)
    BY <2>1
  <2>2. CASE ~Holds(gb, seq)
    BY <1>2, <2>2 DEF State
  <2> QED BY <2>1, <2>2
<1> HIDE DEF slots
<1>7. pc \in {"walk", "flush"} /\ OnMessage(seq, Body(gb.session, seq))
  BY <1>1, <1>3
<1>8. \E sl : Freed(sl) /\ gb' = [gb EXCEPT !.slots = sl, !.next_expected = seq + 1]
  BY <1>5, <1>6 DEF Freed
<1> QED BY <1>1, <1>4, <1>7, <1>8, DeliverInv

LEMMA FlushDeliverInv ==
  ASSUME IInv, FlushDeliver
  PROVE  IInv'
<1> DEFINE seq == gb.next_expected
           slots == [gb.slots EXCEPT ![seq % kCapacity] = FreeSlot]
<1>1. /\ pc = "flush" /\ pc' = pc /\ rx' = rx /\ Holds(gb, seq)
      /\ OnMessage(seq, gb.slots[seq % kCapacity].body)
      /\ gb' = [gb EXCEPT !.slots[seq % kCapacity] = FreeSlot,
                          !.next_expected = seq + 1]
      /\ NoCalls /\ epoch_start' = epoch_start
  BY DEF FlushDeliver
<1>2. gb \in State /\ seq \in Nat /\ seq % kCapacity \in SlotIndex
  BY SlotOfSeq DEF IInv, TypeOK, State
<1>3. seq < gb.high_water /\ gb.slots[seq % kCapacity].body = Body(gb.session, seq)
  BY <1>1, <1>2 DEF IInv, WindowSound, Holds
<1>4. gb' = [gb EXCEPT !.slots = slots, !.next_expected = seq + 1]
  BY <1>1, <1>2 DEF State
<1> HIDE DEF slots
<1>5. slots = [gb.slots EXCEPT ![seq % kCapacity] = FreeSlot]
  BY DEF slots
<1>6. pc \in {"walk", "flush"} /\ OnMessage(seq, Body(gb.session, seq))
  BY <1>1, <1>3
<1>7. \E sl : Freed(sl) /\ gb' = [gb EXCEPT !.slots = sl, !.next_expected = seq + 1]
  BY <1>4, <1>5 DEF Freed
<1>8. pc' = "flush"
  BY <1>1
<1> QED BY <1>1, <1>3, <1>6, <1>7, <1>8, DeliverInv
----------------------------------------------------------------------------
LEMMA NextInv == IInv /\ [Next]_vars => IInv'
<1> SUFFICES ASSUME IInv, [Next]_vars PROVE IInv'
  OBVIOUS
<1>1. Packets \subseteq Headers /\ Times \subseteq Nat
  BY ConstantsAssumption
<1>2. ASSUME NEW p \in Packets, NEW now \in Times, Ingest(p, now) PROVE IInv'
  <2>1. p \in Headers /\ now \in Nat
    BY <1>1
  <2> QED BY <1>2, <2>1, ControlInv, UnpositionedInv, DuplicateInv, DataInv DEF Ingest
<1>3. CASE IngestStep
  BY <1>3, WalkIdleInv, WalkDeliverInv, WalkBufferInv, FlushDeliverInv, WalkDoneInv
  DEF IngestStep
<1>4. ASSUME NEW now \in Times, Tick(now) PROVE IInv'
  BY <1>1, <1>4, TickInv
<1>5. CASE Reset
  BY <1>5, ResetInv
<1>6. CASE UNCHANGED vars
  BY <1>6 DEF vars, IInv, TypeOK, WindowSound, NothingYet, InOrderOnce,
     GapTracked, Underway, RequestsOnlyMissing, GapEventExact, Holds, Quiescent
<1> QED BY <1>2, <1>3, <1>4, <1>5, <1>6 DEF Next

LEMMA Inductive == Spec => []IInv
BY InitInv, NextInv, PTL DEF Spec

\* The members and the arguments of every callback have their types.
THEOREM TypeCorrect == Spec => []TypeOK
<1>1. IInv => TypeOK
  BY DEF IInv
<1> QED BY Inductive, <1>1, PTL

\* on_message_ sees, since the last reset or rollover, consecutive sequence
\* numbers up to next_expected - 1 of one session, each with the body its
\* sender published, whatever the network does.
THEOREM InOrderDelivery == Spec => []InOrderOnce
<1>1. IInv => InOrderOnce
  BY DEF IInv
<1> QED BY Inductive, <1>1, PTL

\* The slot array never holds a message of another session, one already
\* delivered, or one outside the window of kCapacity sequence numbers.
THEOREM BufferSound == Spec => []WindowSound
<1>1. IInv => WindowSound
  BY DEF IInv
<1> QED BY Inductive, <1>1, PTL

\* A loss episode is open exactly while something is known to be missing.
THEOREM GapAlwaysTracked == Spec => []GapTracked
<1>1. IInv => GapTracked
  BY DEF IInv
<1> QED BY Inductive, <1>1, PTL

\* on_retx_ asks only for messages that exist and are missing.
THEOREM RequestsSound == Spec => []RequestsOnlyMissing
<1>1. IInv => RequestsOnlyMissing
  BY DEF IInv
<1> QED BY Inductive, <1>1, PTL

\* on_gap_ reports a nonempty range of missing messages from next_expected.
THEOREM GapEventsSound == Spec => []GapEventExact
<1>1. IInv => GapEventExact
  BY DEF IInv
<1> QED BY Inductive, <1>1, PTL

\* buffer_message() never takes the slot of another buffered message: two
\* numbers inside the window that share a slot are the same number.
LEMMA BufferKeeps ==
  ASSUME IInv, WalkBuffer, NEW i \in SlotIndex, gb.slots[i].occupied
  PROVE  gb'.slots[i] = gb.slots[i]
<1> DEFINE seq == CurrentSeq
           old == gb.slots[i].seq_num
<1>1. Well(gb)
  BY WellState DEF WalkBuffer, Walking
<1>2. /\ gb \in State /\ gb.next_expected \in Nat /\ kCapacity \in Nat
      /\ seq \in Nat /\ old \in Nat
  <2>1. gb \in State /\ rx.seq_num \in Nat /\ rx.i \in Nat
    BY DEF IInv, TypeOK
  <2>2. gb.next_expected \in Nat /\ gb.slots \in [SlotIndex -> Slot]
    BY <2>1 DEF State
  <2>3. gb.slots[i] \in Slot
    BY <2>2
  <2>4. old \in Nat
    BY <2>3 DEF Slot
  <2>5. seq \in Nat
    BY <2>1 DEF CurrentSeq
  <2> QED BY <2>1, <2>2, <2>4, <2>5, ConstantsAssumption
<1>3. /\ i = old % kCapacity /\ old < gb.next_expected + kCapacity
      /\ old >= gb.next_expected + 1
  BY <1>1 DEF Well, SoundFrom
<1>4. seq > gb.next_expected /\ gb' = Buffered(gb, seq, Body(rx.session, seq))
  BY DEF WalkBuffer
<1> HIDE DEF seq, old
<1>5. CASE gb' = gb
  BY <1>5
<1>6. CASE gb' # gb
  <2>1. /\ ~(seq - gb.next_expected >= kCapacity) /\ ~Holds(gb, seq)
        /\ gb' = [gb EXCEPT !.slots[seq % kCapacity] =
                    [occupied |-> TRUE, seq_num |-> seq, body |-> Body(rx.session, seq)]]
    BY <1>4, <1>6 DEF Buffered
  <2>2. i # seq % kCapacity
    <3>1. CASE seq = old
      BY <1>3, <2>1, <3>1 DEF Holds, old
    <3>2. CASE seq < old
      <4>1. old < seq + kCapacity
        BY <1>2, <1>3, <1>4
      <4> QED BY <1>2, <1>3, <3>2, <4>1, SlotInjective
    <3>3. CASE old < seq
      <4>1. seq < old + kCapacity
        BY <1>2, <1>3, <2>1
      <4> QED BY <1>2, <1>3, <3>3, <4>1, SlotInjective
    <3> QED BY <1>2, <3>1, <3>2, <3>3
  <2> QED BY <1>2, <2>1, <2>2 DEF State
<1> QED BY <1>5, <1>6

\* No step of ingest() loses a buffered message that is still undelivered.
THEOREM NothingEvicted == Spec => NoEviction
<1> DEFINE Kept(i) == \/ gb'.slots[i] = gb.slots[i]
                      \/ gb'.next_expected > gb.slots[i].seq_num
           Keeps == IngestStep => \A i \in SlotIndex : gb.slots[i].occupied => Kept(i)
<1>1. ASSUME IInv, IngestStep, NEW i \in SlotIndex, gb.slots[i].occupied
      PROVE  Kept(i)
  <2>0. gb \in State /\ gb.next_expected \in Nat
    BY <1>1 DEF IInv, TypeOK, State
  <2>1. CASE WalkSkip \/ FlushDone
    BY <2>1 DEF WalkSkip, FlushDone
  <2>2. CASE WalkBuffer
    BY <1>1, <2>2, BufferKeeps
  <2>3. CASE WalkDeliver \/ FlushDeliver
    <3> DEFINE j == gb.next_expected % kCapacity
    <3>1. /\ gb'.next_expected = gb.next_expected + 1
          /\ \/ gb'.slots = gb.slots
             \/ /\ gb'.slots = [gb.slots EXCEPT ![j] = FreeSlot]
                /\ gb.slots[j].seq_num = gb.next_expected
      <4>1. CASE WalkDeliver
        BY <2>0, <4>1 DEF WalkDeliver, State, Holds
      <4>2. CASE FlushDeliver
        BY <2>0, <4>2 DEF FlushDeliver, State, Holds
      <4> QED BY <2>3, <4>1, <4>2
    <3>2. CASE i = j
      BY <2>0, <3>1, <3>2
    <3>3. CASE i # j
      BY <2>0, <3>1, <3>3 DEF State
    <3> QED BY <3>2, <3>3
  <2>4. CASE WalkDone
    <3> DEFINE h == UpdateGapState(gb, rx.now)
    <3>1. CheckGapTimeout(h, rx.now) /\ rx.now \in Nat /\ Well(gb)
      BY <1>1, <2>4, WellState DEF WalkDone, IInv, TypeOK
    <3>2. Well(h) /\ GapEq(h) /\ SameStream(h, gb)
      BY <3>1, UpdateGapSpec
    <3> HIDE DEF h
    <3>3. SameStream(gb', h)
      BY <3>1, <3>2, TimeoutSpec
    <3> QED BY <3>2, <3>3 DEF SameStream
  <2> QED BY <1>1, <2>1, <2>2, <2>3, <2>4 DEF IngestStep
<1>2. IInv /\ [Next]_vars => [Keeps]_vars
  BY <1>1
<1> QED BY Inductive, <1>2, PTL DEF Spec, NoEviction
=============================================================================
