------------------------- MODULE FeedRecoveryProofs -------------------------
(***************************************************************************)
(* What the gap buffer knows of the session against what its sender has    *)
(* done: for every length of the session, every size of the buffer, of a   *)
(* request and of a reply, and however datagrams are lost, repeated and    *)
(* reordered on the way.                                                   *)
(***************************************************************************)
EXTENDS FeedRecovery, GapBufferProofs

\* The datagrams that carry messages below the number end.
Carries(p, end) ==
  \E k \in Nat \ {0}, c \in 1 .. MaxReply : p = Datagram(k, c) /\ k + c <= end

\* The sender's variables.
SenderOK ==
  /\ store \in Nat /\ store <= FinalSeq
  /\ sender \in {"publish", "linger", "over", "gone"} /\ failed \in BOOLEAN
  /\ sender # "publish" /\ ~failed => store = FinalSeq

\* The network holds data the server has recorded, and requests for what the
\* server has, unless the sender announced what it never published.
NetworkOK ==
  /\ \A p \in line \cup replies : Carries(p, store + 1)
  /\ reqs \subseteq Request
  /\ ~failed => \A r \in reqs :
       r.session = TheSession /\ r.first_seq >= 1 /\ r.count >= 1 /\ r.first_seq + r.count <= store + 1

\* How far a receiver that counts from 1 has come.
Behind(g) ==
  /\ g.seq_synced /\ g.next_expected >= 1
  /\ g.high_water <= FinalSeq + 1
  /\ ~failed => g.high_water <= store + 1
  /\ g.session # TheSession => Quiescent(g)
  /\ g.eos_seen => g.eos_seq = FinalSeq + 1 /\ sender \in {"over", "gone"}

\* Everything before next_expected has been delivered, from 1 on.
FromStart ==
  /\ epoch_start = 0
  /\ Len(delivered) + 1 = gb.next_expected
  /\ gb.session # TheSession => Len(delivered) = 0
  /\ pc # "idle" => gb.session = TheSession

RInv == IInv /\ SenderOK /\ NetworkOK /\ Behind(gb) /\ FromStart
----------------------------------------------------------------------------
(***************************************************************************)
(* The methods of the gap buffer, as far as the invariant looks at them.   *)
(***************************************************************************)
\* h has seen the same End of Session as g, or none.
SameEos(h, g) == h.eos_seen => g.eos_seen /\ h.eos_seq = g.eos_seq

\* check_gap_timeout() and update_gap_state() leave the stream position and
\* the End of Session alone.
LEMMA TimeoutEos ==
  ASSUME NEW g, Well(g), GapEq(g), NEW now \in Nat, CheckGapTimeout(g, now)
  PROVE  SameStream(gb', g) /\ SameEos(gb', g)
<1>1. g \in State
  BY DEF Well
<1>2. SameEos(gb', g)
  BY <1>1 DEF CheckGapTimeout, SameEos, State
<1> QED BY <1>2, TimeoutSpec

LEMMA UpdateGapEos ==
  ASSUME NEW g \in State, NEW now \in Nat
  PROVE  SameEos(UpdateGapState(g, now), g)
BY DEF UpdateGapState, HandleGap, SameEos, State

LEMMA HighWaterBound ==
  ASSUME NEW g \in State, NEW n \in Nat, NEW now \in Nat
  PROVE  LET h == NoteHighWater(g, n)
             k == HandleGap(h, now)
         IN  /\ h.high_water \in {g.high_water, n} /\ k.high_water = h.high_water
             /\ SameEos(h, g) /\ SameEos(k, g)
<1> DEFINE h == NoteHighWater(g, n)
<1>1. h \in State /\ h.high_water \in {g.high_water, n} /\ h.eos_seen = g.eos_seen /\ h.eos_seq = g.eos_seq
  BY DEF NoteHighWater, State
<1> HIDE DEF h
<1>2. /\ HandleGap(h, now).high_water = h.high_water /\ HandleGap(h, now).eos_seen = h.eos_seen
      /\ HandleGap(h, now).eos_seq = h.eos_seq
  BY <1>1 DEF HandleGap, State
<1> QED BY <1>1, <1>2 DEF SameEos, h

\* The first datagram may bring the session, or roll over to it from the one
\* that was configured; either way the receiver still counts from 1.
LEMMA PositionHere ==
  ASSUME RInv, pc = "idle", NEW p \in Headers, p.session = TheSession
  PROVE  LET h == Positioned(gb, p)
         IN  /\ Well(h) /\ GapEq(h) /\ h.seq_synced /\ h.session = TheSession
             /\ h.next_expected = gb.next_expected /\ h.high_water = gb.high_water
             /\ SameEos(h, gb)
<1> DEFINE h == Positioned(gb, p)
           c == CheckSession(gb, p)
<1>1. gb \in State /\ Well(gb) /\ GapEq(gb)
  BY WellState DEF RInv, Well
<1>2. Well(h) /\ GapEq(h) /\ h.session = TheSession
  BY <1>1, PositionedSpec
<1>3. gb.seq_synced /\ gb.next_expected \in Nat /\ gb.high_water \in Nat
  BY <1>1 DEF RInv, Behind, State
<1>4. CASE RollsOver(gb, p)
  <2>1. gb.next_expected = 1 /\ gb.high_water = 1
    <3>1. Len(delivered) = 0 /\ Quiescent(gb) /\ Len(delivered) + 1 = gb.next_expected
      BY <1>4 DEF RInv, Behind, FromStart, RollsOver
    <3> QED BY <3>1 DEF Quiescent
  <2>2. c = [ResetSequenceState(gb) EXCEPT !.session = TheSession]
    BY <1>4 DEF CheckSession
  <2>3. /\ c.seq_synced = (ExpectedFirstSeq # 0) /\ c.next_expected = ExpectedFirstSeq
        /\ c.high_water = ExpectedFirstSeq /\ c.eos_seen = FALSE
    BY <1>1, <2>2 DEF ResetSequenceState, State
  <2>4. ExpectedFirstSeq = 1 /\ ExpectedFirstSeq # 0
    BY RecoveryAssumption
  <2>5. c.seq_synced
    BY <2>3, <2>4, Zenon
  <2>6. h = c
    BY <2>5 DEF Positioned, SyncSequence
  <2> HIDE DEF h, c
  <2>7. h.seq_synced /\ h.next_expected = 1 /\ h.high_water = 1 /\ h.eos_seen = FALSE
    BY <2>3, <2>4, <2>5, <2>6
  <2> QED BY <1>2, <2>1, <2>7 DEF h, SameEos
<1>5. CASE ~RollsOver(gb, p)
  <2>1. c = [gb EXCEPT !.session = TheSession]
    BY <1>5 DEF CheckSession
  <2>2. /\ c.seq_synced = gb.seq_synced /\ c.next_expected = gb.next_expected
        /\ c.high_water = gb.high_water /\ c.eos_seen = gb.eos_seen /\ c.eos_seq = gb.eos_seq
    BY <1>1, <2>1 DEF State
  <2>3. h = c
    BY <1>3, <2>2 DEF Positioned, SyncSequence
  <2> HIDE DEF h, c
  <2> QED BY <1>2, <1>3, <2>2, <2>3 DEF h, SameEos
<1> QED BY <1>4, <1>5

\* NewEpoch() does not move the start of the stream.
LEMMA EpochHere ==
  ASSUME RInv, NEW p, NewEpoch(p), p.session = TheSession
  PROVE  epoch_start' = 0
BY DEF NewEpoch, RollsOver, RInv, FromStart
----------------------------------------------------------------------------
(***************************************************************************)
(* ingest() and tick(), which no other part runs between.                  *)
(***************************************************************************)
\* What a control packet that announces n does to the stream position.
LEMMA AnnounceHere ==
  ASSUME NEW g, Well(g), GapEq(g), g.seq_synced, g.session # Blank, NEW n \in Nat, NEW now \in Nat
  PROVE  LET h == IF n > g.next_expected THEN HandleGap(NoteHighWater(g, n), now) ELSE NoteHighWater(g, n)
         IN  /\ Well(h) /\ h.session = g.session /\ h.seq_synced = g.seq_synced
             /\ h.next_expected = g.next_expected /\ GapEq(h)
<1>1. n <= n
  OBVIOUS
<1> QED BY <1>1, AnnounceSpec

\* A datagram whose messages, or whose announcement, end at end.
LEMMA IngestBehind ==
  ASSUME RInv, NEW p \in Headers, NEW now \in Nat, Ingest(p, now), UNCHANGED senderVars,
         p.session = TheSession,
         NEW end \in Nat, end <= FinalSeq + 1, ~failed => end <= store + 1,
         IsData(p) => PacketEnd(p) <= end,
         ~IsData(p) => p.seq_num <= end,
         IsEndOfSession(p) => p.seq_num = FinalSeq + 1 /\ sender \in {"over", "gone"}
  PROVE  Behind(gb)' /\ FromStart'
<1> DEFINE h == Positioned(gb, p)
<1>1. pc = "idle" /\ UNCHANGED delivered /\ NewEpoch(p)
  BY DEF Ingest, IngestControl, IngestUnpositioned, IngestDuplicate, IngestData
<1>2. /\ Well(h) /\ GapEq(h) /\ h.seq_synced /\ h.session = TheSession
      /\ h.next_expected = gb.next_expected /\ h.high_water = gb.high_water
      /\ SameEos(h, gb)
  BY <1>1, PositionHere
<1>3. epoch_start' = 0
  BY <1>1, EpochHere
<1>4. UNCHANGED <<store, sender, failed>>
  BY DEF senderVars
<1>5. h \in State /\ TheSession # Blank /\ h.high_water \in Nat /\ h.next_expected \in Nat
  BY <1>2, RecoveryAssumption, ConstantsAssumption DEF Well, State
<1> HIDE DEF h
<1>6. SUFFICES /\ gb'.seq_synced /\ gb'.session = TheSession /\ gb'.next_expected = h.next_expected
               /\ gb'.high_water \in Nat
               /\ gb'.high_water = h.high_water \/ gb'.high_water <= end
               /\ SameEos(gb', h) \/ (gb'.eos_seen => gb'.eos_seq = FinalSeq + 1 /\ sender \in {"over", "gone"})
  <2>1. gb.next_expected >= 1 /\ Len(delivered) + 1 = gb.next_expected
    BY DEF RInv, Behind, FromStart
  <2>2. FromStart'
    BY <1>1, <1>2, <1>3, <1>6, <2>1 DEF FromStart
  <2>3. gb'.high_water <= FinalSeq + 1 /\ (~failed => gb'.high_water <= store + 1)
    <3>1. /\ gb.high_water <= FinalSeq + 1 /\ (~failed => gb.high_water <= store + 1)
          /\ FinalSeq \in Nat /\ store \in Nat
      BY RecoveryAssumption DEF RInv, Behind, SenderOK
    <3>2. CASE gb'.high_water = gb.high_water
      BY <3>1, <3>2
    <3>3. CASE gb'.high_water <= end
      BY <1>6, <3>1, <3>3
    <3> QED BY <1>2, <1>6, <3>2, <3>3
  <2>4. gb'.eos_seen => gb'.eos_seq = FinalSeq + 1 /\ sender \in {"over", "gone"}
    BY <1>2, <1>6 DEF RInv, Behind, SameEos
  <2> QED BY <1>2, <1>4, <1>6, <2>1, <2>2, <2>3, <2>4 DEF Behind
<1>7. CASE IngestUnpositioned(p)
  BY <1>2, <1>7 DEF IngestUnpositioned, h
<1>8. CASE IngestDuplicate(p, now)
  <2> DEFINE g1 == NoteHighWater(h, PacketEnd(p))
  <2>1. PacketEnd(p) \in Nat /\ PacketEnd(p) <= end /\ CheckGapTimeout(g1, now) /\ PacketEnd(p) <= h.next_expected
    BY <1>8 DEF IngestDuplicate, h, PacketEnd, Headers
  <2>2. PacketEnd(p) <= h.high_water
    BY <1>2, <1>5, <2>1 DEF Well
  <2>3. g1 = h
    BY <1>2, <1>5, <2>1, <2>2, HighWaterSpec
  <2>4. SameStream(gb', h) /\ SameEos(gb', h)
    BY <1>2, <2>1, <2>3, TimeoutEos
  <2> QED BY <1>2, <1>5, <2>4 DEF SameStream
<1>9. CASE IngestData(p, now)
  <2> DEFINE g1 == NoteHighWater(h, PacketEnd(p))
             gap == p.seq_num > g1.next_expected
  <2>1. /\ PacketEnd(p) \in Nat /\ PacketEnd(p) <= end
        /\ gb' = IF gap THEN HandleGap(g1, now) ELSE g1
    BY <1>9 DEF IngestData, h, PacketEnd, Headers
  <2>2. /\ g1 \in State /\ g1.session = TheSession /\ g1.seq_synced /\ g1.next_expected = h.next_expected
        /\ g1.high_water \in Nat
    BY <1>2, <1>5, <2>1, HighWaterSpec DEF Well, State
  <2>3. /\ g1.high_water \in {h.high_water, PacketEnd(p)} /\ HandleGap(g1, now).high_water = g1.high_water
        /\ SameEos(g1, h) /\ SameEos(HandleGap(g1, now), h)
    BY <1>5, <2>1, HighWaterBound
  <2>4. SameStream(HandleGap(g1, now), g1)
    BY <2>2, HandleGapSpec
  <2> HIDE DEF g1, gap
  <2> QED BY <2>1, <2>2, <2>3, <2>4 DEF SameStream
<1>10. CASE IngestControl(p, now)
  <2> DEFINE g1 == NoteHighWater(h, p.seq_num)
             gap == p.seq_num > h.next_expected
             g2 == IF gap THEN HandleGap(g1, now) ELSE g1
             g3 == IF IsEndOfSession(p) THEN OnEndOfSession(g2, p) ELSE g2
  <2>1. CheckGapTimeout(g3, now) /\ p.seq_num \in Nat /\ p.seq_num <= end
    BY <1>2, <1>10 DEF IngestControl, h, Headers
  <2>2. /\ Well(g2) /\ GapEq(g2) /\ g2.session = TheSession /\ g2.seq_synced
        /\ g2.next_expected = h.next_expected /\ g2 \in State
    <3>1. /\ p.seq_num \in Nat /\ p.seq_num <= p.seq_num /\ h.session # Blank
          /\ Well(h) /\ GapEq(h) /\ h.seq_synced
      BY <1>2, <1>5, <2>1
    <3>2. Well(g2) /\ g2.session = h.session /\ g2.seq_synced = h.seq_synced
          /\ g2.next_expected = h.next_expected /\ GapEq(g2)
      BY <3>1, AnnounceHere
    <3> HIDE DEF g2
    <3> QED BY <1>2, <3>2 DEF Well
  <2>3. g2.high_water \in {h.high_water, p.seq_num} /\ SameEos(g2, h)
    BY <1>5, <2>1, HighWaterBound
  <2> HIDE DEF g2
  <2>4. Well(g3) /\ GapEq(g3) /\ SameStream(g3, g2)
    BY <2>2, EndOfSessionSpec DEF SameStream
  <2>5. SameEos(g3, g2) \/ (g3.eos_seen /\ g3.eos_seq = p.seq_num /\ IsEndOfSession(p))
    BY <2>2 DEF OnEndOfSession, SameEos, State
  <2> HIDE DEF g3
  <2>6. SameStream(gb', g3) /\ SameEos(gb', g3)
    BY <2>1, <2>4, TimeoutEos
  <2>7. /\ gb'.seq_synced /\ gb'.session = TheSession /\ gb'.next_expected = h.next_expected
        /\ gb'.high_water = g2.high_water /\ g2.high_water \in Nat
    BY <2>2, <2>4, <2>6 DEF SameStream, State
  <2>8. SameEos(gb', h) \/ (gb'.eos_seen => gb'.eos_seq = FinalSeq + 1 /\ sender \in {"over", "gone"})
    BY <2>3, <2>5, <2>6 DEF SameEos
  <2> QED BY <2>1, <2>3, <2>7, <2>8
<1> QED BY <1>7, <1>8, <1>9, <1>10 DEF Ingest

\* The rest of an ingest() call, and a tick, move neither the high-water mark
\* nor the End of Session.
LEMMA WalkBehind ==
  ASSUME RInv, IInv', IngestStep, UNCHANGED senderVars
  PROVE  Behind(gb)' /\ FromStart'
<1>1. /\ gb \in State /\ gb' \in State /\ delivered \in Seq(Delivery) /\ Len(delivered) \in Nat
      /\ pc \in {"walk", "flush"}
  <2>1. gb \in State /\ gb' \in State /\ delivered \in Seq(Delivery)
    BY DEF RInv, IInv, TypeOK
  <2>2. pc \in {"walk", "flush"}
    BY DEF IngestStep, WalkSkip, WalkDeliver, WalkBuffer, FlushDeliver, FlushDone, WalkDone, Walking
  <2> QED BY <2>1, <2>2, LenProperties
<1>2. gb.session = TheSession /\ Len(delivered) + 1 = gb.next_expected /\ epoch_start = 0
  BY <1>1 DEF RInv, FromStart
<1>3. UNCHANGED <<store, sender, failed>>
  BY DEF senderVars
<1>4. epoch_start' = epoch_start
  BY DEF IngestStep, WalkSkip, WalkDeliver, WalkBuffer, FlushDeliver, FlushDone, WalkDone
<1>5. SUFFICES /\ gb'.session = gb.session /\ gb'.seq_synced = gb.seq_synced
               /\ gb'.high_water = gb.high_water /\ SameEos(gb', gb)
               /\ \/ gb'.next_expected = gb.next_expected /\ delivered' = delivered
                  \/ gb'.next_expected = gb.next_expected + 1 /\ Len(delivered') = Len(delivered) + 1
  <2>1. gb.next_expected \in Nat /\ gb.next_expected >= 1
    BY <1>1 DEF RInv, Behind, State
  <2>2. Len(delivered') + 1 = gb'.next_expected /\ gb'.next_expected >= 1
    BY <1>1, <1>2, <1>5, <2>1
  <2> QED BY <1>1, <1>2, <1>3, <1>4, <1>5, <2>2 DEF RInv, Behind, FromStart, SameEos
<1>6. CASE WalkSkip \/ FlushDone
  BY <1>6 DEF WalkSkip, FlushDone, SameEos
<1>7. CASE WalkBuffer
  BY <1>1, <1>7 DEF WalkBuffer, Buffered, SameEos, State
<1>8. ASSUME NEW seq, seq = gb.next_expected, NEW body \in (Sessions \cup {Blank}) \X Nat, OnMessage(seq, body),
             NEW slots, gb' = [gb EXCEPT !.slots = slots, !.next_expected = seq + 1]
      PROVE  /\ gb'.session = gb.session /\ gb'.seq_synced = gb.seq_synced
             /\ gb'.high_water = gb.high_water /\ SameEos(gb', gb)
             /\ gb'.next_expected = gb.next_expected + 1 /\ Len(delivered') = Len(delivered) + 1
  <2>1. /\ gb'.session = gb.session /\ gb'.seq_synced = gb.seq_synced
        /\ gb'.high_water = gb.high_water /\ SameEos(gb', gb)
        /\ gb'.next_expected = gb.next_expected + 1
    BY <1>1, <1>8 DEF SameEos, State
  <2>2. Len(delivered') = Len(delivered) + 1
    <3> DEFINE d == [session |-> gb.session, seq_num |-> seq, body |-> body]
    <3>1. delivered' = Append(delivered, d)
      BY <1>8 DEF OnMessage
    <3>2. d \in Delivery
      BY <1>1, <1>8 DEF Delivery, State
    <3> HIDE DEF d
    <3> QED BY <1>1, <3>1, <3>2, AppendProperties
  <2> QED BY <2>1, <2>2
<1>9. CASE WalkDeliver
  <2> DEFINE seq == CurrentSeq
             slots == [gb.slots EXCEPT ![seq % kCapacity] = IF Holds(gb, seq) THEN FreeSlot ELSE @]
  <2>1. /\ seq = gb.next_expected /\ OnMessage(seq, Body(rx.session, seq))
        /\ gb' = [gb EXCEPT !.slots = slots, !.next_expected = seq + 1]
    BY <1>9 DEF WalkDeliver
  <2>2. Body(rx.session, seq) \in (Sessions \cup {Blank}) \X Nat
    BY <1>1, <2>1 DEF RInv, IInv, TypeOK, Body, State
  <2> HIDE DEF seq, slots
  <2> QED BY <1>8, <2>1, <2>2
<1>10. CASE FlushDeliver
  <2> DEFINE seq == gb.next_expected
             slots == [gb.slots EXCEPT ![seq % kCapacity] = FreeSlot]
  <2>1. /\ seq = gb.next_expected /\ OnMessage(seq, gb.slots[seq % kCapacity].body)
        /\ gb' = [gb EXCEPT !.slots = slots, !.next_expected = seq + 1]
    BY <1>10 DEF FlushDeliver
  <2>2. gb.slots[seq % kCapacity].body \in (Sessions \cup {Blank}) \X Nat
    <3>1. seq % kCapacity \in SlotIndex
      BY <1>1, SlotOfSeq DEF State
    <3> QED BY <1>1, <3>1 DEF State, Slot
  <2> HIDE DEF seq, slots
  <2> QED BY <1>8, <2>1, <2>2
<1>11. CASE WalkDone
  <2> DEFINE g == UpdateGapState(gb, rx.now)
  <2>1. CheckGapTimeout(g, rx.now) /\ delivered' = delivered /\ rx.now \in Nat /\ pc # "flush"
    BY <1>11 DEF WalkDone, RInv, IInv, TypeOK
  <2>2. Well(gb)
    BY <2>1, WellState DEF RInv
  <2>3. Well(g) /\ GapEq(g) /\ SameStream(g, gb) /\ SameEos(g, gb)
    BY <1>1, <2>1, <2>2, UpdateGapSpec, UpdateGapEos
  <2> HIDE DEF g
  <2>4. SameStream(gb', g) /\ SameEos(gb', g)
    BY <2>1, <2>3, TimeoutEos
  <2> QED BY <2>1, <2>3, <2>4 DEF SameStream, SameEos
<1> QED BY <1>6, <1>7, <1>9, <1>10, <1>11 DEF IngestStep

LEMMA TickBehind ==
  ASSUME RInv, NEW now \in Nat, Tick(now), UNCHANGED senderVars
  PROVE  Behind(gb)' /\ FromStart'
<1>1. pc = "idle" /\ pc' = pc /\ CheckGapTimeout(gb, now) /\ UNCHANGED <<delivered, epoch_start>>
  BY DEF Tick
<1>2. SameStream(gb', gb) /\ SameEos(gb', gb)
  BY <1>1, WellState, TimeoutEos DEF RInv
<1>3. UNCHANGED <<store, sender, failed>>
  BY DEF senderVars
<1>4. Behind(gb)'
  BY <1>2, <1>3 DEF RInv, Behind, SameStream, SameEos, Quiescent
<1> QED BY <1>1, <1>2, <1>4 DEF RInv, FromStart, SameStream

\* The requests of a step of the buffer are for messages the server has.
LEMMA ReceiverInv ==
  ASSUME RInv, IInv', Behind(gb)', FromStart', Send, UNCHANGED senderVars, replies' \subseteq replies
  PROVE  RInv'
<1>1. UNCHANGED <<store, line, sender, failed>>
  BY DEF senderVars
<1>2. SenderOK'
  BY <1>1 DEF RInv, SenderOK
<1>3. reqs' \subseteq reqs \cup retx_call' /\ retx_call' \subseteq Request
  BY DEF Send, IInv, TypeOK
<1>4. ASSUME NEW r \in retx_call', ~failed
      PROVE  r.session = TheSession /\ r.first_seq >= 1 /\ r.count >= 1 /\ r.first_seq + r.count <= store + 1
  <2>1. r.first_seq \in Nat /\ r.count \in Nat /\ store \in Nat
    BY <1>3 DEF Request, RInv, SenderOK
  <2>2. /\ r.session = gb'.session /\ r.count \in 1 .. MaxRetransmitCount
        /\ \A s \in r.first_seq .. r.first_seq + r.count - 1 : gb'.next_expected <= s /\ s < gb'.high_water
    BY DEF IInv, RequestsOnlyMissing
  <2>3. gb'.next_expected \in Nat /\ gb'.high_water \in Nat
    BY DEF IInv, TypeOK, State
  <2>4. /\ r.count >= 1 /\ r.first_seq \in r.first_seq .. r.first_seq + r.count - 1
        /\ r.first_seq + r.count - 1 \in r.first_seq .. r.first_seq + r.count - 1
    BY <2>1, <2>2, ConstantsAssumption
  <2>5. /\ gb'.next_expected <= r.first_seq /\ r.first_seq < gb'.high_water
        /\ r.first_seq + r.count - 1 < gb'.high_water
    BY <2>2, <2>4
  <2>6. gb'.next_expected >= 1 /\ gb'.high_water <= store + 1
    BY <1>1, <1>4 DEF Behind
  <2>7. gb'.session = TheSession
    BY <2>1, <2>3, <2>5 DEF Behind, Quiescent
  <2> QED BY <2>1, <2>2, <2>3, <2>4, <2>5, <2>6, <2>7
<1>5. NetworkOK'
  BY <1>1, <1>3, <1>4 DEF RInv, NetworkOK
<1> QED BY <1>2, <1>5 DEF RInv

\* Data of this session that the server has.
LEMMA DataHere ==
  ASSUME RInv, NEW p, Carries(p, store + 1)
  PROVE  /\ p \in Headers /\ p.session = TheSession /\ IsData(p) /\ ~IsEndOfSession(p)
         /\ PacketEnd(p) \in Nat /\ PacketEnd(p) <= store + 1
<1>1. PICK k \in Nat \ {0}, c \in 1 .. MaxReply : p = Datagram(k, c) /\ k + c <= store + 1
  BY DEF Carries
<1>2. c \in Nat /\ c # 0 /\ c # kMoldEndOfSessionCount /\ k \in Nat
  BY RecoveryAssumption, ConstantsAssumption
<1>3. p = [session |-> TheSession, seq_num |-> k, msg_count |-> c, readable |-> c]
  BY <1>1 DEF Datagram
<1>4. p \in Headers /\ p.session = TheSession /\ p.seq_num = k /\ p.msg_count = c
  BY <1>2, <1>3, RecoveryAssumption DEF Headers
<1> QED BY <1>1, <1>2, <1>4 DEF IsData, IsHeartbeat, IsEndOfSession, PacketEnd

LEMMA ControlHere ==
  /\ Heartbeat \in Headers /\ Heartbeat.session = TheSession /\ Heartbeat.seq_num = FinalSeq + 1
  /\ IsHeartbeat(Heartbeat) /\ ~IsData(Heartbeat) /\ ~IsEndOfSession(Heartbeat)
  /\ EndOfSession \in Headers /\ EndOfSession.session = TheSession /\ EndOfSession.seq_num = FinalSeq + 1
  /\ IsEndOfSession(EndOfSession) /\ ~IsData(EndOfSession)
<1>1. Heartbeat = [session |-> TheSession, seq_num |-> FinalSeq + 1, msg_count |-> 0, readable |-> 0]
  BY DEF Heartbeat, ControlDatagram, Datagram, Announced
<1>2. EndOfSession = [session |-> TheSession, seq_num |-> FinalSeq + 1,
                      msg_count |-> kMoldEndOfSessionCount, readable |-> 0]
  BY DEF EndOfSession, ControlDatagram, Datagram, Announced
<1>3. FinalSeq + 1 \in Nat /\ kMoldEndOfSessionCount \in Nat /\ kMoldEndOfSessionCount # 0 /\ TheSession \in Sessions
  BY RecoveryAssumption, ConstantsAssumption
<1> QED BY <1>1, <1>2, <1>3 DEF Headers, IsData, IsHeartbeat, IsEndOfSession
----------------------------------------------------------------------------
(***************************************************************************)
(* The steps of the system.                                                *)
(***************************************************************************)
LEMMA RecoveryInitInv == RecoveryInit => RInv
<1> SUFFICES ASSUME RecoveryInit PROVE RInv
  OBVIOUS
<1>1. IInv
  BY InitInv DEF RecoveryInit
<1>2. ExpectedFirstSeq = 1 /\ FinalSeq \in Nat
  BY RecoveryAssumption
<1>3. /\ gb.next_expected = 1 /\ gb.high_water = 1 /\ gb.seq_synced /\ ~gb.eos_seen
      /\ delivered = <<>> /\ epoch_start = 0 /\ pc = "idle"
  <2>1. gb.seq_synced = (ExpectedFirstSeq # 0)
    BY DEF RecoveryInit, Init
  <2>2. ExpectedFirstSeq # 0
    BY <1>2
  <2>3. gb.seq_synced
    BY <2>1, <2>2, Zenon
  <2> QED BY <1>2, <2>3 DEF RecoveryInit, Init
<1>4. store = 0 /\ line = {} /\ sender = "publish" /\ failed = FALSE /\ reqs = {} /\ replies = {}
  BY DEF RecoveryInit
<1>5. SenderOK /\ NetworkOK
  <2>1. SenderOK
    <3>1. failed \in BOOLEAN /\ sender = "publish" /\ sender \in {"publish", "linger", "over", "gone"}
      BY <1>4, Zenon
    <3>2. store \in Nat /\ store <= FinalSeq
      BY <1>2, <1>4
    <3> QED BY <3>1, <3>2, Zenon DEF SenderOK
  <2>2. NetworkOK
    BY <1>4, Zenon DEF NetworkOK
  <2> QED BY <2>1, <2>2
<1>6. Behind(gb)
  BY <1>2, <1>3, <1>4 DEF Behind, Quiescent
<1>7. FromStart
  BY <1>3 DEF FromStart
<1> QED BY <1>1, <1>5, <1>6, <1>7 DEF RInv

\* A step of the sender or the server leaves the buffer alone and only adds
\* to what is recorded.
LEMMA OthersInv ==
  ASSUME RInv, UNCHANGED vars, SenderOK', NetworkOK', store' >= store, store' \in Nat, failed => failed',
         sender \in {"over", "gone"} => sender' \in {"over", "gone"}
  PROVE  RInv'
<1>1. UNCHANGED <<gb, pc, rx, delivered, epoch_start>>
  BY DEF vars
<1>2. IInv'
  BY NextInv DEF RInv
<1>3. gb.high_water \in Nat /\ store \in Nat
  BY DEF RInv, IInv, TypeOK, State, SenderOK
<1>4. Behind(gb)'
  BY <1>1, <1>3 DEF RInv, Behind, Quiescent
<1>5. FromStart'
  BY <1>1 DEF RInv, FromStart
<1> QED BY <1>2, <1>4, <1>5 DEF RInv

LEMMA CarriesMore ==
  ASSUME NEW p, NEW m \in Nat, NEW n \in Nat, m <= n, Carries(p, m)
  PROVE  Carries(p, n)
<1>1. PICK k \in Nat \ {0}, c \in 1 .. MaxReply : p = Datagram(k, c) /\ k + c <= m
  BY DEF Carries
<1>2. k + c <= n
  BY <1>1, RecoveryAssumption
<1> QED BY <1>1, <1>2 DEF Carries

LEMMA PublishInv ==
  ASSUME RInv, Publish \/ SendFails
  PROVE  RInv'
<1>1. /\ sender = "publish" /\ store \in Nat /\ store < FinalSeq /\ FinalSeq \in Nat /\ store' = store + 1
      /\ UNCHANGED <<vars, reqs, replies>>
  BY RecoveryAssumption DEF Publish, SendFails, Record, RInv, SenderOK
<1>2. /\ line' \subseteq line \cup {Datagram(store + 1, 1)}
      /\ (failed' = failed /\ sender' = sender) \/ (failed' = TRUE /\ sender' = "linger")
  BY DEF Publish, SendFails
<1>3. SenderOK'
  <2>1. failed' \in BOOLEAN /\ sender' \in {"publish", "linger", "over", "gone"}
    BY <1>1, <1>2, Zenon DEF RInv, SenderOK
  <2>2. store' \in Nat /\ store' <= FinalSeq
    BY <1>1
  <2>3. sender' # "publish" => failed'
    BY <1>1, <1>2, Zenon
  <2> QED BY <2>1, <2>2, <2>3, Zenon DEF SenderOK
<1>4. NetworkOK'
  <2>1. Carries(Datagram(store + 1, 1), store' + 1)
    <3>1. store + 1 \in Nat \ {0} /\ 1 \in 1 .. MaxReply /\ store + 1 + 1 <= store' + 1
      BY <1>1, RecoveryAssumption
    <3> QED BY <3>1 DEF Carries
  <2>2. ASSUME NEW p \in line' \cup replies' PROVE Carries(p, store' + 1)
    <3>1. CASE p \in line \cup replies
      <4>1. Carries(p, store + 1) /\ store + 1 \in Nat /\ store' + 1 \in Nat /\ store + 1 <= store' + 1
        BY <1>1, <3>1 DEF RInv, NetworkOK
      <4> QED BY <4>1, CarriesMore
    <3>2. CASE p = Datagram(store + 1, 1)
      BY <2>1, <3>2
    <3> QED BY <1>1, <1>2, <3>1, <3>2
  <2>3. reqs' \subseteq Request
    BY <1>1 DEF RInv, NetworkOK
  <2>4. ASSUME ~failed', NEW r \in reqs'
        PROVE  r.session = TheSession /\ r.first_seq >= 1 /\ r.count >= 1 /\ r.first_seq + r.count <= store' + 1
    <3>1. ~failed /\ r \in reqs
      BY <1>1, <1>2, <2>4
    <3>2. r.session = TheSession /\ r.first_seq >= 1 /\ r.count >= 1 /\ r.first_seq + r.count <= store + 1
      BY <3>1 DEF RInv, NetworkOK
    <3>3. r.first_seq \in Nat /\ r.count \in Nat
      BY <3>1 DEF RInv, NetworkOK, Request
    <3> QED BY <1>1, <3>2, <3>3
  <2> QED BY <2>2, <2>3, <2>4 DEF NetworkOK
<1> QED BY <1>1, <1>2, <1>3, <1>4, OthersInv

LEMMA PhaseInv ==
  ASSUME RInv, Linger \/ EndSession \/ SenderExits
  PROVE  RInv'
<1>1. UNCHANGED <<vars, store, line, failed, reqs, replies>>
  BY DEF Linger, EndSession, SenderExits
<1>2. \/ sender = "publish" /\ store = FinalSeq /\ sender' = "linger"
      \/ sender = "linger" /\ sender' = "over"
      \/ sender = "over" /\ sender' = "gone"
  BY DEF Linger, EndSession, SenderExits
<1>3. SenderOK'
  BY <1>1, <1>2 DEF RInv, SenderOK
<1>4. NetworkOK'
  BY <1>1 DEF RInv, NetworkOK
<1>5. store' \in Nat /\ store' >= store
  BY <1>1 DEF RInv, SenderOK
<1> QED BY <1>1, <1>2, <1>3, <1>4, <1>5, OthersInv

\* A reply carries at least one message, and none the server has not recorded.
LEMMA AnswerCarries ==
  ASSUME RInv, NEW r \in reqs, ~Rejected(r)
  PROVE  Carries(Answer(r), store + 1)
<1>1. r.first_seq \in Nat /\ r.count \in Nat /\ store \in Nat
  BY DEF RInv, NetworkOK, Request, SenderOK
<1>2. r.first_seq # 0 /\ r.count # 0 /\ r.first_seq <= store
  BY <1>1 DEF Rejected
<1> DEFINE want_end == Least(store + 1, r.first_seq + r.count)
           c == Least(want_end - r.first_seq, MaxReply)
<1>3. want_end \in Nat /\ want_end >= r.first_seq + 1 /\ want_end <= store + 1
  BY <1>1, <1>2 DEF Least
<1> HIDE DEF want_end
<1>4. c \in 1 .. MaxReply /\ r.first_seq + c <= want_end /\ c \in Nat
  BY <1>1, <1>3, RecoveryAssumption DEF Least
<1> HIDE DEF c
<1>5. r.first_seq + c <= store + 1
  BY <1>1, <1>3, <1>4
<1>6. Answer(r) = Datagram(r.first_seq, c)
  BY DEF Answer, c, want_end
<1> QED BY <1>1, <1>2, <1>4, <1>5, <1>6 DEF Carries

LEMMA ServerInv ==
  ASSUME RInv, NEW r \in reqs, ServerPoll(r) \/ ServerPollLost(r)
  PROVE  RInv'
<1>1. UNCHANGED <<vars, store, line, sender, failed>> /\ reqs' \subseteq reqs
  BY DEF ServerPoll, ServerPollLost, senderVars
<1>2. replies' \subseteq replies \/ (~Rejected(r) /\ replies' = replies \cup {Answer(r)})
  BY DEF ServerPoll, ServerPollLost
<1>3. SenderOK'
  BY <1>1 DEF RInv, SenderOK
<1>4. NetworkOK'
  BY <1>1, <1>2, AnswerCarries DEF RInv, NetworkOK
<1>5. store' \in Nat /\ store' >= store
  BY <1>1 DEF RInv, SenderOK
<1> QED BY <1>1, <1>3, <1>4, <1>5, OthersInv

\* A datagram reaches the buffer.
LEMMA IngestRecovery ==
  ASSUME RInv, NEW p \in Headers, NEW now \in Times, Ingest(p, now), Send, UNCHANGED senderVars,
         replies' \subseteq replies, p.session = TheSession,
         NEW end \in Nat, end <= FinalSeq + 1, ~failed => end <= store + 1,
         IsData(p) => PacketEnd(p) <= end,
         ~IsData(p) => p.seq_num <= end,
         IsEndOfSession(p) => p.seq_num = FinalSeq + 1 /\ sender \in {"over", "gone"}
  PROVE  RInv'
<1>1. now \in Nat
  BY ConstantsAssumption
<1>2. IInv'
  BY <1>1, ControlInv, UnpositionedInv, DuplicateInv, DataInv DEF Ingest, RInv
<1>3. Behind(gb)' /\ FromStart'
  BY <1>1, IngestBehind
<1> QED BY <1>2, <1>3, ReceiverInv

LEMMA DataRecovery ==
  ASSUME RInv, NEW p \in line \cup replies, NEW now \in Times, Ingest(p, now), Send, UNCHANGED senderVars,
         replies' \subseteq replies
  PROVE  RInv'
<1>1. Carries(p, store + 1) /\ store \in Nat /\ store <= FinalSeq /\ FinalSeq \in Nat
  BY RecoveryAssumption DEF RInv, NetworkOK, SenderOK
<1>2. /\ p \in Headers /\ p.session = TheSession /\ IsData(p) /\ ~IsEndOfSession(p)
      /\ PacketEnd(p) \in Nat /\ PacketEnd(p) <= store + 1
  BY <1>1, DataHere
<1>3. PacketEnd(p) <= FinalSeq + 1
  BY <1>1, <1>2
<1>4. PacketEnd(p) <= PacketEnd(p)
  BY <1>2
<1> QED BY <1>2, <1>3, <1>4, IngestRecovery

LEMMA ControlRecovery ==
  ASSUME RInv, NEW p \in {Heartbeat, EndOfSession}, NEW now \in Times, RecvLine(p, now),
         sender # "publish", p = EndOfSession => sender \in {"over", "gone"}
  PROVE  RInv'
<1>1. Ingest(p, now) /\ Send /\ UNCHANGED <<senderVars, replies>>
  BY DEF RecvLine
<1>2. /\ FinalSeq + 1 \in Nat /\ FinalSeq + 1 <= FinalSeq + 1 /\ (~failed => FinalSeq + 1 <= store + 1)
  BY RecoveryAssumption DEF RInv, SenderOK
<1>3. /\ p \in Headers /\ p.session = TheSession /\ p.seq_num = FinalSeq + 1 /\ ~IsData(p)
      /\ IsEndOfSession(p) => sender \in {"over", "gone"}
  BY ControlHere
<1>4. p.seq_num <= FinalSeq + 1
  BY <1>2, <1>3
<1> QED BY <1>1, <1>2, <1>3, <1>4, IngestRecovery

LEMMA RecoveryInductive == RecoverySpec => []RInv
<1>1. ASSUME RInv, RecoveryNext PROVE RInv'
  <2>1. CASE RecvData
    <3>1. PICK p \in line, now \in Times : RecvLine(p, now)
      BY <2>1 DEF RecvData
    <3> QED BY <1>1, <3>1, DataRecovery DEF RecvLine
  <2>2. CASE RecvHeartbeat
    <3>1. PICK now \in Times : RecvLine(Heartbeat, now)
      BY <2>2 DEF RecvHeartbeat
    <3>2. Heartbeat # EndOfSession
      BY ControlHere
    <3> QED BY <1>1, <2>2, <3>1, <3>2, ControlRecovery DEF RecvHeartbeat
  <2>3. CASE RecvEndOfSession
    <3>1. PICK now \in Times : RecvLine(EndOfSession, now)
      BY <2>3 DEF RecvEndOfSession
    <3> QED BY <1>1, <2>3, <3>1, ControlRecovery DEF RecvEndOfSession
  <2>4. CASE \E p \in replies : Polling(p)
    <3>1. PICK p \in replies, now \in Times : RecvReply(p, now)
      BY <2>4 DEF Polling
    <3> QED BY <1>1, <3>1, DataRecovery DEF RecvReply
  <2>5. CASE ReceiverStep
    <3>1. IngestStep /\ Send /\ UNCHANGED <<senderVars, replies>>
      BY <2>5 DEF ReceiverStep
    <3>2. IInv'
      BY <1>1, <3>1, NextInv DEF RInv, Next
    <3>3. Behind(gb)' /\ FromStart'
      BY <1>1, <3>1, <3>2, WalkBehind
    <3> QED BY <1>1, <3>1, <3>2, <3>3, ReceiverInv
  <2>6. CASE Ticking
    <3>1. PICK now \in Times : ReceiverTick(now)
      BY <2>6 DEF Ticking
    <3>2. Tick(now) /\ Send /\ UNCHANGED <<senderVars, replies>> /\ now \in Nat
      BY <3>1, ConstantsAssumption DEF ReceiverTick
    <3>3. IInv'
      BY <1>1, <3>2, TickInv DEF RInv
    <3>4. Behind(gb)' /\ FromStart'
      BY <1>1, <3>2, TickBehind
    <3> QED BY <1>1, <3>2, <3>3, <3>4, ReceiverInv
  <2>7. CASE \E r \in reqs : ServerPoll(r) \/ ServerPollLost(r)
    BY <1>1, <2>7, ServerInv
  <2> QED BY <1>1, <2>1, <2>2, <2>3, <2>4, <2>5, <2>6, <2>7, PublishInv, PhaseInv DEF RecoveryNext
<1>2. ASSUME RInv, UNCHANGED allVars PROVE RInv'
  <2>1. UNCHANGED <<vars, store, line, sender, failed, reqs, replies>>
    BY <1>2 DEF allVars, netVars, senderVars
  <2>2. SenderOK' /\ NetworkOK'
    BY <1>2, <2>1 DEF RInv, SenderOK, NetworkOK
  <2>3. store' \in Nat /\ store' >= store
    BY <1>2, <2>1 DEF RInv, SenderOK
  <2> QED BY <1>2, <2>1, <2>2, <2>3, OthersInv
<1> QED BY <1>1, <1>2, RecoveryInitInv, PTL DEF RecoverySpec

\* The server is only asked for messages it has, for every session, every
\* buffer and every loss, until the sender announces what it did not publish.
THEOREM RequestsAreServed == RecoverySpec => []RequestsExist
<1>1. RInv => RequestsExist
  <2> SUFFICES ASSUME RInv, ~failed, NEW r \in reqs
               PROVE  ~Rejected(r) /\ r.first_seq + r.count - 1 <= store
    BY DEF RequestsExist
  <2>1. r.session = TheSession /\ r.first_seq >= 1 /\ r.count >= 1 /\ r.first_seq + r.count <= store + 1
    BY DEF RInv, NetworkOK
  <2>2. r.first_seq \in Nat /\ r.count \in Nat /\ store \in Nat
    BY DEF RInv, NetworkOK, Request, SenderOK
  <2> QED BY <2>1, <2>2 DEF Rejected
<1> QED BY <1>1, RecoveryInductive, PTL

\* A receiver that reports a complete session has delivered every message of
\* it, once and in order, for every session, every buffer and every loss.
THEOREM CompleteMeansDelivered == RecoverySpec => []CompleteIsTrue
<1>1. RInv => CompleteIsTrue
  <2> SUFFICES ASSUME RInv, session_complete
               PROVE  /\ sender \in {"over", "gone"}
                      /\ Len(delivered) = FinalSeq
                      /\ \A k \in 1 .. FinalSeq : delivered[k].body = Body(TheSession, k)
    BY DEF CompleteIsTrue
  <2>1. gb \in State /\ gb.next_expected <= gb.high_water /\ InOrderOnce /\ delivered \in Seq(Delivery)
    BY DEF RInv, IInv, TypeOK
  <2>2. /\ gb.eos_seq = FinalSeq + 1 /\ sender \in {"over", "gone"} /\ gb.next_expected >= gb.eos_seq
        /\ gb.high_water <= FinalSeq + 1
    BY DEF RInv, Behind, session_complete
  <2>3. Len(delivered) + 1 = gb.next_expected /\ epoch_start = 0
        /\ (gb.session # TheSession => Len(delivered) = 0)
    BY DEF RInv, FromStart
  <2>4. gb.next_expected \in Nat /\ gb.high_water \in Nat /\ FinalSeq \in Nat /\ Len(delivered) \in Nat
    BY <2>1, RecoveryAssumption, LenProperties DEF State
  <2>5. gb.next_expected = FinalSeq + 1 /\ Len(delivered) = FinalSeq
    BY <2>1, <2>2, <2>3, <2>4
  <2>6. ASSUME NEW k \in 1 .. FinalSeq PROVE delivered[k].body = Body(TheSession, k)
    <3>1. k \in epoch_start + 1 .. Len(delivered) /\ gb.session = TheSession
      BY <2>3, <2>4, <2>5
    <3>2. gb.next_expected - 1 - (Len(delivered) - k) = k
      BY <2>4, <2>5
    <3>3. delivered[k] = [session |-> gb.session, seq_num |-> k, body |-> Body(gb.session, k)]
      BY <2>1, <3>1, <3>2 DEF InOrderOnce
    <3> QED BY <3>1, <3>3
  <2> QED BY <2>2, <2>5, <2>6
<1> QED BY <1>1, RecoveryInductive, PTL
=============================================================================
