----------------------------- MODULE GapBuffer -----------------------------
(***************************************************************************)
(* The MoldUDP64 gap buffer (feed/gap_buffer.hpp): it turns the datagrams  *)
(* of a lossy, duplicating, reordering multicast feed into one in-order    *)
(* stream of messages, and asks for the ones that are missing.             *)
(*                                                                         *)
(* The object is single-threaded.  Its members are the fields of the       *)
(* record gb; every private method is an operator from such a record to    *)
(* such a record, and ingest() is the composition of them that the code    *)
(* writes.  The loop that walks the messages of a datagram is a sequence   *)
(* of steps (pc), one for each call of the on_message_ callback, so that a *)
(* step of this module delivers at most one message; nothing else may      *)
(* happen until the loop ends.                                             *)
(*                                                                         *)
(* A message body is the pair <<session, sequence number>> under which its *)
(* sender published it.  Statistics are left out.  The environment is the  *)
(* most general one: any datagram may arrive at any time, with any clock   *)
(* reading.                                                                *)
(***************************************************************************)
EXTENDS Integers, Sequences

CONSTANTS
  Sessions,             \* session names that appear in datagrams
  Blank,                \* the all-spaces session: "not learned yet"
  Packets,              \* the datagrams the network may hand over
  Times,                \* the values of now_ns that callers pass
  Oversize,             \* sequence numbers of messages over kMaxMessageBytes
  kCapacity,            \* slots of the out-of-order buffer
  kMoldEndOfSessionCount, \* the msg_count that marks End of Session
  ClockModulus,         \* 2^64: the width of the clock arithmetic
  CfgSession,           \* Config::session
  AcceptSessionChange,  \* Config::accept_session_change
  ExpectedFirstSeq,     \* Config::expected_first_seq
  GapTimeout,           \* Config::gap_timeout_ns
  RetryInterval,        \* Config::retry_interval_ns
  MaxRetransmitCount    \* Config::max_retransmit_count

\* A datagram: the header, and how many of the announced messages the
\* datagram really holds (fewer when it is truncated).
Headers == [session: Sessions, seq_num: Nat, msg_count: Nat, readable: Nat]

ASSUME ConstantsAssumption ==
  /\ Blank \notin Sessions
  /\ Packets \subseteq Headers
  /\ Times \subseteq Nat
  /\ Oversize \subseteq Nat
  /\ kCapacity \in Nat \ {0}
  /\ kMoldEndOfSessionCount \in Nat \ {0}
  /\ ClockModulus \in Nat \ {0}
  /\ CfgSession \in Sessions \cup {Blank}
  /\ AcceptSessionChange \in BOOLEAN
  /\ ExpectedFirstSeq \in Nat
  /\ GapTimeout \in Nat
  /\ RetryInterval \in Nat
  /\ MaxRetransmitCount \in Nat

VARIABLES
  gb,           \* the members of the GapBuffer object
  pc,           \* where ingest() is: "idle" (not running), "walk", "flush"
  rx,           \* the datagram being walked, its arrival time, and the loop index
  delivered,    \* every on_message_ call so far
  epoch_start,  \* Len(delivered) when sequencing was last reset
  session_call, \* the on_session_chg_ call the last step made, if any
  gap_call,     \* the on_gap_ call the last step made, if any
  retx_call     \* the on_retx_ call the last step made, if any

vars == <<gb, pc, rx, delivered, epoch_start,
          session_call, gap_call, retx_call>>
----------------------------------------------------------------------------
(***************************************************************************)
(* Data.                                                                   *)
(***************************************************************************)
Body(sess, seq) == <<sess, seq>>

SlotIndex == 0 .. kCapacity - 1
Slot == [occupied: BOOLEAN, seq_num: Nat,
         body: (Sessions \cup {Blank}) \X Nat]
FreeSlot == [occupied |-> FALSE, seq_num |-> 0, body |-> Body(Blank, 0)]

NoPacket == [session |-> Blank, seq_num |-> 0, msg_count |-> 0,
             readable |-> 0, now |-> 0, i |-> 0]

Request == [session: Sessions \cup {Blank}, first_seq: Nat, count: Nat]

IsHeartbeat(p)    == p.msg_count = 0
IsEndOfSession(p) == p.msg_count = kMoldEndOfSessionCount
IsData(p)         == ~IsHeartbeat(p) /\ ~IsEndOfSession(p)
PacketEnd(p)      == p.seq_num + p.msg_count

\* The message with sequence number s is in the out-of-order buffer.
Holds(g, s) == /\ g.slots[s % kCapacity].occupied
               /\ g.slots[s % kCapacity].seq_num = s

\* Differences of clock readings are taken in unsigned 64-bit arithmetic.
Elapsed(now, since) == (now - since) % ClockModulus

Least(a, b) == IF a < b THEN a ELSE b
----------------------------------------------------------------------------
(***************************************************************************)
(* Session and sequence position.                                          *)
(***************************************************************************)
\* Faulty variant: the slots of the old session are not freed.
ResetKeepingSlots(g) ==
  [g EXCEPT !.seq_synced = (ExpectedFirstSeq # 0),
            !.next_expected = ExpectedFirstSeq, !.high_water = ExpectedFirstSeq,
            !.in_gap = FALSE, !.eos_seen = FALSE, !.eos_seq = 0]

\* Faulty variant: the loss episode outlives the session.
ResetKeepingGap(g) ==
  [g EXCEPT !.seq_synced = (ExpectedFirstSeq # 0),
            !.next_expected = ExpectedFirstSeq, !.high_water = ExpectedFirstSeq,
            !.eos_seen = FALSE, !.eos_seq = 0,
            !.slots = [i \in SlotIndex |-> FreeSlot]]

\* reset_sequence_state(), with the loop of its two callers that frees the
\* slots.
ResetSequenceState(g) ==
  [g EXCEPT !.seq_synced         = (ExpectedFirstSeq # 0),
            !.next_expected      = ExpectedFirstSeq,
            !.high_water         = ExpectedFirstSeq,
            !.in_gap             = FALSE,
            !.gap_detected_at    = 0,
            !.gap_last_retx      = 0,
            !.retx_requested_end = 0,
            !.eos_seen           = FALSE,
            !.eos_seq            = 0,
            !.slots              = [i \in SlotIndex |-> FreeSlot]]

\* check_session() returns true.
AcceptsSession(g, p) == g.session \in {Blank, p.session} \/ AcceptSessionChange

\* check_session() takes the packet for a session rollover.
RollsOver(g, p) == g.session \notin {Blank, p.session}

\* What check_session() leaves behind when it returns true.
CheckSession(g, p) ==
  IF RollsOver(g, p)
  THEN [ResetSequenceState(g) EXCEPT !.session = p.session]
  ELSE [g EXCEPT !.session = p.session]

\* ingest(), first packet of the session: take its position.
SyncSequence(g, p) ==
  IF ~g.seq_synced /\ p.seq_num # 0
  THEN [g EXCEPT !.next_expected = p.seq_num,
                 !.high_water    = p.seq_num,
                 !.seq_synced    = TRUE]
  ELSE g

Positioned(g, p) == SyncSequence(CheckSession(g, p), p)

\* Faulty variant: one message too many is believed to exist.
NoteHighWaterTooFar(g, next_seq) ==
  IF next_seq > g.high_water THEN [g EXCEPT !.high_water = next_seq + 1] ELSE g

NoteHighWater(g, next_seq) ==
  IF next_seq > g.high_water THEN [g EXCEPT !.high_water = next_seq] ELSE g

OnEndOfSession(g, p) ==
  IF g.eos_seen THEN g
  ELSE [g EXCEPT !.eos_seen = TRUE, !.eos_seq = p.seq_num]
----------------------------------------------------------------------------
(***************************************************************************)
(* Gap tracking.                                                           *)
(***************************************************************************)
\* Faulty variant: a duration is stored where an instant belongs.
HandleGapDuration(g, now) ==
  IF g.in_gap THEN g
  ELSE [g EXCEPT !.in_gap          = TRUE,
                 !.gap_detected_at = now - g.gap_detected_at,
                 !.gap_last_retx   = 0]

HandleGap(g, now) ==
  IF g.in_gap THEN g
  ELSE [g EXCEPT !.in_gap          = TRUE,
                 !.gap_detected_at = now,
                 !.gap_last_retx   = 0]

\* Faulty variant: the range includes the message that revealed the gap.
GapCallInclusive(g, first_known_after) ==
  IF g.in_gap THEN {}
  ELSE {[first_missing_seq |-> g.next_expected,
         last_missing_seq  |-> first_known_after]}

\* The on_gap_ call that handle_gap(first_known_after, ...) makes: none
\* while it is already tracking a loss episode.
GapCall(g, first_known_after) ==
  IF g.in_gap THEN {}
  ELSE {[first_missing_seq |-> g.next_expected,
         last_missing_seq  |-> first_known_after - 1]}

FirstPresentAfter(g) ==
  LET limit   == Least(g.high_water, g.next_expected + kCapacity)
      present == {s \in g.next_expected .. limit - 1 : Holds(g, s)}
  IN  IF present = {} THEN g.high_water
      ELSE CHOOSE s \in present : \A t \in present : s <= t

UpdateGapState(g, now) ==
  IF g.next_expected >= g.high_water THEN [g EXCEPT !.in_gap = FALSE]
  ELSE IF ~g.in_gap THEN HandleGap(g, now)
  ELSE IF g.gap_last_retx # 0 /\ g.next_expected >= g.retx_requested_end
       THEN [g EXCEPT !.gap_last_retx = 0]
       ELSE g

\* Faulty variant: the run goes on past messages that are buffered.
MissingRunThrough(g) ==
  Least(g.high_water - g.next_expected, MaxRetransmitCount)

\* Length of the contiguous missing run that starts at next_expected: the
\* loop stops at its limit or at the first message that is buffered.
MissingRun(g) ==
  LET limit == Least(g.high_water - g.next_expected, MaxRetransmitCount)
  IN  CHOOSE n \in 0 .. limit :
        /\ n = limit \/ Holds(g, g.next_expected + n)
        /\ \A m \in 0 .. n - 1 : ~Holds(g, g.next_expected + m)

\* Faulty variants: no pacing; no retry.
RequestDueAtOnce(g, now) == g.in_gap
RequestDueOnce(g, now) ==
  g.in_gap /\ g.gap_last_retx = 0 /\ Elapsed(now, g.gap_detected_at) >= GapTimeout

RequestDue(g, now) ==
  /\ g.in_gap
  /\ \/ g.gap_last_retx = 0 /\ Elapsed(now, g.gap_detected_at) >= GapTimeout
     \/ g.gap_last_retx # 0 /\ Elapsed(now, g.gap_last_retx) >= RetryInterval

RequestFor(g) == [session   |-> g.session,
                  first_seq |-> g.next_expected,
                  count     |-> MissingRun(g)]

\* check_gap_timeout() called on an object in state g: it ends the handler,
\* so it gives gb its next value and says whether on_retx_ is called.
CheckGapTimeout(g, now) ==
  \/ /\ RequestDue(g, now)
     /\ MissingRun(g) # 0
     /\ retx_call' = {RequestFor(g)}
     /\ gb' = [g EXCEPT !.gap_last_retx      = now,
                        !.retx_requested_end = g.next_expected + MissingRun(g)]
  \/ /\ RequestDue(g, now)
     /\ MissingRun(g) = 0
     /\ gb' = [g EXCEPT !.in_gap = (g.next_expected < g.high_water)]
     /\ retx_call' = {}
  \/ /\ ~RequestDue(g, now)
     /\ gb' = g
     /\ retx_call' = {}
----------------------------------------------------------------------------
(***************************************************************************)
(* ingest(), up to the walk.  A datagram of a foreign session that is not  *)
(* accepted changes nothing, and neither does one too short for a header.  *)
(***************************************************************************)
\* The rollover branch of check_session() reports the change.
NewEpoch(p) ==
  IF RollsOver(gb, p)
  THEN /\ epoch_start' = Len(delivered)
       /\ session_call' = {[old_session   |-> gb.session,
                            new_session   |-> p.session,
                            new_first_seq |-> p.seq_num]}
  ELSE session_call' = {} /\ UNCHANGED epoch_start

\* Heartbeats and End of Session: seq_num is the next one to be sent.
IngestControl(p, now) ==
  LET g0 == Positioned(gb, p)
      g1 == IF g0.seq_synced THEN NoteHighWater(g0, p.seq_num) ELSE g0
      gap == g0.seq_synced /\ p.seq_num > g0.next_expected
      g2 == IF gap THEN HandleGap(g1, now) ELSE g1
      g3 == IF IsEndOfSession(p) THEN OnEndOfSession(g2, p) ELSE g2
  IN  /\ pc = "idle"
      /\ AcceptsSession(gb, p)
      /\ ~IsData(p)
      /\ CheckGapTimeout(g3, now)
      /\ gap_call' = IF gap THEN GapCall(g1, p.seq_num) ELSE {}
      /\ NewEpoch(p)
      /\ UNCHANGED <<pc, rx, delivered>>

\* Data that carries no position before any position is known.
IngestUnpositioned(p) ==
  /\ pc = "idle"
  /\ AcceptsSession(gb, p)
  /\ IsData(p)
  /\ ~Positioned(gb, p).seq_synced
  /\ gb' = Positioned(gb, p)
  /\ NewEpoch(p)
  /\ gap_call' = {}
  /\ retx_call' = {}
  /\ UNCHANGED <<pc, rx, delivered>>

\* Every message of the packet has been delivered already.
IngestDuplicate(p, now) ==
  LET g == Positioned(gb, p)
  IN  /\ pc = "idle"
      /\ AcceptsSession(gb, p)
      /\ IsData(p)
      /\ g.seq_synced
      /\ PacketEnd(p) <= g.next_expected
      /\ CheckGapTimeout(NoteHighWater(g, PacketEnd(p)), now)
      /\ gap_call' = {}
      /\ NewEpoch(p)
      /\ UNCHANGED <<pc, rx, delivered>>

IngestData(p, now) ==
  LET g0 == Positioned(gb, p)
      g1 == NoteHighWater(g0, PacketEnd(p))
      gap == p.seq_num > g1.next_expected
  IN  /\ pc = "idle"
      /\ AcceptsSession(gb, p)
      /\ IsData(p)
      /\ g0.seq_synced
      /\ PacketEnd(p) > g0.next_expected
      /\ gb' = IF gap THEN HandleGap(g1, now) ELSE g1
      /\ gap_call' = IF gap THEN GapCall(g1, p.seq_num) ELSE {}
      /\ pc' = "walk"
      /\ rx' = [session |-> p.session, seq_num |-> p.seq_num,
                msg_count |-> p.msg_count, readable |-> p.readable,
                now |-> now, i |-> 0]
      /\ NewEpoch(p)
      /\ retx_call' = {}
      /\ UNCHANGED <<delivered>>
----------------------------------------------------------------------------
(***************************************************************************)
(* walk_packet(): deliver, buffer or skip each message of the datagram.    *)
(***************************************************************************)
NoCalls == session_call' = {} /\ gap_call' = {} /\ retx_call' = {}

Walking == pc = "walk" /\ rx.i < rx.msg_count /\ rx.i < rx.readable

CurrentSeq == rx.seq_num + rx.i

OnMessage(seq, body) ==
  delivered' = Append(delivered, [session |-> gb.session, seq_num |-> seq,
                                  body |-> body])

WalkSkip ==
  /\ Walking
  /\ CurrentSeq < gb.next_expected
  /\ rx' = [rx EXCEPT !.i = @ + 1]
  /\ NoCalls
  /\ UNCHANGED <<gb, pc, delivered, epoch_start>>

\* Faulty variant: the position jumps to the end of the datagram.
WalkDeliverJump ==
  LET seq == CurrentSeq
  IN  /\ Walking
      /\ seq = gb.next_expected
      /\ OnMessage(seq, Body(rx.session, seq))
      /\ gb' = [gb EXCEPT !.next_expected = rx.seq_num + rx.msg_count]
      /\ pc' = "flush"
      /\ rx' = [rx EXCEPT !.i = @ + 1]
      /\ NoCalls
      /\ UNCHANGED <<epoch_start>>

\* deliver(), after which flush_buffer() runs.
WalkDeliver ==
  LET seq == CurrentSeq
  IN  /\ Walking
      /\ seq = gb.next_expected
      /\ OnMessage(seq, Body(rx.session, seq))
      /\ gb' = [gb EXCEPT
                  !.slots[seq % kCapacity] = IF Holds(gb, seq) THEN FreeSlot ELSE @,
                  !.next_expected = seq + 1]
      /\ pc' = "flush"
      /\ rx' = [rx EXCEPT !.i = @ + 1]
      /\ NoCalls
      /\ UNCHANGED <<epoch_start>>

\* Faulty variant: the window is one slot too wide.
BufferedTooWide(g, seq, body) ==
  IF seq - g.next_expected > kCapacity \/ Holds(g, seq)
  THEN g
  ELSE [g EXCEPT !.slots[seq % kCapacity] =
                   [occupied |-> TRUE, seq_num |-> seq, body |-> body]]

\* Faulty variant: the index mask covers half of the slots.
BufferedHalfMask(g, seq, body) ==
  IF seq - g.next_expected >= kCapacity \/ Holds(g, seq)
  THEN g
  ELSE [g EXCEPT !.slots[seq % (kCapacity \div 2)] =
                   [occupied |-> TRUE, seq_num |-> seq, body |-> body]]

\* buffer_message(): drop what does not fit, keep the copy already held.
Buffered(g, seq, body) ==
  IF seq - g.next_expected >= kCapacity \/ seq \in Oversize \/ Holds(g, seq)
  THEN g
  ELSE [g EXCEPT !.slots[seq % kCapacity] =
                   [occupied |-> TRUE, seq_num |-> seq, body |-> body]]

WalkBuffer ==
  /\ Walking
  /\ CurrentSeq > gb.next_expected
  /\ gb' = Buffered(gb, CurrentSeq, Body(rx.session, CurrentSeq))
  /\ rx' = [rx EXCEPT !.i = @ + 1]
  /\ NoCalls
  /\ UNCHANGED <<pc, delivered, epoch_start>>

\* flush_buffer(): one round of its loop, or its exit.
FlushDeliver ==
  LET seq == gb.next_expected
  IN  /\ pc = "flush"
      /\ Holds(gb, seq)
      /\ OnMessage(seq, gb.slots[seq % kCapacity].body)
      /\ gb' = [gb EXCEPT !.slots[seq % kCapacity] = FreeSlot,
                          !.next_expected = seq + 1]
      /\ NoCalls
      /\ UNCHANGED <<pc, rx, epoch_start>>

FlushDone ==
  /\ pc = "flush"
  /\ ~Holds(gb, gb.next_expected)
  /\ pc' = "walk"
  /\ NoCalls
  /\ UNCHANGED <<gb, rx, delivered, epoch_start>>

\* The walk ends after the last message, or where the datagram is cut off;
\* ingest() then updates the gap state and checks the timers.
WalkDone ==
  /\ pc = "walk"
  /\ ~Walking
  /\ CheckGapTimeout(UpdateGapState(gb, rx.now), rx.now)
  /\ session_call' = {}
  /\ gap_call' = IF gb.next_expected < gb.high_water
                 THEN GapCall(gb, FirstPresentAfter(gb)) ELSE {}
  /\ pc' = "idle"
  /\ rx' = NoPacket
  /\ UNCHANGED <<delivered, epoch_start>>
----------------------------------------------------------------------------
Tick(now) ==
  /\ pc = "idle"
  /\ CheckGapTimeout(gb, now)
  /\ session_call' = {}
  /\ gap_call' = {}
  /\ UNCHANGED <<pc, rx, delivered, epoch_start>>

Reset ==
  /\ pc = "idle"
  /\ gb' = [ResetSequenceState(gb) EXCEPT !.session = CfgSession]
  /\ epoch_start' = Len(delivered)
  /\ NoCalls
  /\ UNCHANGED <<pc, rx, delivered>>

Init ==
  /\ gb = [session            |-> CfgSession,
           seq_synced         |-> ExpectedFirstSeq # 0,
           next_expected      |-> ExpectedFirstSeq,
           high_water         |-> ExpectedFirstSeq,
           in_gap             |-> FALSE,
           gap_detected_at    |-> 0,
           gap_last_retx      |-> 0,
           retx_requested_end |-> 0,
           eos_seen           |-> FALSE,
           eos_seq            |-> 0,
           slots              |-> [i \in SlotIndex |-> FreeSlot]]
  /\ pc = "idle"
  /\ rx = NoPacket
  /\ delivered = <<>>
  /\ epoch_start = 0
  /\ session_call = {}
  /\ gap_call = {}
  /\ retx_call = {}

Ingest(p, now) ==
  \/ IngestControl(p, now)
  \/ IngestUnpositioned(p)
  \/ IngestDuplicate(p, now)
  \/ IngestData(p, now)

\* The rest of an ingest() call that is under way.
IngestStep == WalkSkip \/ WalkDeliver \/ WalkBuffer
              \/ FlushDeliver \/ FlushDone \/ WalkDone

Next ==
  \/ \E p \in Packets, now \in Times : Ingest(p, now)
  \/ IngestStep
  \/ \E now \in Times : Tick(now)
  \/ Reset

Spec == Init /\ [][Next]_vars

session_complete == gb.eos_seen /\ ~gb.in_gap /\ gb.next_expected >= gb.eos_seq
----------------------------------------------------------------------------
(***************************************************************************)
(* Properties.                                                             *)
(***************************************************************************)
State == [session: Sessions \cup {Blank}, seq_synced: BOOLEAN,
          next_expected: Nat, high_water: Nat, in_gap: BOOLEAN,
          gap_detected_at: Nat, gap_last_retx: Nat, retx_requested_end: Nat,
          eos_seen: BOOLEAN, eos_seq: Nat,
          slots: [SlotIndex -> Slot]]

Delivery == [session: Sessions \cup {Blank}, seq_num: Nat,
             body: (Sessions \cup {Blank}) \X Nat]

\* Types of the variables.
TypeOK ==
  /\ gb \in State
  /\ pc \in {"idle", "walk", "flush"}
  /\ rx \in [session: Sessions \cup {Blank}, seq_num: Nat, msg_count: Nat,
              readable: Nat, now: Nat, i: Nat]
  /\ delivered \in Seq(Delivery)
  /\ epoch_start \in 0 .. Len(delivered)
  /\ session_call \subseteq [old_session: Sessions \cup {Blank},
                             new_session: Sessions, new_first_seq: Nat]
  /\ gap_call \subseteq [first_missing_seq: Nat, last_missing_seq: Int]
  /\ retx_call \subseteq Request

\* "In-order and without duplicates": since sequencing was last reset, the
\* k-th message from the end of the delivered stream is the one k places
\* before next_expected, in the current session, with the body its sender
\* published under that number - whatever was lost, repeated, reordered,
\* truncated, re-packetised or buffered on the way.
InOrderOnce ==
  \A k \in epoch_start + 1 .. Len(delivered) :
    LET seq == gb.next_expected - 1 - (Len(delivered) - k)
    IN  delivered[k] = [session |-> gb.session, seq_num |-> seq,
                        body |-> Body(gb.session, seq)]

\* The out-of-order buffer holds only messages of the current session that
\* lie past next_expected, inside the window that makes the index
\* seq & kMask unambiguous, and below the high-water mark.
WindowSound ==
  \A i \in SlotIndex :
    LET slot == gb.slots[i]
    IN  slot.occupied =>
          /\ i = slot.seq_num % kCapacity
          /\ slot.seq_num < gb.high_water
          /\ slot.seq_num < gb.next_expected + kCapacity
          /\ slot.seq_num >= gb.next_expected
          /\ pc # "flush" => slot.seq_num # gb.next_expected
          /\ slot.body = Body(gb.session, slot.seq_num)

\* Whenever ingest() is not running, the buffer is tracking a loss episode
\* exactly when something below the high-water mark is undelivered, so a
\* hole can never be left without a timer, nor a timer without a hole.
GapTracked ==
  pc = "idle" => (gb.in_gap <=> gb.next_expected < gb.high_water)

\* A request names only messages that are known to exist and that the
\* receiver has neither delivered nor buffered, and never an empty range.
RequestsOnlyMissing ==
  \A r \in retx_call :
    /\ r.session = gb.session
    /\ r.count \in 1 .. MaxRetransmitCount
    /\ \A s \in r.first_seq .. r.first_seq + r.count - 1 :
         gb.next_expected <= s /\ s < gb.high_water /\ ~Holds(gb, s)

\* A message that was buffered stays buffered until it is delivered: no
\* message of the walk takes its slot.
NoEviction ==
  [][IngestStep =>
       \A i \in SlotIndex :
         gb.slots[i].occupied =>
           \/ gb'.slots[i] = gb.slots[i]
           \/ gb'.next_expected > gb.slots[i].seq_num]_vars

\* The range reported to on_gap_ when a loss episode opens is not empty,
\* starts at the next message the application waits for, and contains no
\* message the receiver holds.
GapEventExact ==
  \A e \in gap_call :
    /\ e.first_missing_seq = gb.next_expected
    /\ e.first_missing_seq <= e.last_missing_seq
    /\ e.last_missing_seq < gb.high_water
    /\ \A s \in e.first_missing_seq .. e.last_missing_seq : ~Holds(gb, s)
=============================================================================
