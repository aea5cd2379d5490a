------------------------- MODULE FeedReceiverProofs -------------------------
(***************************************************************************)
(* Proofs about the receive loop and its clock, for every buffer, every    *)
(* configuration, every interleaving of datagrams, replies and ticks, and  *)
(* any number of session changes - as long as every stamp is a reading of  *)
(* one clock, that is, without kernel timestamps (with them the pacing is  *)
(* lost, which a run shows).                                               *)
(*                                                                         *)
(* The invariant ties the two instants the object keeps to the true ones:  *)
(* while a loss episode is open, gap_detected_at is when it opened and a   *)
(* gap_last_retx that is not 0 is when the last request went out.  The     *)
(* instants are only forgotten (gap_last_retx = 0) once everything that    *)
(* was asked for has been passed.                                          *)
(***************************************************************************)
EXTENDS FeedReceiver, GapBufferProofs

\* The true clock; a walk under way carries its current reading.
ClockOK ==
  /\ mono \in Nat \ {0}
  /\ mono <= ClockModulus
  /\ pc # "idle" => rx.now = mono
  /\ {opened_at, asked_at, asked_end} \subseteq Nat

\* The instants of a loss episode, in the object and in truth.
Episode ==
  gb.in_gap =>
    /\ gb.gap_detected_at = opened_at
    /\ 1 <= opened_at /\ opened_at <= mono
    /\ asked_at # 0 => asked_at <= mono /\ asked_at - opened_at >= GapTimeout
    /\ gb.gap_last_retx # 0 => /\ gb.gap_last_retx = asked_at
                               /\ gb.retx_requested_end = asked_end
    /\ asked_at # 0 /\ gb.next_expected < asked_end => gb.gap_last_retx # 0

TimedInv == IInv /\ ClockOK /\ Episode

\* The step goes on with the loss episode that was open before it.
SameEpisode == gb.in_gap /\ session_call' = {}

\* g is what a step has made of the object so far: it goes on with the
\* episode that was open, or has opened one just now.
Follows(g) ==
  g.in_gap =>
    \/ /\ SameEpisode
       /\ g.gap_detected_at = gb.gap_detected_at
       /\ g.retx_requested_end = gb.retx_requested_end
       /\ g.next_expected >= gb.next_expected
       /\ \/ g.gap_last_retx = gb.gap_last_retx
          \/ g.gap_last_retx = 0 /\ g.next_expected >= gb.retx_requested_end
    \/ /\ ~SameEpisode
       /\ g.gap_detected_at = mono
       /\ g.gap_last_retx = 0

\* h has the gap state of g.
SameGap(h, g) ==
  /\ h.in_gap = g.in_gap
  /\ h.gap_detected_at = g.gap_detected_at
  /\ h.gap_last_retx = g.gap_last_retx
  /\ h.retx_requested_end = g.retx_requested_end
  /\ h.next_expected = g.next_expected

\* What RequestPacing says of a step.
Paced ==
  retx_call' # {} =>
    IF asked_at # 0 /\ gb'.next_expected < asked_end /\ ~Opens
    THEN mono - asked_at >= RetryInterval
    ELSE mono - opened_at' >= GapTimeout
----------------------------------------------------------------------------
\* Between two readings less than 2^64 apart the unsigned difference is the
\* true one.
LEMMA ElapsedExact ==
  ASSUME NEW now \in Nat, NEW since \in Nat, 1 <= since, since <= now, now <= ClockModulus
  PROVE  Elapsed(now, since) = now - since
<1>1. ClockModulus \in Nat \ {0}
  BY ConstantsAssumption
<1>2. now - since \in Nat /\ now - since \in 0 .. ClockModulus - 1
  BY <1>1
<1> DEFINE d == now - since
<1>3. d = ClockModulus * 0 + d /\ 0 \in Int
  BY <1>1, <1>2
<1> HIDE DEF d
<1>4. d \in Nat /\ d \in 0 .. ClockModulus - 1
  BY <1>2 DEF d
<1>5. d % ClockModulus = d
  BY <1>1, <1>3, <1>4, ModUnique
<1> QED BY <1>5 DEF Elapsed, d

LEMMA Later ==
  ASSUME NEW a \in Nat, NEW m \in Nat, NEW o \in Nat, NEW t \in Nat, a <= m, a - o >= t
  PROVE  m - o >= t
OBVIOUS

\* A step that makes no request and goes on with the episode, or opens one,
\* keeps the instants right.
LEMMA QuietEpisode ==
  ASSUME IInv, IInv', ClockOK, Episode, Follows(gb'), retx_call' = {}, Observe,
         mono' = mono, pc' # "idle" => rx'.now = mono
  PROVE  ClockOK' /\ Episode'
<1>1. /\ gb \in State /\ gb' \in State /\ mono \in Nat \ {0} /\ mono <= ClockModulus
      /\ opened_at \in Nat /\ asked_at \in Nat /\ asked_end \in Nat /\ GapTimeout \in Nat
  BY ConstantsAssumption DEF IInv, TypeOK, ClockOK
<1>2. /\ opened_at' = IF Opens THEN mono ELSE opened_at
      /\ asked_at' = IF Opens THEN 0 ELSE asked_at
      /\ asked_end' = asked_end
  BY DEF Observe
<1>3. ClockOK'
  BY <1>1, <1>2 DEF ClockOK
<1>4. CASE ~gb'.in_gap
  BY <1>3, <1>4 DEF Episode
<1>5. CASE gb'.in_gap /\ ~SameEpisode
  <2>1. Opens
    BY <1>5 DEF Opens, SameEpisode
  <2>2. opened_at' = mono /\ asked_at' = 0 /\ gb'.gap_detected_at = mono /\ gb'.gap_last_retx = 0
    BY <1>2, <1>5, <2>1 DEF Follows
  <2> QED BY <1>1, <1>3, <2>2 DEF Episode
<1>6. CASE gb'.in_gap /\ SameEpisode
  <2>1. ~Opens
    BY <1>6 DEF Opens, SameEpisode
  <2>2. opened_at' = opened_at /\ asked_at' = asked_at /\ asked_end' = asked_end
    BY <1>2, <2>1
  <2>3. /\ gb'.gap_detected_at = gb.gap_detected_at
        /\ gb'.retx_requested_end = gb.retx_requested_end
        /\ gb'.next_expected >= gb.next_expected
        /\ \/ gb'.gap_last_retx = gb.gap_last_retx
           \/ gb'.gap_last_retx = 0 /\ gb'.next_expected >= gb.retx_requested_end
    BY <1>6 DEF Follows
  <2>4. /\ gb.gap_detected_at = opened_at
        /\ 1 <= opened_at /\ opened_at <= mono
        /\ asked_at # 0 => asked_at <= mono /\ asked_at - opened_at >= GapTimeout
        /\ gb.gap_last_retx # 0 => /\ gb.gap_last_retx = asked_at
                                   /\ gb.retx_requested_end = asked_end
        /\ asked_at # 0 /\ gb.next_expected < asked_end => gb.gap_last_retx # 0
    BY <1>6 DEF Episode, SameEpisode
  <2>5. gb.next_expected \in Nat /\ gb'.next_expected \in Nat /\ gb.retx_requested_end \in Nat
    BY <1>1 DEF State
  <2>6. asked_at # 0 /\ gb'.next_expected < asked_end => gb'.gap_last_retx # 0
    <3> SUFFICES ASSUME asked_at # 0, gb'.next_expected < asked_end
                 PROVE  gb'.gap_last_retx # 0
      OBVIOUS
    <3>1. gb.next_expected < asked_end
      BY <1>1, <2>3, <2>5
    <3>2. gb.gap_last_retx # 0 /\ gb.retx_requested_end = asked_end
      BY <2>4, <3>1
    <3> QED BY <1>1, <2>3, <2>5, <3>2
  <2> QED BY <1>3, <2>2, <2>3, <2>4, <2>6 DEF Episode
<1> QED BY <1>3, <1>4, <1>5, <1>6

\* check_gap_timeout() at the end of a step asks no earlier than the timers
\* allow, and notes the instant it asks at.
LEMMA TimeoutEpisode ==
  ASSUME IInv, IInv', ClockOK, Episode, NEW g, Well(g), GapEq(g), Follows(g),
         CheckGapTimeout(g, mono), Observe,
         mono' = mono, pc' = "idle"
  PROVE  ClockOK' /\ Episode' /\ Paced
<1>1. /\ gb \in State /\ gb' \in State /\ g \in State
      /\ mono \in Nat \ {0} /\ mono <= ClockModulus
      /\ opened_at \in Nat /\ asked_at \in Nat /\ asked_end \in Nat
      /\ GapTimeout \in Nat /\ RetryInterval \in Nat
  BY ConstantsAssumption DEF IInv, TypeOK, ClockOK, Well
<1>2. CASE retx_call' = {}
  <2>1. gb' = g
    <3>1. gb' = g \/ gb' = [g EXCEPT !.in_gap = (g.next_expected < g.high_water)]
      BY <1>2 DEF CheckGapTimeout
    <3>2. [g EXCEPT !.in_gap = (g.next_expected < g.high_water)] = g
      BY <1>1 DEF GapEq, State
    <3> QED BY <3>1, <3>2
  <2>2. Follows(gb')
    BY <2>1
  <2> QED BY <1>2, <2>2, QuietEpisode DEF Paced
<1>3. CASE retx_call' # {}
  <2> DEFINE e == g.next_expected + MissingRun(g)
  <2>1. /\ RequestDue(g, mono)
        /\ gb' = [g EXCEPT !.gap_last_retx = mono, !.retx_requested_end = e]
    BY <1>3 DEF CheckGapTimeout
  <2> HIDE DEF e
  <2>2. /\ gb'.in_gap = g.in_gap /\ gb'.gap_detected_at = g.gap_detected_at
        /\ gb'.gap_last_retx = mono /\ gb'.next_expected = g.next_expected
        /\ gb'.retx_requested_end \in Nat
    BY <1>1, <2>1 DEF State
  <2>3. g.in_gap /\ gb'.in_gap
    BY <2>1, <2>2 DEF RequestDue
  <2>4. /\ opened_at' = IF Opens THEN mono ELSE opened_at
        /\ asked_at' = mono /\ asked_end' = gb'.retx_requested_end
    BY <1>3 DEF Observe
  <2>5. ClockOK'
    BY <1>1, <2>2, <2>4 DEF ClockOK
  <2>6. /\ g.gap_detected_at = opened_at' /\ opened_at' \in Nat
        /\ 1 <= opened_at' /\ opened_at' <= mono
    <3>1. CASE SameEpisode
      <4>1. ~Opens
        BY <3>1 DEF Opens, SameEpisode
      <4> QED BY <1>1, <2>3, <2>4, <3>1, <4>1 DEF Follows, Episode, SameEpisode
    <3>2. CASE ~SameEpisode
      <4>1. Opens
        BY <2>3, <3>2 DEF Opens, SameEpisode
      <4> QED BY <1>1, <2>3, <2>4, <3>2, <4>1 DEF Follows
    <3> QED BY <3>1, <3>2
  <2>7. g.gap_last_retx # 0 => /\ SameEpisode /\ g.gap_last_retx = asked_at
                               /\ asked_at # 0
                               /\ asked_at <= mono /\ 1 <= asked_at
                               /\ asked_at - opened_at' >= GapTimeout
    <3> SUFFICES ASSUME g.gap_last_retx # 0
                 PROVE  /\ SameEpisode /\ g.gap_last_retx = asked_at
                        /\ asked_at # 0
                        /\ asked_at <= mono /\ 1 <= asked_at
                        /\ asked_at - opened_at' >= GapTimeout
      OBVIOUS
    <3>1. SameEpisode /\ g.gap_last_retx = gb.gap_last_retx
      BY <2>3 DEF Follows
    <3>2. gb.gap_last_retx = asked_at /\ asked_at # 0
      BY <3>1 DEF Episode, SameEpisode
    <3>3. asked_at <= mono /\ asked_at - opened_at >= GapTimeout
      BY <3>1, <3>2 DEF Episode, SameEpisode
    <3>4. opened_at' = opened_at
      BY <2>4, <3>1 DEF Opens, SameEpisode
    <3> QED BY <1>1, <3>1, <3>2, <3>3, <3>4
  <2>8. \/ g.gap_last_retx = 0 /\ mono - opened_at' >= GapTimeout
        \/ g.gap_last_retx # 0 /\ mono - asked_at >= RetryInterval
    <3>1. CASE g.gap_last_retx = 0
      <4>1. Elapsed(mono, g.gap_detected_at) >= GapTimeout
        BY <2>1, <3>1 DEF RequestDue
      <4>2. Elapsed(mono, opened_at') = mono - opened_at'
        BY <1>1, <2>6, ElapsedExact
      <4> QED BY <2>6, <3>1, <4>1, <4>2
    <3>2. CASE g.gap_last_retx # 0
      <4>1. Elapsed(mono, g.gap_last_retx) >= RetryInterval
        BY <2>1, <3>2 DEF RequestDue
      <4>2. Elapsed(mono, asked_at) = mono - asked_at
        BY <1>1, <2>7, <3>2, ElapsedExact
      <4> QED BY <2>7, <3>2, <4>1, <4>2
    <3> QED BY <3>1, <3>2
  <2>9. mono - opened_at' >= GapTimeout
    <3>1. CASE g.gap_last_retx # 0
      <4>1. asked_at <= mono /\ asked_at - opened_at' >= GapTimeout /\ opened_at' \in Nat
        BY <2>6, <2>7, <3>1
      <4>2. mono \in Nat /\ asked_at \in Nat /\ GapTimeout \in Nat
        BY <1>1
      <4> QED BY <4>1, <4>2, Later
    <3> QED BY <2>8, <3>1
  <2>10. Episode'
    BY <1>1, <2>2, <2>4, <2>6, <2>9 DEF Episode
  <2>11. Paced
    <3> SUFFICES ASSUME asked_at # 0, gb'.next_expected < asked_end, ~Opens
                 PROVE  mono - asked_at >= RetryInterval
      BY <2>9 DEF Paced
    <3>1. SameEpisode
      BY <2>3 DEF Opens, SameEpisode
    <3>2. g.next_expected >= gb.next_expected /\ gb.next_expected \in Nat /\ g.next_expected \in Nat
          /\ gb.retx_requested_end \in Nat
      BY <1>1, <2>3, <3>1 DEF Follows, State
    <3>3. gb.next_expected < asked_end
      BY <1>1, <2>2, <3>2
    <3>4. gb.gap_last_retx # 0 /\ gb.retx_requested_end = asked_end
      BY <3>1, <3>3 DEF Episode, SameEpisode
    <3>5. ~(g.next_expected >= gb.retx_requested_end)
      BY <1>1, <2>2, <3>2, <3>4
    <3>6. g.gap_last_retx # 0
      BY <2>3, <3>1, <3>4, <3>5 DEF Follows
    <3> QED BY <2>8, <3>6
  <2> QED BY <2>5, <2>10, <2>11
<1> QED BY <1>2, <1>3
----------------------------------------------------------------------------
(***************************************************************************)
(* The methods and the gap state.                                          *)
(***************************************************************************)
LEMMA SameGapFollows ==
  ASSUME NEW g, NEW h, SameGap(h, g), Follows(g)
  PROVE  Follows(h)
BY DEF SameGap, Follows

LEMMA HighWaterGap ==
  ASSUME NEW g \in State, NEW n
  PROVE  SameGap(NoteHighWater(g, n), g)
BY DEF NoteHighWater, SameGap, State

LEMMA EndOfSessionGap ==
  ASSUME NEW g \in State, NEW p
  PROVE  SameGap(OnEndOfSession(g, p), g)
BY DEF OnEndOfSession, SameGap, State

\* handle_gap() opens an episode only where none is open.
LEMMA HandleGapFollows ==
  ASSUME NEW g \in State, Follows(g), SameEpisode => g.in_gap
  PROVE  Follows(HandleGap(g, mono))
<1>1. CASE g.in_gap
  BY <1>1 DEF HandleGap
<1>2. CASE ~g.in_gap
  <2>1. /\ HandleGap(g, mono).gap_detected_at = mono
        /\ HandleGap(g, mono).gap_last_retx = 0
    BY <1>2 DEF HandleGap, State
  <2> QED BY <1>2, <2>1 DEF Follows
<1> QED BY <1>1, <1>2

\* A datagram of the session leaves the gap state alone; one that starts a
\* new session ends the episode and reports the change.
LEMMA PositionedFollows ==
  ASSUME Well(gb), GapEq(gb), NEW p \in Headers, NewEpoch(p)
  PROVE  /\ Follows(Positioned(gb, p))
         /\ SameEpisode => Positioned(gb, p).in_gap
<1> DEFINE c == CheckSession(gb, p)
           h == Positioned(gb, p)
<1>1. gb \in State /\ gb.next_expected \in Nat /\ gb.high_water \in Nat
  BY DEF Well, State
<1>2. session_call' = {} <=> ~RollsOver(gb, p)
  BY DEF NewEpoch
<1>3. CASE SameEpisode
  <2>1. ~RollsOver(gb, p) /\ gb.in_gap
    BY <1>2, <1>3 DEF SameEpisode
  <2>2. gb.session # Blank /\ gb.seq_synced
    BY <1>1, <2>1 DEF Well, GapEq, Quiescent
  <2>3. h = gb
    BY <2>1, <2>2, PositionedSpec
  <2> HIDE DEF h
  <2> QED BY <1>1, <1>3, <2>1, <2>3 DEF Follows, h
<1>4. CASE ~SameEpisode
  <2>1. c \in State /\ ~c.in_gap
    <3>1. p.session \in Sessions \cup {Blank}
      BY DEF Headers
    <3>2. CASE RollsOver(gb, p)
      <4>1. c = [ResetSequenceState(gb) EXCEPT !.session = p.session]
        BY <3>2 DEF CheckSession
      <4> HIDE DEF c
      <4>2. Well(c) /\ GapEq(c) /\ Quiescent(c)
        BY <1>1, <3>1, <4>1, ResetSpec
      <4>3. c.next_expected \in Nat /\ c.high_water \in Nat
        BY <4>2 DEF Well, State
      <4> QED BY <4>2, <4>3 DEF Well, GapEq, Quiescent
    <3>3. CASE ~RollsOver(gb, p)
      <4>1. c = [gb EXCEPT !.session = p.session] /\ ~gb.in_gap
        BY <1>2, <1>4, <3>3 DEF CheckSession, SameEpisode
      <4> HIDE DEF c
      <4>2. c \in State
        BY <1>1, <3>1, <4>1, Zenon DEF State
      <4> QED BY <1>1, <4>1, <4>2 DEF State
    <3> QED BY <3>2, <3>3
  <2> HIDE DEF c
  <2>2. h = SyncSequence(c, p)
    BY DEF Positioned, c
  <2>3. h.in_gap = c.in_gap
    BY <2>1, <2>2 DEF SyncSequence, State
  <2> QED BY <1>4, <2>1, <2>3 DEF Follows
<1> QED BY <1>3, <1>4

\* update_gap_state(): the episode goes on, closes, or one opens now; the
\* last request is forgotten once all of it has been passed.
LEMMA UpdateGapFollows ==
  ASSUME gb \in State, session_call' = {}
  PROVE  Follows(UpdateGapState(gb, mono))
<1> DEFINE h == UpdateGapState(gb, mono)
<1>1. gb.next_expected \in Nat /\ gb.high_water \in Nat /\ gb.retx_requested_end \in Nat
  BY DEF State
<1>2. CASE gb.next_expected >= gb.high_water
  <2>1. h = [gb EXCEPT !.in_gap = FALSE]
    BY <1>2 DEF UpdateGapState
  <2> HIDE DEF h
  <2>2. ~h.in_gap
    BY <2>1 DEF State
  <2> QED BY <2>2 DEF Follows, h
<1>3. CASE ~(gb.next_expected >= gb.high_water) /\ ~gb.in_gap
  <2>1. h = HandleGap(gb, mono)
    BY <1>3 DEF UpdateGapState
  <2>2. Follows(gb) /\ (SameEpisode => gb.in_gap)
    BY <1>3 DEF Follows, SameEpisode
  <2> QED BY <2>1, <2>2, HandleGapFollows
<1>4. CASE ~(gb.next_expected >= gb.high_water) /\ gb.in_gap
  <2>1. \/ h = gb
        \/ /\ gb.next_expected >= gb.retx_requested_end
           /\ h = [gb EXCEPT !.gap_last_retx = 0]
    BY <1>4 DEF UpdateGapState
  <2> HIDE DEF h
  <2>2. /\ h.gap_detected_at = gb.gap_detected_at
        /\ h.retx_requested_end = gb.retx_requested_end
        /\ h.next_expected = gb.next_expected
        /\ \/ h.gap_last_retx = gb.gap_last_retx
           \/ h.gap_last_retx = 0 /\ gb.next_expected >= gb.retx_requested_end
    BY <2>1 DEF State
  <2>3. SameEpisode
    BY <1>4 DEF SameEpisode
  <2>4. h.next_expected >= gb.next_expected
    BY <1>1, <2>2
  <2> QED BY <2>2, <2>3, <2>4 DEF Follows, h
<1> QED BY <1>2, <1>3, <1>4
----------------------------------------------------------------------------
(***************************************************************************)
(* The actions.                                                            *)
(***************************************************************************)
LEMMA ControlTimed ==
  ASSUME TimedInv, NEW p \in Headers, IngestControl(p, mono), Observe, mono' = mono
  PROVE  TimedInv' /\ Paced
<1> DEFINE g0 == Positioned(gb, p)
           g1 == IF g0.seq_synced THEN NoteHighWater(g0, p.seq_num) ELSE g0
           gap == g0.seq_synced /\ p.seq_num > g0.next_expected
           g2 == IF gap THEN HandleGap(g1, mono) ELSE g1
           g3 == IF IsEndOfSession(p) THEN OnEndOfSession(g2, p) ELSE g2
<1>1. /\ pc = "idle" /\ CheckGapTimeout(g3, mono)
      /\ NewEpoch(p) /\ pc' = pc
  BY DEF IngestControl
<1>2. /\ IInv /\ ClockOK /\ Episode /\ mono \in Nat
      /\ p.seq_num \in Nat /\ p.session # Blank
  BY ConstantsAssumption DEF Headers, TimedInv, ClockOK
<1>3. Well(gb) /\ GapEq(gb)
  BY <1>1, <1>2, WellState
<1>4. Well(g0) /\ GapEq(g0) /\ g0.session = p.session
  BY <1>3, PositionedSpec
<1>5. Follows(g0) /\ (SameEpisode => g0.in_gap)
  BY <1>1, <1>3, PositionedFollows
<1> HIDE DEF g0
<1>6. Well(g2) /\ GapEq(g2)
  <2>1. CASE g0.seq_synced
    <3> DEFINE n1 == NoteHighWater(g0, p.seq_num)
               n2 == IF p.seq_num > g0.next_expected THEN HandleGap(n1, mono) ELSE n1
    <3>1. g2 = n2
      BY <2>1
    <3>2. Well(n2) /\ GapEq(n2)
      <4>1. p.seq_num <= p.seq_num /\ g0.session # Blank
        BY <1>2, <1>4
      <4> QED BY <1>2, <1>4, <2>1, <4>1, AnnounceSpec
    <3> HIDE DEF g2, n2
    <3> QED BY <3>1, <3>2
  <2>2. CASE ~g0.seq_synced
    <3>1. g2 = g0
      BY <2>2
    <3> HIDE DEF g2
    <3> QED BY <1>4, <3>1
  <2> QED BY <2>1, <2>2
<1>7. Follows(g2)
  <2>1. g1 \in State /\ SameGap(g1, g0)
    <3>1. g0 \in State
      BY <1>4 DEF Well
    <3>2. CASE g0.seq_synced
      <4>1. Well(NoteHighWater(g0, p.seq_num))
        BY <1>2, <1>4, <3>2, HighWaterSpec
      <4> QED BY <3>1, <3>2, <4>1, HighWaterGap DEF Well
    <3>3. CASE ~g0.seq_synced
      BY <3>1, <3>3 DEF SameGap
    <3> QED BY <3>2, <3>3
  <2> HIDE DEF g1
  <2>2. Follows(g1) /\ (SameEpisode => g1.in_gap)
    BY <1>5, <2>1, SameGapFollows DEF SameGap
  <2> QED BY <2>1, <2>2, HandleGapFollows
<1> HIDE DEF g1, g2, gap
<1>8. Well(g3) /\ GapEq(g3) /\ Follows(g3)
  <2>1. CASE IsEndOfSession(p)
    <3>1. g3 = OnEndOfSession(g2, p) /\ g2 \in State
      BY <1>6, <2>1 DEF Well
    <3> HIDE DEF g3
    <3>2. SameGap(g3, g2)
      BY <3>1, EndOfSessionGap
    <3> QED BY <1>6, <1>7, <3>1, <3>2, EndOfSessionSpec, SameGapFollows
  <2>2. CASE ~IsEndOfSession(p)
    BY <1>6, <1>7, <2>2
  <2> QED BY <2>1, <2>2
<1> HIDE DEF g3
<1>9. IInv'
  BY <1>2, ControlInv
<1> QED BY <1>1, <1>2, <1>8, <1>9, TimeoutEpisode DEF TimedInv

LEMMA DuplicateTimed ==
  ASSUME TimedInv, NEW p \in Headers, IngestDuplicate(p, mono), Observe, mono' = mono
  PROVE  TimedInv' /\ Paced
<1> DEFINE g == Positioned(gb, p)
           h == NoteHighWater(g, PacketEnd(p))
<1>1. /\ pc = "idle" /\ NewEpoch(p) /\ g.seq_synced /\ CheckGapTimeout(h, mono)
      /\ PacketEnd(p) <= g.next_expected /\ pc' = pc
  BY DEF IngestDuplicate
<1>2. IInv /\ ClockOK /\ Episode /\ mono \in Nat /\ PacketEnd(p) \in Nat
  BY DEF Headers, TimedInv, ClockOK, PacketEnd
<1>3. Well(gb) /\ GapEq(gb)
  BY <1>1, <1>2, WellState
<1>4. Well(g) /\ GapEq(g) /\ Follows(g)
  BY <1>1, <1>3, PositionedSpec, PositionedFollows
<1> HIDE DEF g
<1>5. h = g
  <2>1. g.next_expected \in Nat /\ g.high_water \in Nat /\ g.next_expected <= g.high_water
    BY <1>4 DEF Well, State
  <2> QED BY <1>1, <1>2, <2>1 DEF NoteHighWater
<1>6. IInv'
  BY <1>2, DuplicateInv
<1> QED BY <1>1, <1>2, <1>4, <1>5, <1>6, TimeoutEpisode DEF TimedInv

LEMMA UnpositionedTimed ==
  ASSUME TimedInv, NEW p \in Headers, IngestUnpositioned(p), Observe, mono' = mono
  PROVE  TimedInv' /\ Paced
<1>1. /\ pc = "idle" /\ NewEpoch(p) /\ gb' = Positioned(gb, p) /\ pc' = pc /\ retx_call' = {}
  BY DEF IngestUnpositioned
<1>2. IInv /\ ClockOK /\ Episode
  BY DEF TimedInv
<1>3. Well(gb) /\ GapEq(gb)
  BY <1>1, <1>2, WellState
<1>4. Follows(gb')
  BY <1>1, <1>3, PositionedFollows
<1>5. IInv'
  BY <1>2, UnpositionedInv
<1> QED BY <1>1, <1>2, <1>4, <1>5, QuietEpisode DEF TimedInv, Paced

LEMMA DataTimed ==
  ASSUME TimedInv, NEW p \in Headers, IngestData(p, mono), Observe, mono' = mono
  PROVE  TimedInv' /\ Paced
<1> DEFINE g0 == Positioned(gb, p)
           g1 == NoteHighWater(g0, PacketEnd(p))
           gap == p.seq_num > g1.next_expected
<1>1. /\ pc = "idle" /\ NewEpoch(p) /\ retx_call' = {} /\ g0.seq_synced
      /\ gb' = IF gap THEN HandleGap(g1, mono) ELSE g1
  BY DEF IngestData
<1>2. rx'.now = mono
  BY DEF IngestData
<1>3. /\ IInv /\ ClockOK /\ Episode /\ mono \in Nat /\ PacketEnd(p) \in Nat
      /\ p.session # Blank
  BY ConstantsAssumption DEF Headers, TimedInv, ClockOK, PacketEnd
<1>4. Well(gb) /\ GapEq(gb)
  BY <1>1, <1>3, WellState
<1>5. /\ Well(g0) /\ g0.session = p.session /\ Follows(g0)
      /\ SameEpisode => g0.in_gap
  BY <1>1, <1>4, PositionedSpec, PositionedFollows
<1> HIDE DEF g0
<1>6. Well(g1)
  BY <1>1, <1>3, <1>5, HighWaterSpec
<1>7. g1 \in State /\ SameGap(g1, g0)
  BY <1>5, <1>6, HighWaterGap DEF Well
<1> HIDE DEF g1, gap
<1>8. Follows(g1) /\ (SameEpisode => g1.in_gap)
  BY <1>5, <1>7, SameGapFollows DEF SameGap
<1>9. Follows(gb')
  BY <1>1, <1>7, <1>8, HandleGapFollows
<1>10. IInv'
  BY <1>3, DataInv
<1> QED BY <1>1, <1>2, <1>3, <1>9, <1>10, QuietEpisode DEF TimedInv, Paced

\* A step of the walk short of its end leaves the timers alone and never
\* moves back.
LEMMA WalkTimed ==
  ASSUME TimedInv, IngestStep, ~WalkDone, Observe, mono' = mono
  PROVE  TimedInv' /\ Paced
<1>1. /\ gb \in State /\ kCapacity \in Nat \ {0} /\ gb.next_expected \in Nat
      /\ rx \in [session: Sessions \cup {Blank}, seq_num: Nat, msg_count: Nat,
                 readable: Nat, now: Nat, i: Nat]
  BY ConstantsAssumption DEF TimedInv, IInv, TypeOK, State
<1>2. retx_call' = {} /\ session_call' = {} /\ pc # "idle"
  BY DEF IngestStep, WalkSkip, WalkDeliver, WalkBuffer, FlushDeliver, FlushDone,
         NoCalls, Walking
<1>3. rx'.now = rx.now
  BY <1>1 DEF IngestStep, WalkSkip, WalkDeliver, WalkBuffer, FlushDeliver, FlushDone
<1>4. /\ gb'.in_gap = gb.in_gap /\ gb'.gap_detected_at = gb.gap_detected_at
      /\ gb'.gap_last_retx = gb.gap_last_retx
      /\ gb'.retx_requested_end = gb.retx_requested_end
      /\ gb'.next_expected >= gb.next_expected
  <2>1. CASE WalkSkip \/ FlushDone
    BY <1>1, <2>1 DEF WalkSkip, FlushDone
  <2>2. CASE WalkDeliver
    <3>1. gb' = [gb EXCEPT !.slots[CurrentSeq % kCapacity] =
                             IF Holds(gb, CurrentSeq) THEN FreeSlot ELSE @,
                           !.next_expected = CurrentSeq + 1]
          /\ CurrentSeq = gb.next_expected
      BY <2>2 DEF WalkDeliver
    <3> QED BY <1>1, <3>1 DEF State
  <2>3. CASE WalkBuffer
    <3>1. gb' = Buffered(gb, CurrentSeq, Body(rx.session, CurrentSeq))
      BY <2>3 DEF WalkBuffer
    <3> QED BY <1>1, <3>1 DEF Buffered, State
  <2>4. CASE FlushDeliver
    <3>1. gb' = [gb EXCEPT !.slots[gb.next_expected % kCapacity] = FreeSlot,
                           !.next_expected = gb.next_expected + 1]
      BY <2>4 DEF FlushDeliver
    <3> QED BY <1>1, <3>1 DEF State
  <2> QED BY <2>1, <2>2, <2>3, <2>4 DEF IngestStep
<1>5. Follows(gb')
  BY <1>2, <1>4 DEF Follows, SameEpisode
<1>6. IInv'
  BY NextInv DEF TimedInv, Next
<1> QED BY <1>2, <1>3, <1>5, <1>6, QuietEpisode DEF TimedInv, ClockOK, Paced

LEMMA WalkDoneTimed ==
  ASSUME TimedInv, WalkDone, Observe, mono' = mono
  PROVE  TimedInv' /\ Paced
<1> DEFINE h == UpdateGapState(gb, mono)
<1>1. /\ IInv /\ ClockOK /\ Episode /\ pc = "walk" /\ rx.now = mono /\ mono \in Nat
      /\ session_call' = {} /\ pc' = "idle"
  BY DEF WalkDone, TimedInv, ClockOK
<1>2. CheckGapTimeout(h, mono)
  BY <1>1 DEF WalkDone
<1>3. Well(gb) /\ gb \in State
  BY <1>1, WellState DEF Well
<1>4. Well(h) /\ GapEq(h)
  BY <1>1, <1>3, UpdateGapSpec
<1>5. Follows(h)
  BY <1>1, <1>3, UpdateGapFollows
<1> HIDE DEF h
<1>6. IInv'
  BY <1>1, WalkDoneInv
<1> QED BY <1>1, <1>2, <1>4, <1>5, <1>6, TimeoutEpisode DEF TimedInv

LEMMA TickTimed ==
  ASSUME TimedInv, Tick(mono), Observe, mono' = mono
  PROVE  TimedInv' /\ Paced
<1>1. /\ IInv /\ ClockOK /\ Episode /\ pc = "idle" /\ pc' = "idle" /\ mono \in Nat
      /\ session_call' = {} /\ CheckGapTimeout(gb, mono)
  BY DEF Tick, TimedInv, ClockOK
<1>2. Well(gb) /\ GapEq(gb) /\ gb.next_expected \in Nat
  BY <1>1, WellState DEF Well, State
<1>3. Follows(gb)
  BY <1>1, <1>2 DEF Follows, SameEpisode
<1>4. IInv'
  BY <1>1, TickInv
<1> QED BY <1>1, <1>2, <1>3, <1>4, TimeoutEpisode DEF TimedInv

\* The loop leaves the buffer alone, or only time passes.
LEMMA QuietTimed ==
  ASSUME TimedInv, Quiet, mono' \in {mono, mono + 1}, mono' <= ClockModulus,
         mono' = mono \/ pc = "idle"
  PROVE  TimedInv' /\ Paced
<1>1. /\ gb' = gb /\ pc' = pc /\ rx' = rx /\ delivered' = delivered
      /\ epoch_start' = epoch_start /\ session_call' = {} /\ gap_call' = {}
      /\ retx_call' = {} /\ opened_at' = opened_at /\ asked_at' = asked_at
      /\ asked_end' = asked_end
  BY DEF Quiet, NoCalls, ghostVars
<1>2. IInv'
  BY <1>1 DEF TimedInv, IInv, TypeOK, WindowSound, NothingYet, InOrderOnce,
     GapTracked, Underway, RequestsOnlyMissing, GapEventExact, Holds, Quiescent
<1>3. mono \in Nat \ {0} /\ mono' \in Nat \ {0} /\ mono <= mono'
  BY DEF TimedInv, ClockOK
<1>4. ClockOK'
  BY <1>1, <1>3 DEF TimedInv, ClockOK
<1>5. Episode'
  <2>1. opened_at \in Nat /\ asked_at \in Nat
    BY DEF TimedInv, ClockOK
  <2>2. /\ opened_at <= mono => opened_at <= mono'
        /\ asked_at <= mono => asked_at <= mono'
    BY <1>3, <2>1
  <2> QED BY <1>1, <2>2 DEF TimedInv, Episode
<1> QED BY <1>1, <1>2, <1>4, <1>5 DEF TimedInv, Paced

\* Without kernel timestamps, every step of the loop keeps the instants of
\* the object true and its requests paced.
LEMMA ReceiverStep ==
  ASSUME ~KernelTimestamps, TimedInv, [ReceiverNext]_recvVars
  PROVE  TimedInv' /\ (ReceiverNext => Paced)
<1>1. Packets \subseteq Headers /\ mono \in Nat \ {0} /\ mono <= ClockModulus
  BY ConstantsAssumption DEF TimedInv, ClockOK
<1>2. ASSUME NEW p \in Packets, Ingest(p, mono), Observe, mono' = mono
      PROVE  TimedInv' /\ Paced
  <2>1. p \in Headers
    BY <1>1
  <2> QED BY <1>2, <2>1, ControlTimed, UnpositionedTimed, DuplicateTimed, DataTimed DEF Ingest
<1>3. CASE RecvOne
  <2>1. PICK p \in Packets : (\E now \in Stamps : Ingest(p, now)) /\ Observe /\ mono' = mono
    BY <1>3 DEF RecvOne
  <2>2. Stamps = {mono}
    BY DEF Stamps
  <2> QED BY <1>2, <2>1, <2>2
<1>4. CASE PollReply
  BY <1>2, <1>4 DEF PollReply
<1>5. CASE LoopTick
  BY <1>5, TickTimed DEF LoopTick
<1>6. CASE Continue
  BY <1>6, WalkTimed, WalkDoneTimed DEF Continue
<1>7. CASE RecvNothing \/ PollEnd \/ LoopNoTick
  <2>1. Quiet /\ mono' = mono
    BY <1>7 DEF RecvNothing, PollEnd, LoopNoTick
  <2> QED BY <1>1, <2>1, QuietTimed
<1>8. CASE Advance
  <2>1. Quiet /\ mono' = mono + 1 /\ pc = "idle" /\ mono + 1 < ClockModulus
    BY <1>8 DEF Advance
  <2>2. mono' <= ClockModulus
    BY <1>1, <2>1, ConstantsAssumption
  <2> QED BY <2>1, <2>2, QuietTimed
<1>9. CASE UNCHANGED recvVars
  <2>1. /\ UNCHANGED vars /\ UNCHANGED <<mono, opened_at, asked_at, asked_end>>
    BY <1>9 DEF recvVars, ghostVars
  <2>2. IInv'
    BY <2>1, NextInv DEF TimedInv
  <2>3. UNCHANGED <<gb, pc, rx>>
    BY <2>1 DEF vars
  <2>4. ClockOK' /\ Episode'
    BY <2>1, <2>3 DEF TimedInv, ClockOK, Episode
  <2>5. ReceiverNext => Paced
    BY <1>3, <1>4, <1>5, <1>6, <1>7, <1>8 DEF ReceiverNext
  <2> QED BY <2>2, <2>4, <2>5 DEF TimedInv
<1> QED BY <1>3, <1>4, <1>5, <1>6, <1>7, <1>8, <1>9 DEF ReceiverNext

LEMMA ReceiverInitInv == ReceiverInit => TimedInv
<1> SUFFICES ASSUME ReceiverInit PROVE TimedInv
  OBVIOUS
<1>1. IInv
  BY InitInv DEF ReceiverInit
<1>2. ClockOK /\ Episode
  BY ConstantsAssumption DEF ReceiverInit, Init, ClockOK, Episode
<1> QED BY <1>1, <1>2 DEF TimedInv

LEMMA ReceiverInductive == ~KernelTimestamps => (ReceiverSpec => []TimedInv)
<1> SUFFICES ASSUME ~KernelTimestamps PROVE ReceiverSpec => []TimedInv
  OBVIOUS
<1>1. TimedInv /\ [ReceiverNext]_recvVars => TimedInv'
  BY ReceiverStep
<1> QED BY <1>1, ReceiverInitInv, PTL DEF ReceiverSpec

\* On one clock, the first request of a loss episode waits for the debounce
\* and a repeated one for the retry interval, in true time and across
\* session changes: for every configuration and every order of datagrams,
\* replies and ticks.
THEOREM RequestsArePaced == ~KernelTimestamps => (ReceiverSpec => RequestPacing)
<1> SUFFICES ASSUME ~KernelTimestamps PROVE ReceiverSpec => RequestPacing
  OBVIOUS
<1>1. ReceiverSpec => []TimedInv
  BY ReceiverInductive
<1>2. TimedInv /\ [ReceiverNext]_recvVars => [Paced]_recvVars
  BY ReceiverStep
<1>3. [Paced]_recvVars =>
        [retx_call' # {} =>
           IF asked_at # 0 /\ gb'.next_expected < asked_end /\ ~Opens
           THEN mono - asked_at >= RetryInterval
           ELSE mono - opened_at' >= GapTimeout]_recvVars
  BY DEF Paced
<1> QED BY <1>1, <1>2, <1>3, PTL DEF ReceiverSpec, RequestPacing

\* What NoOverdueRequest says of a step.
InTime ==
  last_tick' # last_tick /\ gb'.in_gap =>
    IF gb'.gap_last_retx = 0
    THEN mono - opened_at' < GapTimeout
    ELSE mono - asked_at' < RetryInterval

\* A tick that makes no request found none due.
LEMMA TickInTime ==
  ASSUME TimedInv, Tick(mono), Observe, RetryInterval # 0, MaxRetransmitCount # 0
  PROVE  InTime
<1> SUFFICES ASSUME gb'.in_gap
             PROVE  IF gb'.gap_last_retx = 0
                    THEN mono - opened_at' < GapTimeout
                    ELSE mono - asked_at' < RetryInterval
  BY DEF InTime
<1>1. /\ IInv /\ Episode /\ pc = "idle" /\ session_call' = {} /\ CheckGapTimeout(gb, mono)
      /\ mono \in Nat \ {0} /\ mono <= ClockModulus
      /\ opened_at \in Nat /\ asked_at \in Nat
      /\ RetryInterval \in Nat /\ MaxRetransmitCount \in Nat /\ GapTimeout \in Nat
  BY ConstantsAssumption DEF Tick, TimedInv, ClockOK
<1>2. Well(gb) /\ GapEq(gb)
  BY <1>1, WellState
<1>3. /\ gb \in State /\ gb.next_expected \in Nat /\ gb.high_water \in Nat
      /\ gb.next_expected <= gb.high_water
  BY <1>2 DEF Well, State
<1>4. CASE RequestDue(gb, mono) /\ MissingRun(gb) # 0
  <2> DEFINE e == gb.next_expected + MissingRun(gb)
  <2>1. gb' = [gb EXCEPT !.gap_last_retx = mono, !.retx_requested_end = e] /\ retx_call' # {}
    BY <1>1, <1>4 DEF CheckGapTimeout
  <2> HIDE DEF e
  <2>2. gb'.gap_last_retx = mono /\ asked_at' = mono
    BY <1>3, <2>1 DEF State, Observe
  <2> QED BY <1>1, <2>2
<1>5. CASE RequestDue(gb, mono) /\ MissingRun(gb) = 0
  <2> DEFINE limit == Least(gb.high_water - gb.next_expected, MaxRetransmitCount)
  <2>1. gb.next_expected < gb.high_water
    BY <1>2, <1>5 DEF RequestDue, GapEq
  <2>2. limit # 0
    BY <1>1, <1>3, <2>1 DEF Least
  <2>3. MissingRun(gb) = limit \/ Holds(gb, gb.next_expected + MissingRun(gb))
    BY <1>3, MissingRunSpec
  <2> HIDE DEF limit
  <2>4. Holds(gb, gb.next_expected)
    BY <1>3, <1>5, <2>2, <2>3
  <2>5. gb.next_expected % kCapacity \in SlotIndex
    BY <1>3, SlotOfSeq
  <2>6. gb.next_expected >= gb.next_expected + 1
    BY <1>2, <2>4, <2>5 DEF Well, SoundFrom, Holds
  <2> QED BY <1>3, <2>6
<1>6. CASE ~RequestDue(gb, mono)
  <2>1. gb' = gb /\ retx_call' = {}
    BY <1>1, <1>6 DEF CheckGapTimeout
  <2>2. opened_at' = opened_at /\ asked_at' = asked_at
    BY <1>1, <2>1 DEF Observe, Opens
  <2>3. /\ gb.in_gap /\ gb.gap_detected_at = opened_at /\ 1 <= opened_at /\ opened_at <= mono
        /\ gb.gap_last_retx # 0 => gb.gap_last_retx = asked_at
        /\ asked_at # 0 => asked_at <= mono
    BY <1>1, <2>1 DEF Episode
  <2>4. CASE gb.gap_last_retx = 0
    <3>1. Elapsed(mono, opened_at) = mono - opened_at
      BY <1>1, <2>3, ElapsedExact
    <3>2. ~(mono - opened_at >= GapTimeout)
      BY <1>6, <2>3, <2>4, <3>1 DEF RequestDue
    <3> QED BY <1>1, <2>1, <2>2, <2>4, <3>2
  <2>5. CASE gb.gap_last_retx # 0
    <3>1. gb.gap_last_retx = asked_at /\ 1 <= asked_at /\ asked_at <= mono
      BY <1>1, <2>3, <2>5
    <3>2. Elapsed(mono, asked_at) = mono - asked_at
      BY <1>1, <3>1, ElapsedExact
    <3>3. ~(mono - asked_at >= RetryInterval)
      BY <1>6, <2>3, <2>5, <3>1, <3>2 DEF RequestDue
    <3> QED BY <1>1, <2>1, <2>2, <2>5, <3>3
  <2> QED BY <2>4, <2>5
<1> QED BY <1>4, <1>5, <1>6

\* On one clock, and with a retry interval and a request size that are not
\* zero, a tick leaves no request overdue: the timers that gate a request
\* never hold one back for longer than configured.
THEOREM NothingOverdue ==
  ~KernelTimestamps /\ RetryInterval # 0 /\ MaxRetransmitCount # 0
    => (ReceiverSpec => NoOverdueRequest)
<1> SUFFICES ASSUME ~KernelTimestamps, RetryInterval # 0, MaxRetransmitCount # 0
             PROVE  ReceiverSpec => NoOverdueRequest
  OBVIOUS
<1>0. ReceiverSpec => []TimedInv
  BY ReceiverInductive
<1>1. ASSUME TimedInv, [ReceiverNext]_recvVars
      PROVE  [InTime]_recvVars
  <2>1. CASE LoopTick
    BY <1>1, <2>1, TickInTime DEF LoopTick
  <2>2. CASE RecvOne \/ RecvNothing \/ PollReply \/ PollEnd \/ LoopNoTick \/ Continue \/ Advance
    <3>1. last_tick' = last_tick
      BY <2>2 DEF RecvOne, RecvNothing, PollReply, PollEnd, LoopNoTick, Continue,
                  Advance, loopVars
    <3> QED BY <3>1 DEF InTime
  <2> QED BY <1>1, <2>1, <2>2 DEF ReceiverNext
<1>2. TimedInv /\ [ReceiverNext]_recvVars => [InTime]_recvVars
  BY <1>1
<1>3. [InTime]_recvVars =>
        [last_tick' # last_tick /\ gb'.in_gap =>
           IF gb'.gap_last_retx = 0
           THEN mono - opened_at' < GapTimeout
           ELSE mono - asked_at' < RetryInterval]_recvVars
  BY DEF InTime
<1> QED BY <1>0, <1>2, <1>3, PTL DEF ReceiverSpec, NoOverdueRequest
=============================================================================
