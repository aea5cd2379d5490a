---------------------------- MODULE FeedReceiver ----------------------------
(***************************************************************************)
(* MulticastReceiver::run (feed/receiver.hpp): the one thread that feeds   *)
(* the gap buffer.  Each round of its loop reads at most one multicast     *)
(* datagram, drains the retransmit client's socket, and ticks the buffer   *)
(* when tick_interval_ns have passed - and each of the three stamps the    *)
(* buffer with a clock reading of its own: a multicast datagram with the   *)
(* kernel's receive timestamp (CLOCK_REALTIME, taken when the datagram was *)
(* queued) when kernel timestamps are on, everything else with             *)
(* CLOCK_MONOTONIC.                                                        *)
(***************************************************************************)
EXTENDS GapBuffer

CONSTANTS
  KernelTimestamps,    \* Config::enable_software_timestamps
  RealtimeOffset,      \* CLOCK_REALTIME minus CLOCK_MONOTONIC
  MaxQueueing,         \* how long a datagram may wait in the socket
  TickInterval,        \* run(): tick_interval_ns
  MaxDatagramsPerPoll  \* RetransmitClient::Config::max_datagrams_per_poll

ASSUME ReceiverAssumption ==
  /\ KernelTimestamps \in BOOLEAN
  /\ {RealtimeOffset, MaxQueueing, TickInterval, MaxDatagramsPerPoll} \subseteq Nat

VARIABLES
  mono,       \* CLOCK_MONOTONIC
  loop,       \* next call of the loop body: "recv", "poll", "tick"
  polled,     \* datagrams poll() has taken in this round
  last_tick,  \* run(): last_tick
  opened_at,  \* true time at which the current loss episode opened
  asked_at,   \* true time of the last request of this episode, 0 if none
  asked_end   \* one past the last message of that request

loopVars == <<loop, polled, last_tick>>
ghostVars == <<opened_at, asked_at, asked_end>>
recvVars == <<vars, mono, loopVars, ghostVars>>
----------------------------------------------------------------------------
\* The stamp recv_one() passes to ingest().
Stamps == IF KernelTimestamps
          THEN {t + RealtimeOffset : t \in {u \in mono - MaxQueueing .. mono : u > 0}}
          ELSE {mono}

\* A loss episode opens: where there was none, or at once in a session that
\* replaces one with a loss of its own.
Opens == gb'.in_gap /\ (~gb.in_gap \/ session_call' # {})

\* What an observer with the true clock notes of a step of the buffer.
Observe ==
  /\ opened_at' = IF Opens THEN mono ELSE opened_at
  /\ asked_at' = IF retx_call' # {} THEN mono ELSE IF Opens THEN 0 ELSE asked_at
  /\ asked_end' = IF retx_call' # {} THEN gb'.retx_requested_end ELSE asked_end

\* The buffer is left alone and makes no calls.
Quiet == /\ NoCalls
         /\ UNCHANGED <<gb, pc, rx, delivered, epoch_start, ghostVars>>

RecvOne ==
  /\ loop = "recv"
  /\ \E p \in Packets, now \in Stamps : Ingest(p, now)
  /\ Observe
  /\ loop' = "poll"
  /\ polled' = 0
  /\ UNCHANGED <<mono, last_tick>>

RecvNothing ==
  /\ loop = "recv" /\ pc = "idle"
  /\ Quiet
  /\ loop' = "poll"
  /\ polled' = 0
  /\ UNCHANGED <<mono, last_tick>>

PollReply ==
  /\ loop = "poll"
  /\ polled < MaxDatagramsPerPoll
  /\ \E p \in Packets : Ingest(p, mono)
  /\ Observe
  /\ polled' = polled + 1
  /\ UNCHANGED <<mono, loop, last_tick>>

PollEnd ==
  /\ loop = "poll" /\ pc = "idle"
  /\ Quiet
  /\ loop' = "tick"
  /\ UNCHANGED <<mono, polled, last_tick>>

LoopTick ==
  /\ loop = "tick"
  /\ mono - last_tick >= TickInterval
  /\ Tick(mono)
  /\ Observe
  /\ last_tick' = mono
  /\ loop' = "recv"
  /\ UNCHANGED <<mono, polled>>

LoopNoTick ==
  /\ loop = "tick"
  /\ mono - last_tick < TickInterval
  /\ Quiet
  /\ loop' = "recv"
  /\ UNCHANGED <<mono, polled, last_tick>>

Continue ==
  /\ IngestStep
  /\ Observe
  /\ UNCHANGED <<mono, loopVars>>

\* Time passes between calls into the buffer; a reading is a uint64_t.
Advance ==
  /\ pc = "idle"
  /\ mono + 1 < ClockModulus
  /\ mono' = mono + 1
  /\ Quiet
  /\ UNCHANGED loopVars

ReceiverInit ==
  /\ Init
  /\ mono = 1
  /\ loop = "recv"
  /\ polled = 0
  /\ last_tick = 1
  /\ opened_at = 0
  /\ asked_at = 0
  /\ asked_end = 0

ReceiverNext == RecvOne \/ RecvNothing \/ PollReply \/ PollEnd
                \/ LoopTick \/ LoopNoTick \/ Continue \/ Advance

ReceiverSpec == ReceiverInit /\ [][ReceiverNext]_recvVars
----------------------------------------------------------------------------
(***************************************************************************)
(* Properties.                                                             *)
(***************************************************************************)
\* The debounce and the retry interval hold in real time: the first request
\* of a loss episode goes out no earlier than gap_timeout_ns after the loss
\* was seen, and while part of what was last asked for is still missing the
\* next one waits for retry_interval_ns.
RequestPacing ==
  [][retx_call' # {} =>
       IF asked_at # 0 /\ gb'.next_expected < asked_end /\ ~Opens
       THEN mono - asked_at >= RetryInterval
       ELSE mono - opened_at' >= GapTimeout]_recvVars

\* The other side of it: a tick never leaves a request overdue by the true
\* clock.
NoOverdueRequest ==
  [][last_tick' # last_tick /\ gb'.in_gap =>
       IF gb'.gap_last_retx = 0
       THEN mono - opened_at' < GapTimeout
       ELSE mono - asked_at' < RetryInterval]_recvVars
=============================================================================
