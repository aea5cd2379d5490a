------------------------------ MODULE Pipeline ------------------------------
(***************************************************************************)
(* hft::Pipeline around engine::MatchingEngine: the caller's thread, which *)
(* starts the pipeline, submits a stream and stops it; the engine thread,  *)
(* which matches; the drain thread, which logs the reports.  They share    *)
(* two SPSC queues, two running_ flags, the engine's counters and, under a *)
(* mutex, the map from order id to receive time.                           *)
(*                                                                         *)
(* The queues are atomic bounded FIFOs (SpscQueue implements BoundedFifo); *)
(* the flags and counters are sequentially consistent, as the x86 build    *)
(* (run_loop uses a PAUSE instruction) makes them for these accesses.      *)
(*                                                                         *)
(* The book is seen from outside: the set of orders that rest in it.  A    *)
(* new order executes against any of them in any order, which covers every *)
(* price, side and quantity.  Write-only tallies (events_submitted,        *)
(* queue_full_rejects, fill_qty_total) are left out, and write() itself    *)
(* does not fail: the log is the number of entries written to it.          *)
(*                                                                         *)
(* The programs that use the pipeline differ in three ways, which are the  *)
(* fields of a Program; whoever waits may find that the wait times out.    *)
(***************************************************************************)
EXTENDS Integers, Sequences, SequencesExt, FiniteSets

CONSTANTS
  OrderIds,
  NoOrder,
  Streams,         \* the message streams the caller runs, one after the other
  InboundBound,    \* usable slots of inbound_
  OutboundBound,   \* usable slots of outbound_
  Callers          \* the programs that are run

Messages == [msg_type: {"NewOrder", "CancelOrder", "ModifyOrder", "Heartbeat"},
             order_id: OrderIds]

\* Where a receive time can come from: steady_clock, which on_fill() reads too,
\* or the kernel's software timestamp, which is CLOCK_REALTIME.
Clocks == {"steady", "realtime"}

\* clocks: those of its recv_ns, none if it passes 0.  retries: resubmits a
\* message that was refused.  waits: calls wait_until_drained() before stop().
Programs == [clocks: SUBSET Clocks, retries: BOOLEAN, waits: BOOLEAN]

\* run_stream(), which tools/run_pipeline reaches through run_synthetic().
RunStream == [clocks |-> {}, retries |-> TRUE, waits |-> TRUE]

\* bench/bench_pipeline makes the same calls one by one.
BenchPipeline == RunStream

\* tools/run_feed_pipeline: the handler it gives to ItchAdapter.
RunFeedPipeline == [clocks |-> {"steady"}, retries |-> TRUE, waits |-> TRUE]

\* bench/bench_tick_to_trade: sleeps, then stops.
BenchTickToTrade == [clocks |-> {"steady"}, retries |-> TRUE, waits |-> FALSE]

\* tools/run_live_pipeline: ignores the result of submit_with_ts().  A message of
\* the multicast line has the kernel's time; with a re-request server there are
\* replies too, which are stamped with CLOCK_MONOTONIC, that is steady_clock, as is
\* a datagram the kernel has put no time on.
RunLivePipeline == [clocks |-> {"realtime"}, retries |-> FALSE, waits |-> FALSE]
RunLiveRecovering == [RunLivePipeline EXCEPT !.clocks = {"realtime", "steady"}]

ASSUME PipelineAssumption ==
  /\ IsFiniteSet(OrderIds) /\ NoOrder \notin OrderIds
  /\ Streams \in Seq(Seq(Messages)) /\ Streams # <<>>
  /\ {InboundBound, OutboundBound} \subseteq Nat \ {0}
  /\ Callers \subseteq Programs

\* The programs number the orders they submit, so no stream has two new orders
\* of the same id.
ASSUME DistinctNewOrders ==
  \A k \in 1 .. Len(Streams) : \A i, j \in 1 .. Len(Streams[k]) :
    /\ Streams[k][i].msg_type = "NewOrder" /\ Streams[k][j].msg_type = "NewOrder"
    /\ Streams[k][i].order_id = Streams[k][j].order_id
    => i = j

Reports == [order_id: OrderIds, contra_order_id: OrderIds]

VARIABLES
  program,     \* the program the caller is
  caller,      \* the caller's thread: where it is, stream and message number
  running,     \* Pipeline::running_
  engine,      \* the engine thread: where it is, reports match_cb_ has to pass on
  erunning,    \* MatchingEngine::running_
  sink,        \* the log: open or not, entries in the file
  drain,       \* the drain thread: where it is, the report it has polled
  inbound, outbound,
  resting,     \* ids of the orders in the book
  recv_by_order,  \* recv_by_order_: for an id, the clock its receive time is of
  accepted,    \* result_.events_accepted
  messages,    \* stat_messages_
  matches,     \* stat_matches_
  fills,       \* the reports on_fill() has seen, each with the order whose entry it
               \* used, the one it recorded a time for, and the run
  processed,   \* history: messages process_message() has finished
  dropped,     \* history: reports refused by a full outbound_
  timed_out    \* history: the last wait_until_drained() ended at its deadline

callerRest == <<program, running, erunning, accepted, timed_out>>
callerVars == <<caller, callerRest>>
engineVars == <<engine, resting, messages, matches, processed, dropped>>
drainVars  == <<drain, fills, sink>>
vars == <<callerVars, engineVars, drainVars, inbound, outbound, recv_by_order>>

Init ==
  /\ program \in Callers
  /\ caller = [at |-> "idle", stream |-> 1, msg |-> 1]
  /\ running = FALSE
  /\ engine = [at |-> "off", reports |-> <<>>]
  /\ erunning = FALSE
  /\ drain = [at |-> "off", rpt |-> <<>>]
  /\ sink = [open |-> FALSE, entries |-> 0]
  /\ inbound = <<>> /\ outbound = <<>>
  /\ resting = {}
  /\ recv_by_order = <<>>
  /\ accepted = 0 /\ messages = 0 /\ matches = 0
  /\ fills = <<>>
  /\ processed = 0 /\ dropped = 0
  /\ timed_out = FALSE
----------------------------------------------------------------------------
(***************************************************************************)
(* The caller's thread.                                                    *)
(***************************************************************************)
Goto(place) == caller' = [caller EXCEPT !.at = place]

\* What a step that only talks to the caller's own variables leaves alone.
CallerOnly == UNCHANGED <<engineVars, drainVars, inbound, outbound, recv_by_order>>

\* FileLogSink: open() truncates the file, log() writes to an open one only.
SinkOpen == sink' = [open |-> TRUE, entries |-> 0]
SinkLog == sink' = IF sink.open THEN [sink EXCEPT !.entries = @ + 1] ELSE sink
SinkClose == sink' = [sink EXCEPT !.open = FALSE]

\* start(): the engine thread and the drain thread begin their loops.
Start ==
  /\ caller.at = "idle"
  /\ ~running
  /\ SinkOpen
  /\ erunning' = TRUE /\ engine' = [engine EXCEPT !.at = "check"]
  /\ running' = TRUE /\ drain' = [drain EXCEPT !.at = "check"]
  /\ Goto("submit")
  /\ UNCHANGED <<program, accepted, timed_out, resting, messages, matches, processed, dropped,
                 fills, inbound, outbound, recv_by_order>>

\* start() could not open the log: nothing was started.
StartFails ==
  /\ caller.at = "idle"
  /\ ~running
  /\ Goto("failed")
  /\ UNCHANGED callerRest /\ CallerOnly

\* Only run_stream() can be called more than once.
Runs == IF program = RunStream THEN Len(Streams) ELSE 1

Stream == Streams[caller.stream]
Message == Stream[caller.msg]

\* recv_by_order_[id] = recv_ns.
Noted(id, clock) ==
  [o \in DOMAIN recv_by_order \cup {id} |-> IF o = id THEN clock ELSE recv_by_order[o]]

\* submit_with_ts(), first half: note the receive time of a new order.
Stamp ==
  /\ caller.at = "submit" /\ caller.msg <= Len(Stream)
  /\ \/ /\ Message.msg_type = "NewOrder"
        /\ \E clock \in program.clocks : recv_by_order' = Noted(Message.order_id, clock)
     \/ /\ Message.msg_type # "NewOrder" \/ program.clocks = {}
        /\ UNCHANGED recv_by_order
  /\ Goto("push")
  /\ UNCHANGED <<callerRest, engineVars, drainVars,
                 inbound, outbound>>

\* submit_with_ts(), second half: MatchingEngine::submit(), which refuses
\* when the queue is full.
Submit ==
  /\ caller.at = "push"
  /\ \/ /\ Len(inbound) < InboundBound
        /\ inbound' = Append(inbound, Message)
        /\ accepted' = accepted + 1
        /\ caller' = [caller EXCEPT !.at = "submit", !.msg = @ + 1]
     \/ /\ Len(inbound) = InboundBound
        /\ caller' = [caller EXCEPT !.at = "submit", !.msg = IF program.retries THEN @ ELSE @ + 1]
        /\ UNCHANGED <<inbound, accepted>>
  /\ UNCHANGED <<program, running, erunning, timed_out, engineVars, drainVars, outbound, recv_by_order>>

\* The whole stream has been offered.
StreamEnds ==
  /\ caller.at = "submit" /\ caller.msg > Len(Stream)
  /\ Goto(IF program.waits THEN "wait" ELSE "stop")
  /\ UNCHANGED callerRest /\ CallerOnly

\* wait_until_drained(stream.size()): the counter has caught up, or the
\* deadline has passed.
WaitUntilDrained ==
  /\ caller.at = "wait"
  /\ \/ messages >= Len(Stream) /\ timed_out' = FALSE
     \/ timed_out' = TRUE
  /\ Goto("stop")
  /\ UNCHANGED <<program, running, erunning, accepted>> /\ CallerOnly

\* stop(): four steps, each visible to the other threads before the next.
Stop ==
  /\ caller.at = "stop" /\ running
  /\ running' = FALSE
  /\ Goto("stop_engine")
  /\ UNCHANGED <<program, erunning, accepted, timed_out>> /\ CallerOnly

StopEngine ==
  /\ caller.at = "stop_engine"
  /\ erunning' = FALSE
  /\ Goto("join_engine")
  /\ UNCHANGED <<program, running, accepted, timed_out>> /\ CallerOnly

\* Faulty variant: the log is closed as soon as the engine has ended.
JoinEngineCloses ==
  /\ caller.at = "join_engine" /\ engine.at = "exited"
  /\ Goto("join_drain")
  /\ SinkClose
  /\ UNCHANGED <<callerRest, engineVars, drain, fills, inbound, outbound, recv_by_order>>

JoinEngine ==
  /\ caller.at = "join_engine" /\ engine.at = "exited"
  /\ Goto("join_drain")
  /\ UNCHANGED callerRest /\ CallerOnly

\* The log is closed and the statistics are read here: no thread changes them
\* any more.
JoinDrain ==
  /\ caller.at = "join_drain" /\ drain.at = "exited"
  /\ Goto("stopped")
  /\ SinkClose
  /\ UNCHANGED <<callerRest, engineVars, drain, fills, inbound, outbound, recv_by_order>>

\* run_stream() is called again on the same pipeline.
NextStream ==
  /\ caller.at = "stopped" /\ caller.stream < Runs
  /\ caller' = [at |-> "idle", stream |-> caller.stream + 1, msg |-> 1]
  /\ UNCHANGED callerRest /\ CallerOnly

Caller ==
  \/ Start \/ StartFails \/ Stamp \/ Submit \/ StreamEnds \/ WaitUntilDrained
  \/ Stop \/ StopEngine \/ JoinEngine \/ JoinDrain \/ NextStream
----------------------------------------------------------------------------
(***************************************************************************)
(* The engine thread.                                                      *)
(***************************************************************************)
EngineCheck ==
  /\ engine.at = "check"
  /\ engine' = [engine EXCEPT !.at = IF erunning THEN "pop" ELSE "rest"]
  /\ UNCHANGED <<resting, messages, matches, processed, dropped, callerVars, drainVars,
                 inbound, outbound, recv_by_order>>

\* OrderBook::add_order(): o executes against the orders of hit in turn; the
\* last of them may keep a part, or else o may rest with what it has left.
AddOrder(o, hit) ==
  LET gone == resting \ Range(hit) IN
  [reports: {[i \in 1 .. Len(hit) |-> [order_id |-> o, contra_order_id |-> hit[i]]]},
   resting: {gone, gone \cup {o}}
            \cup IF hit = <<>> THEN {} ELSE {gone \cup {Last(hit)}}]

\* process_message(): the reports match_cb_ gets and the book it leaves.  A
\* message for a symbol without a book counts as a heartbeat.
ProcessMessage(msg) ==
  LET o == msg.order_id
      quiet(books) == [reports: {<<>>}, resting: books]
  IN  CASE msg.msg_type = "NewOrder" ->
             UNION {AddOrder(o, hit) : hit \in UNION {SetToSeqs(makers) :
                                              makers \in SUBSET (resting \ {o})}}
        [] msg.msg_type = "CancelOrder" -> quiet({resting \ {o}})
        [] msg.msg_type = "ModifyOrder" -> quiet({resting, resting \ {o}})
        [] msg.msg_type = "Heartbeat"   -> quiet({resting})

\* try_pop and the matching it leads to, which no other thread can see.
TakeMessage(place) ==
  /\ inbound # <<>>
  /\ inbound' = Tail(inbound)
  /\ \E outcome \in ProcessMessage(Head(inbound)) :
       /\ engine' = [at |-> place, reports |-> outcome.reports]
       /\ resting' = outcome.resting

NothingToTake(place) ==
  /\ inbound = <<>>
  /\ engine' = [engine EXCEPT !.at = place]
  /\ UNCHANGED <<inbound, resting>>

\* The body of the run loop: a message, or one more spin.
EnginePop ==
  /\ engine.at = "pop"
  /\ TakeMessage("exec") \/ NothingToTake("check")
  /\ UNCHANGED <<messages, matches, processed, dropped, callerVars, drainVars,
                 outbound, recv_by_order>>

\* Faulty variant: what was queued at shutdown is not processed.
EngineRestDiscards ==
  /\ engine.at = "rest"
  /\ engine' = [engine EXCEPT !.at = "exited"]
  /\ UNCHANGED <<inbound, resting, messages, matches, processed, dropped, callerVars,
                 drainVars, outbound, recv_by_order>>

\* After the run loop: what is still queued, until nothing is.
EngineRest ==
  /\ engine.at = "rest"
  /\ TakeMessage("rest_exec") \/ NothingToTake("exited")
  /\ UNCHANGED <<messages, matches, processed, dropped, callerVars, drainVars,
                 outbound, recv_by_order>>

\* Faulty variant: the push is repeated until outbound_ has room.
OnExecutionWaits ==
  /\ engine.at \in {"exec", "rest_exec"} /\ engine.reports # <<>>
  /\ \/ Len(outbound) = OutboundBound /\ UNCHANGED vars
     \/ /\ Len(outbound) < OutboundBound
        /\ outbound' = Append(outbound, Head(engine.reports))
        /\ engine' = [engine EXCEPT !.reports = Tail(@)]
        /\ matches' = matches + 1
        /\ UNCHANGED <<resting, messages, processed, dropped, callerVars, drainVars,
                       inbound, recv_by_order>>

\* Faulty variant: the report is queued without a look at the space left.
OnExecutionOverruns ==
  /\ engine.at \in {"exec", "rest_exec"} /\ engine.reports # <<>>
  /\ outbound' = Append(outbound, Head(engine.reports))
  /\ engine' = [engine EXCEPT !.reports = Tail(@)]
  /\ matches' = matches + 1
  /\ UNCHANGED <<resting, messages, processed, dropped, callerVars, drainVars,
                 inbound, recv_by_order>>

\* on_execution(): count the match and queue its report, or drop it when
\* the queue is full.
OnExecution ==
  /\ engine.at \in {"exec", "rest_exec"} /\ engine.reports # <<>>
  /\ \/ /\ Len(outbound) < OutboundBound
        /\ outbound' = Append(outbound, Head(engine.reports))
        /\ UNCHANGED dropped
     \/ /\ Len(outbound) = OutboundBound
        /\ dropped' = dropped + 1
        /\ UNCHANGED outbound
  /\ engine' = [engine EXCEPT !.reports = Tail(@)]
  /\ matches' = matches + 1
  /\ UNCHANGED <<resting, messages, processed, callerVars, drainVars, inbound, recv_by_order>>

\* process_message() returns.  Only the run loop counts the message.
MessageDone ==
  /\ engine.at \in {"exec", "rest_exec"} /\ engine.reports = <<>>
  /\ processed' = processed + 1
  /\ \/ /\ engine.at = "exec"
        /\ messages' = messages + 1
        /\ engine' = [engine EXCEPT !.at = "check"]
     \/ /\ engine.at = "rest_exec"
        /\ engine' = [engine EXCEPT !.at = "rest"]
        /\ UNCHANGED messages
  /\ UNCHANGED <<resting, matches, dropped, callerVars, drainVars,
                 inbound, outbound, recv_by_order>>

Engine == EngineCheck \/ EnginePop \/ EngineRest \/ OnExecution \/ MessageDone
----------------------------------------------------------------------------
(***************************************************************************)
(* The drain thread.                                                       *)
(***************************************************************************)
\* Faulty variant: the thread ends with its flag, whatever is still queued.
DrainCheckLeaves ==
  /\ drain.at = "check"
  /\ drain' = [drain EXCEPT !.at = IF running THEN "poll" ELSE "exited"]
  /\ UNCHANGED <<fills, sink, callerVars, engineVars, inbound, outbound, recv_by_order>>

DrainCheck ==
  /\ drain.at = "check"
  /\ drain' = [drain EXCEPT !.at = IF running THEN "poll" ELSE "last_poll"]
  /\ UNCHANGED <<fills, sink, callerVars, engineVars, inbound, outbound, recv_by_order>>

\* poll_report() in the loop, and in the loop that follows it, which ends
\* the thread when it finds nothing.
DrainPoll ==
  /\ drain.at \in {"poll", "last_poll"}
  /\ \/ /\ outbound # <<>>
        /\ outbound' = Tail(outbound)
        /\ drain' = [at |-> IF drain.at = "poll" THEN "fill" ELSE "last_fill",
                     rpt |-> <<Head(outbound)>>]
     \/ /\ outbound = <<>>
        /\ drain' = [drain EXCEPT !.at = IF @ = "poll" THEN "check" ELSE "exited"]
        /\ UNCHANGED outbound
  /\ UNCHANGED <<fills, sink, callerVars, engineVars, inbound, recv_by_order>>

\* The order whose receive time on_fill() finds: the aggressor, or else the
\* order it executed against.
TimedOrder(rpt) ==
  IF rpt.order_id \in DOMAIN recv_by_order THEN rpt.order_id
  ELSE IF rpt.contra_order_id \in DOMAIN recv_by_order THEN rpt.contra_order_id
  ELSE NoOrder

\* t >= it->second: true of a reading of the same clock, which was taken before;
\* false of the wall clock, which is decades ahead of a clock that starts at boot.
NotAhead(id) == recv_by_order[id] = "steady"

\* What on_fill() does with a report: the entry it uses, and whether it records
\* the time that has passed.
Fill(rpt) ==
  LET o == TimedOrder(rpt)
  IN [rpt |-> rpt, entry |-> o, stream |-> caller.stream,
      sample |-> IF o # NoOrder /\ NotAhead(o) THEN o ELSE NoOrder]

\* Faulty variant: the entry stays after its time has been recorded.
OnFillKeepsEntry ==
  /\ drain.at \in {"fill", "last_fill"}
  /\ fills' = Append(fills, Fill(drain.rpt[1]))
  /\ SinkLog
  /\ drain' = [at |-> IF drain.at = "fill" THEN "check" ELSE "last_poll", rpt |-> <<>>]
  /\ UNCHANGED <<callerVars, engineVars, inbound, outbound, recv_by_order>>

\* on_fill(): record one time unless it lies in the future, forget its entry in
\* either case, log the fill.
OnFill ==
  /\ drain.at \in {"fill", "last_fill"}
  /\ LET rpt == drain.rpt[1] IN
       /\ fills' = Append(fills, Fill(rpt))
       /\ recv_by_order' = Restrict(recv_by_order, DOMAIN recv_by_order \ {TimedOrder(rpt)})
  /\ SinkLog
  /\ drain' = [at |-> IF drain.at = "fill" THEN "check" ELSE "last_poll", rpt |-> <<>>]
  /\ UNCHANGED <<callerVars, engineVars, inbound, outbound>>

Drain == DrainCheck \/ DrainPoll \/ OnFill
----------------------------------------------------------------------------
\* The caller has nothing left to do.
Finished ==
  \/ caller.at = "failed"
  \/ caller.at = "stopped" /\ caller.stream = Runs

Next == Caller \/ Engine \/ Drain \/ (Finished /\ UNCHANGED vars)

Spec == Init /\ [][Next]_vars

\* Each of the three threads gets to run again and again; the caller's loops
\* yield, the others spin.
Fairness == WF_vars(Caller) /\ WF_vars(Engine) /\ WF_vars(Drain)

FairSpec == Spec /\ Fairness
----------------------------------------------------------------------------
(***************************************************************************)
(* Properties.                                                             *)
(***************************************************************************)
Fills == [rpt: Reports, entry: OrderIds \cup {NoOrder}, sample: OrderIds \cup {NoOrder},
          stream: 1 .. Runs]

\* Types of the variables.
TypeOK ==
  /\ caller \in [at: {"idle", "failed", "submit", "push", "wait", "stop", "stop_engine",
                      "join_engine", "join_drain", "stopped"},
                 stream: 1 .. Len(Streams), msg: Nat]
  /\ {running, erunning, timed_out} \subseteq BOOLEAN
  /\ engine \in [at: {"off", "check", "pop", "exec", "rest", "rest_exec", "exited"},
                 reports: Seq(Reports)]
  /\ drain \in [at: {"off", "check", "poll", "fill", "last_poll", "last_fill", "exited"},
                rpt: Seq(Reports)]
  /\ Len(drain.rpt) = IF drain.at \in {"fill", "last_fill"} THEN 1 ELSE 0
  /\ inbound \in Seq(Messages) /\ Len(inbound) <= InboundBound
  /\ outbound \in Seq(Reports) /\ Len(outbound) <= OutboundBound
  /\ resting \subseteq OrderIds
  /\ DOMAIN recv_by_order \subseteq OrderIds
  /\ recv_by_order \in [DOMAIN recv_by_order -> program.clocks]
  /\ {accepted, messages, matches, processed, dropped} \subseteq Nat
  /\ fills \in Seq(Fills)
  /\ program \in Callers /\ sink \in [open: BOOLEAN, entries: Nat]

Stopped == caller.at = "stopped"

\* A caller that waited until the engine had counted every message, and did
\* not time out, loses nothing by stop(): every match has been logged except
\* the reports a full queue refused, and the engine's own count is exact.  Of
\* a second run_stream() this is not true: the counter it waits for still
\* counts the messages of the first.
NothingLost ==
  Stopped /\ caller.stream = 1 /\ program.waits /\ ~timed_out =>
    /\ Len(fills) = matches - dropped
    /\ outbound = <<>>
    /\ messages = accepted

\* Whenever stop() is called, the engine thread processes every message it
\* had accepted before it ends.
AcceptedProcessed ==
  Stopped => inbound = <<>> /\ processed = accepted

\* The receive time of an aggressor is used at the first report of it that is
\* logged, no order's is used twice, and where it is of the clock on_fill() reads
\* the tick-to-trade sample is recorded there and then, however submission and
\* draining interleave.  Of a kernel timestamp there is no sample.
FirstFillTimed ==
  \A i \in 1 .. Len(fills) :
    LET earlier == {fills[j] : j \in 1 .. i - 1}
        first == \A f \in earlier : f.rpt.order_id # fills[i].rpt.order_id
    IN
    /\ program.clocks # {} /\ first => fills[i].entry = fills[i].rpt.order_id
    /\ fills[i].entry # NoOrder => \A f \in earlier : f.entry # fills[i].entry
    /\ "realtime" \notin program.clocks => fills[i].sample = fills[i].entry
    /\ "steady" \notin program.clocks => fills[i].sample = NoOrder

\* When stop() returns, the log file has an entry for every report the drain
\* thread handled in this run: the file is closed only after the thread's last
\* write, and a report left over from an earlier run is logged in this one.
LogComplete ==
  Stopped => sink = [open |-> FALSE,
                     entries |-> Cardinality({i \in DOMAIN fills : fills[i].stream = caller.stream})]

\* Every call returns: the stream is submitted whatever the queues refuse,
\* the wait ends, and stop() joins both threads.
CallsReturn == <>Finished

\* "Stop: running_=false; engine.stop() joins; drain exhausts outbound"
\* (docs/design.md): stop() leaves no report in the queue.
StopExhaustsOutbound == Stopped => outbound = <<>>

\* on_fill() erases entries so that the map does not keep one per order for
\* the life of the process: once everything has been logged, an order that
\* has executed and has left the book has none.
StampsReleased ==
  Stopped /\ outbound = <<>> =>
    \A f \in Range(fills) :
      DOMAIN recv_by_order \cap {f.rpt.order_id, f.rpt.contra_order_id} \subseteq resting
=============================================================================
