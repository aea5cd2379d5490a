----------------------------- MODULE ItchReplay -----------------------------
(***************************************************************************)
(* An ITCH feed played into the matching engine: tools/replay_itch50,      *)
(* which reads a file, keeps a reference book and compares the engine's    *)
(* book with it at the end, and the live path, where ItchAdapter gets the  *)
(* messages from the gap buffer and hands them to the pipeline without     *)
(* looking at the result.  Both share Translator; the engine works through *)
(* its inbound queue in a thread of its own.                               *)
(*                                                                         *)
(* The feed is the exchange's: references are unique for the day and grow  *)
(* with arrival (itch50.hpp says so at snapshot()), shares are not zero.   *)
(* Orders may cross, a reduction may name any reference and any size, the  *)
(* file may end anywhere, and messages may precede the Stock Directory.    *)
(***************************************************************************)
EXTENDS OrderBook, Itch50

CONSTANTS
  Modes,          \* which programs and options are run
  InboundBound,   \* usable slots of the engine's inbound queue
  MaxMsgs         \* book messages in a feed

ASSUME ItchReplayAssumption ==
  /\ Modes \subseteq {"replay", "replay_late", "no_engine", "live"}
  /\ {InboundBound, MaxMsgs} \subseteq Nat \ {0}

VARIABLES
  mode,       \* the options this run was started with
  reader,     \* the thread that reads the feed: where it is, book messages read
  nextRef,    \* the feed: the next reference it gives out
  target,     \* the symbol's Stock Directory message has been seen
  started,    \* engine_started
  ref,        \* the reference book
  tr,         \* the translator's orders
  out,        \* messages the reader still has to send
  inbound,    \* the engine's inbound queue
  engine,     \* the engine's thread: where it is, the order it has in hand
  book,       \* the engine's book
  sent, processed,
  exceeded,   \* first_exceeded_at # 0
  exit,       \* exit code, -1 while running
  crossed,    \* history: the book was crossed when the engine was given it, or since
  overflowed, \* history: the engine refused an order for want of space
  lost,       \* history: the live path lost a message to a full queue
  timedOut    \* history: wait_until_drained() ended at its deadline

feedVars   == <<reader, nextRef, target, started, ref, tr, exceeded, crossed>>
engineVars == <<engine, book, processed, overflowed>>
vars == <<mode, feedVars, engineVars, out, inbound, sent, exit, lost, timedOut>>

Init ==
  /\ mode \in Modes
  /\ reader = [at |-> "read", count |-> 0]
  /\ nextRef = 1
  /\ target = (mode = "live")
  /\ started = (mode # "replay_late")
  /\ ref = EmptyRefBook
  /\ tr = <<>>
  /\ out = <<>> /\ inbound = <<>> /\ engine = Polling /\ book = <<>>
  /\ sent = 0 /\ processed = 0
  /\ exceeded = FALSE
  /\ exit = -1
  /\ crossed = FALSE /\ overflowed = FALSE /\ lost = FALSE /\ timedOut = FALSE
----------------------------------------------------------------------------
(***************************************************************************)
(* What the feed can carry next.                                           *)
(***************************************************************************)
Fresh == {nextRef} \cap Refs
Given == 1..(nextRef - 1)

FeedMessages == Decoded(Fresh, Given)

Reading == reader.at = "read" /\ out = <<>> /\ reader.count < MaxMsgs

Counted(m) ==
  /\ reader' = [reader EXCEPT !.count = @ + 1]
  /\ nextRef' = IF m.type \in {"Add", "Replace"} THEN nextRef + 1 ELSE nextRef

\* A Stock Directory message for the symbol.
ReadDirectory ==
  /\ mode # "live" /\ reader.at = "read" /\ out = <<>>
  /\ target' = TRUE
  /\ UNCHANGED <<mode, reader, nextRef, started, ref, tr, exceeded, crossed, engineVars,
                 out, inbound, sent, exit, lost, timedOut>>

\* A message before the Stock Directory: its locate is not the target's.
SkipMessage(m) ==
  /\ ~target /\ Reading
  /\ Counted(m)
  /\ UNCHANGED <<mode, target, started, ref, tr, exceeded, crossed, engineVars,
                 out, inbound, sent, exit, lost, timedOut>>

\* Messages for the engine; send() drops them when there is none.
ToSend(msgs) == IF mode = "no_engine" THEN <<>> ELSE msgs

\* A book message of the symbol.  The first one at or after engine_start_ns
\* starts the engine from a snapshot, taken before the message is applied,
\* even when its body then turns out to be malformed.  reached: the
\* message's time stamp is not below engine_start_ns.
ReplayMessage(m, reached) ==
  LET t == Translate(tr, m)
      starts == ~started /\ reached
      running == started \/ reached
      snapshot == IF starts THEN Snapshot(tr) ELSE <<>>
  IN /\ mode # "live" /\ target /\ Reading
     /\ Counted(m)
     /\ started' = running
     /\ IF m.type # "Malformed"
        THEN /\ ref' = RefApply(ref, m)
             /\ tr' = t.orders
             /\ exceeded' = (exceeded \/ (/\ running /\ mode # "no_engine"
                                          /\ Cardinality(DOMAIN t.orders) > kMaxOrders))
             /\ out' = ToSend(snapshot \o (IF running THEN t.out ELSE <<>>))
        ELSE /\ out' = ToSend(snapshot)
             /\ UNCHANGED <<ref, tr, exceeded>>
     /\ crossed' = (crossed \/ (starts /\ Crossed(ref)) \/ (running /\ Crossed(ref')))
     /\ UNCHANGED <<mode, target, engineVars, inbound, sent, exit, lost, timedOut>>

\* ItchAdapter::on_mold_message() and the lambda around submit_with_ts().
\* A body that does not parse is counted and skipped.
LiveMessage(m) ==
  LET t == Translate(tr, m)
  IN /\ mode = "live" /\ Reading
     /\ Counted(m)
     /\ IF m.type # "Malformed"
        THEN /\ tr' = t.orders /\ out' = t.out
             /\ ref' = RefApply(ref, m)   \* history on this path
        ELSE UNCHANGED <<tr, out, ref>>
     /\ crossed' = (crossed \/ Crossed(ref'))
     /\ UNCHANGED <<mode, target, started, exceeded, engineVars, inbound, sent, exit, lost, timedOut>>

\* Faulty variant: the message is queued without a look at the space left.
SendOverruns ==
  /\ out # <<>> /\ exit = -1
  /\ inbound' = Append(inbound, Head(out))
  /\ out' = Tail(out)
  /\ sent' = sent + 1
  /\ UNCHANGED <<mode, feedVars, engineVars, exit, lost, timedOut>>

\* submit(): accepted.
Send ==
  /\ out # <<>> /\ exit = -1
  /\ Len(inbound) < InboundBound
  /\ inbound' = Append(inbound, Head(out))
  /\ out' = Tail(out)
  /\ sent' = sent + 1
  /\ UNCHANGED <<mode, feedVars, engineVars, exit, lost, timedOut>>

\* submit(): refused.  The replay tries again, for 50 million times at most;
\* the live path goes on without the message.
SendRefused ==
  /\ out # <<>> /\ exit = -1
  /\ Len(inbound) = InboundBound
  /\ IF mode = "live" THEN out' = Tail(out) /\ lost' = TRUE /\ UNCHANGED exit
                      ELSE exit' = 2 /\ UNCHANGED <<out, lost>>
  /\ UNCHANGED <<mode, feedVars, engineVars, inbound, sent, timedOut>>

\* stat_messages_; the loop that empties the queue after stop() leaves it alone.
CountMessage ==
  processed' \in {processed + 1} \cup (IF reader.at = "join" THEN {processed} ELSE {})

\* The engine's thread takes a message: try_pop() and process_message(), up
\* to the matching of a new order.
Pop ==
  /\ engine.at = "pop" /\ inbound # <<>> /\ exit = -1
  /\ engine' = InHand(Head(inbound))
  /\ book' = Amended(book, Head(inbound))
  /\ inbound' = Tail(inbound)
  /\ IF engine'.at = "pop" THEN CountMessage ELSE UNCHANGED processed
  /\ UNCHANGED <<mode, feedVars, overflowed, out, sent, exit, lost, timedOut>>

\* One execution.
Execute ==
  /\ engine.at = "match" /\ exit = -1
  /\ \E i \in Best(book, engine.order) :
       /\ book' = Hit(book, engine.order, i)
       /\ engine' = [engine EXCEPT !.order.qty = @ - FillQty(book, engine.order, i)]
  /\ UNCHANGED <<mode, feedVars, processed, overflowed, out, inbound, sent, exit, lost, timedOut>>

\* The remainder rests or is refused, and the message is counted.
Count ==
  /\ engine.at = "match" /\ Best(book, engine.order) = {} /\ exit = -1
  /\ book' = Rested(book, engine.order)
  /\ overflowed' = (overflowed \/ (engine.order.qty > 0 /\ ~Fits(book, engine.order)))
  /\ CountMessage
  /\ engine' = Polling
  /\ UNCHANGED <<mode, feedVars, out, inbound, sent, exit, lost, timedOut>>

\* Faulty variant: an engine that was never started is not given anything.
EndOfFileNoSnapshot ==
  /\ mode # "live" /\ reader.at = "read" /\ out = <<>>
  /\ reader' = [reader EXCEPT !.at = "wait"]
  /\ UNCHANGED <<mode, nextRef, target, started, ref, tr, exceeded, crossed, engineVars,
                 out, inbound, sent, exit, lost, timedOut>>

\* The file ends, in the middle of a message perhaps, or max_msgs have been
\* read.  An engine that was never started is given the final snapshot.
EndOfFile ==
  LET starts == target /\ ~started
  IN /\ mode # "live" /\ reader.at = "read" /\ out = <<>>
     /\ reader' = [reader EXCEPT !.at = "wait"]
     /\ started' = (started \/ target)
     /\ out' = IF starts THEN ToSend(Snapshot(tr)) ELSE <<>>
     /\ crossed' = (crossed \/ (starts /\ Crossed(ref)))
     /\ UNCHANGED <<mode, nextRef, target, ref, tr, exceeded, engineVars, inbound, sent,
                    exit, lost, timedOut>>

\* The live program's time is up: the receive thread is joined and the
\* pipeline stopped at once, whatever the queue still holds.
LiveEnds ==
  /\ mode = "live" /\ reader.at = "read" /\ out = <<>>
  /\ reader' = [reader EXCEPT !.at = "join"]
  /\ UNCHANGED <<mode, nextRef, target, started, ref, tr, exceeded, crossed, engineVars,
                 out, inbound, sent, exit, lost, timedOut>>

\* Faulty variant: no deadline, and one message too many to wait for.
WaitForEver ==
  /\ reader.at = "wait" /\ out = <<>> /\ exit = -1
  /\ reader' = IF processed > sent THEN [reader EXCEPT !.at = "join"] ELSE reader
  /\ UNCHANGED <<mode, nextRef, target, started, ref, tr, exceeded, crossed, engineVars,
                 out, inbound, sent, exit, lost, timedOut>>

\* wait_until_drained(sent): the counter has caught up, or the deadline has
\* passed.  Then stop().
WaitUntilDrained ==
  /\ reader.at = "wait" /\ out = <<>> /\ exit = -1
  /\ reader' = [reader EXCEPT !.at = "join"]
  /\ \/ processed >= sent /\ UNCHANGED timedOut
     \/ timedOut' = TRUE
  /\ UNCHANGED <<mode, nextRef, target, started, ref, tr, exceeded, crossed, engineVars,
                 out, inbound, sent, exit, lost>>

\* The engine's depth in ITCH prices.
EngineDepth(side) ==
  LET d == Depth(book, EngineSide(side))
  IN [p \in {q \div 100 : q \in DOMAIN d} |-> d[p * 100]]

\* Faulty variant: only the prices of the levels are compared.
AgreeOnPrices ==
  \/ mode = "no_engine"
  \/ /\ ~exceeded
     /\ \A s \in ItchSides : DOMAIN EngineDepth(s) = DOMAIN ref.levels[s]
     /\ processed = sent

\* Every level's price, quantity and order count, and the message count.
Agree ==
  \/ mode = "no_engine"
  \/ /\ ~exceeded
     /\ \A s \in ItchSides : EngineDepth(s) = ref.levels[s]
     /\ processed = sent

\* The comparison and the exit code; the live program always returns 0.
Finish ==
  /\ reader.at = "join" /\ inbound = <<>> /\ engine.at = "pop" /\ exit = -1
  /\ reader' = [reader EXCEPT !.at = "done"]
  /\ exit' = CASE mode = "live" -> 0
               [] mode # "live" /\ ~target -> 3
               [] mode # "live" /\ target /\ exceeded -> 4
               [] OTHER -> IF Agree THEN 0 ELSE 1
  /\ UNCHANGED <<mode, nextRef, target, started, ref, tr, exceeded, crossed, engineVars,
                 out, inbound, sent, lost, timedOut>>

ReadMessage ==
  \E m \in FeedMessages :
    \/ SkipMessage(m)
    \/ \E reached \in BOOLEAN : ReplayMessage(m, reached)
    \/ LiveMessage(m)

Reader ==
  \/ ReadDirectory \/ ReadMessage \/ Send \/ SendRefused \/ EndOfFile \/ LiveEnds
  \/ WaitUntilDrained \/ Finish

\* The program has returned or called exit().
Ended == exit # -1 /\ UNCHANGED vars

Next == Reader \/ Pop \/ Execute \/ Count \/ Ended

Spec == Init /\ [][Next]_vars

\* The engine's thread as its queue and its place show it: it takes a message,
\* and is done with it after finitely many executions.
EngineTakes   == engine.at = "pop" /\ inbound # <<>> /\ exit = -1 /\ inbound' = Tail(inbound)
EngineReturns == engine.at = "match" /\ exit = -1 /\ engine' = Polling

\* Both threads are scheduled; the file has an end, the live session a deadline.
FairSpec ==
  /\ Spec
  /\ WF_vars(Send) /\ WF_vars(EndOfFile) /\ WF_vars(LiveEnds) /\ WF_vars(WaitUntilDrained) /\ WF_vars(Finish)
  /\ WF_inbound(EngineTakes) /\ WF_engine(EngineReturns)
----------------------------------------------------------------------------
(***************************************************************************)
(* Properties.                                                             *)
(***************************************************************************)
TypeOK ==
  /\ mode \in Modes
  /\ reader \in [at: {"read", "wait", "join", "done"}, count: 0..MaxMsgs]
  /\ nextRef \in 1..(MaxMsgs + 1)
  /\ {target, started, exceeded, crossed, overflowed, lost, timedOut} \subseteq BOOLEAN
  /\ DOMAIN tr \subseteq Refs /\ \A r \in DOMAIN tr : tr[r] \in [side: ItchSides, price: Prices, qty: Nat]
  /\ Len(inbound) <= InboundBound /\ Len(book) <= kMaxOrders
  /\ {sent, processed} \subseteq Nat
  /\ exit \in -1..4

\* The oracle is right about itself: the levels RefBook::sub_level() and
\* add() keep by increments are what the orders of the book add up to.
DepthIsAggregate ==
  \A s \in ItchSides :
    ref.levels[s] =
      [p \in {ref.orders[r].price : r \in {x \in DOMAIN ref.orders : ref.orders[x].side = s}} |->
         LET at == {r \in DOMAIN ref.orders : ref.orders[r].side = s /\ ref.orders[r].price = p}
         IN [qty |-> MapThenSumSet(LAMBDA r : ref.orders[r].qty, at), orders |-> Cardinality(at)]]

\* Translator and RefBook are written apart and never drift: the same
\* references with the same side, price and remaining shares.
TranslatorMirrorsRef == tr = ref.orders

\* Nothing rests in the engine that the feed does not show: once the queue is
\* empty every engine order is an order of the translator, at its price and
\* with no more than its shares.  This holds through crossed books, where the
\* engine executes what the exchange did not, and through refused orders; only
\* a message that the live path lost can break it.
EngineWithinFeed ==
  out = <<>> /\ inbound = <<>> /\ engine.at = "pop" /\ ~lost =>
    \A i \in DOMAIN book :
      /\ book[i].id \in DOMAIN tr
      /\ LET o == tr[book[i].id]
         IN book[i].side = EngineSide(o.side) /\ book[i].price = o.price * 100 /\ book[i].qty <= o.qty

\* The queue of a level is in the order of the references, whether the engine
\* has seen every message or was started from a snapshot: snapshot() claims to
\* preserve time priority, and a reduction must not lose it.  The replay's
\* comparison does not look at this.
PriorityKept ==
  ~crossed /\ ~lost =>
    \A i, j \in DOMAIN book :
      i < j /\ book[i].side = book[j].side /\ book[i].price = book[j].price
        => book[i].id < book[j].id

\* Exit code 0 means more than the comparison looks at: not only the levels,
\* the orders themselves are the same, with the same quantities.
ExitZeroExact ==
  exit = 0 /\ mode \in {"replay", "replay_late"} =>
    {book[i] : i \in DOMAIN book} =
      {[id |-> r, side |-> EngineSide(tr[r].side), price |-> tr[r].price * 100, qty |-> tr[r].qty] :
         r \in DOMAIN tr}

\* Exit code 1 is never a false alarm: the book was crossed while the engine
\* had it, an order did not fit, or the engine was not waited for.
DisagreementHasCause == exit = 1 => crossed \/ overflowed \/ timedOut

\* LIMITATIONS.md: "replay detects overflow and reports it (exit 4)".
OverflowReported ==
  mode \in {"replay", "replay_late"} /\ exit \in {0, 1} => ~overflowed

\* Every run of either program ends.
Terminates == <>(exit # -1)
=============================================================================
