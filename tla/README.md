# A TLA+ verification project for tick-to-trade

tick-to-trade takes a market-data feed from a multicast socket to a trade log:
datagrams are put in order and recovered when lost, decoded into order
messages, matched by an engine thread and logged by a drain thread. This
directory holds TLA+ models of that path, TLC configurations that check them on
small instances, and proofs that hold for every instance.

## 1. The system

```
 multicast ──────> MulticastReceiver ──> GapBuffer ──> ItchAdapter ──> Pipeline::submit
                            ^               │  on_retx_                     │
                            └─ replies ── RetransmitClient                  v
                                            │  ^                      SPSC inbound
                                            v  │                            │
                                     RerequestServer               MatchingEngine thread
                                                                      (OrderBook)
                                                                            │
                                        log sink <── drain thread <── SPSC outbound
```

The same engine is driven by two more programs: `replay_itch50` plays a day's ITCH file
into it, next to a reference book that judges the result, and
`run_market_maker_demo` trades against it with a market maker of its own.

| Component (source) | State | Operations | Hard part | What makes it correct |
|---|---|---|---|---|
| `GapBuffer` (`udp-multicast-receiver/include/feed/gap_buffer.hpp`) | session, next expected number, high-water mark, ring of out-of-order slots, open loss episode and its timers | `ingest`, `tick`, `reset` | losses, repeats, reordering, truncated and re-packetised datagrams, session rollover in mid-episode, slot aliasing | in order, once; slots unambiguous; an episode is open exactly while something is missing; requests name only what is missing |
| `RetransmitClient`, `RerequestServer`, `send_live_itch` | none / stored messages / what has been published | `send`, `poll` / `record_packet`, `poll` / publish, heartbeats, End of Session | lost requests and replies, partial answers, answers after a retry, a sender that fails or leaves | every session is completed in the end; `session_complete()` never lies |
| `MulticastReceiver` | time of the last tick | `recv_one`, `run` | three callers with clock readings of their own | pacing in real time |
| `SPSCQueue` (`options-engine/include/core/spsc_queue.hpp`) | slots, two positions | `try_push`, `try_pop` | two threads without a lock, stale positions, wrap-around | a bounded FIFO; no data race |
| `Pipeline`, `MatchingEngine` (lifecycle), `FileLogSink` and the programs that use them | two queues, two running flags, counters, receive-time map, log file | `start`, `submit_with_ts`, `wait_until_drained`, `stop`; run loop; drain loop | shutdown order, full queues, a second run | nothing accepted is left unprocessed, nothing lost after a wait, the log is whole, `stop` returns |
| `OrderBook` (`options-engine/src/core/order_book.cpp`) | resting orders by price and age | add, cancel, modify, match | capacity | price-time priority; judged through the two programs below |
| `itch50::RefBook`, `itch50::Translator`, `ItchAdapter`, `replay_itch50`, `run_live_pipeline` | orders by reference twice, levels, the engine's queue and book | decode, apply, translate, snapshot, send, compare | two books kept apart, a replace that becomes two messages, a late snapshot, crossed feeds, a full engine, a wait that times out | the books do not drift; the exit code is earned |
| `MarketMaker`, `run_market_maker_demo` | position, average cost, realised profit, open orders; current quote | `compute_quote`, `register_order`, `on_fill`; the requote loop | fills racing cancels, passive fills, integer averages | quotes on a settled market, position inside the limit, no trade with itself, profit is cash flow |
| `FeedArbitrator`, `IOURingLogger`, `MpscQueue`, `MpmcQueue`, `MultiSymbolEngine`, `ExecutionLayer`, ... | | | vendored, in no program of the default build | not modelled |
| allocators, NUMA, histograms, byte layouts | | | I/O and measurement | not modelled |

`PROJECT.json` lists every component with its status, and under `hazards` what
is hard to test in each, with the property that covers it or a note.

## 2. Modules

| Module | Models | Composes |
|---|---|---|
| `GapBuffer` | `feed::GapBuffer` under the most general environment | |
| `FeedRecovery` | sender, lossy line, request server, retransmit client | extends `GapBuffer` |
| `FeedReceiver` | the receive loop and its two clocks | extends `GapBuffer` |
| `BoundedFifo` | what a bounded queue promises | |
| `SpscQueue` | `engine::SPSCQueue`, the engine's inbound and outbound ring | implements `BoundedFifo` |
| `Pipeline` | `hft::Pipeline`, the threads of `MatchingEngine`, the log, the programs that call it | queues as in `BoundedFifo` |
| `OrderBook` | matching, cancel, modify, capacity, depth, as functions of a book | |
| `Itch50` | `RefBook` and `Translator`, as functions of their state | |
| `ItchReplay` | `replay_itch50`, and the live path through `ItchAdapter`, with the engine thread | extends `OrderBook`, `Itch50` |
| `MarketMaker` | `hft::MarketMaker`, as functions of its state | |
| `MarketMakerDemo` | `run_market_maker_demo` with the engine thread | extends `OrderBook`, `MarketMaker` |
| `DataLemmas` | lemmas the proofs share: `%` on ring positions, least elements, removal from a sequence, sums over a finite set | |
| `GapBufferProofs`, `FeedRecoveryProofs`, `FeedReceiverProofs`, `SpscQueueProofs`, `PipelineProofs`, `MarketMakerDemoProofs`, `ItchReplayProofs` | theorems | |
| `MC*` | bounds and inputs for TLC | |

**GapBuffer.** The members of the C++ object are the fields of the record `gb`.
Each private method is an operator from record to record (`CheckSession`,
`SyncSequence`, `NoteHighWater`, `HandleGap`, `UpdateGapState`,
`CheckGapTimeout`, `MissingRun`, ...) and `ingest()` composes them in the order
of the code. The loop over a datagram's messages is a sequence of steps
(`WalkSkip`, `WalkDeliver`, `WalkBuffer`, with `flush_buffer()` after each
delivery), one per callback, and nothing else happens until it ends; `ingest()`
is not reentrant in the code either. A message body is the pair of session and
number under which it was published, so a mixed-up slot is visible. Clock
subtraction wraps at `ClockModulus`, as `uint64_t` does at 2^64. Statistics are
left out.

**FeedRecovery** is `send_live_itch` against `run_live_pipeline`. The network is
sets of datagrams: the line keeps every datagram, so any may arrive late,
repeatedly or never; requests and replies can be lost. The sender records a
message with the server before it sends it, gives up when `sendto()` fails
(`SendFails`), then lingers with heartbeats, ends the session and leaves, and
its control packets announce `n_msgs` whatever happened. **FeedReceiver** gives
each caller of the buffer the clock it really uses.

**SpscQueue.** `try_push` and `try_pop` are cut at each access the other thread
can see. A load of the other side's position returns any value between the last
one that thread has seen and the current one: what acquire loads of one atomic
variable allow. Slot accesses are plain, so `NoDataRace` is an obligation.

**Pipeline.** Three threads, step by step. The queues are atomic FIFOs, which
`SpscQueue` justifies; flags and counters are sequentially consistent, which
holds for these accesses on x86, the only target of the run loop (it executes
`PAUSE`). By the C++ memory model alone the relaxed message counter would not
order the outbound queue before the wait's end. The order book is the set of
orders that rest; a new order executes against any of them, which includes
every combination of price, side and quantity. What the programs do differently
is a record of three fields (the clocks its receive times are of, whether it
resubmits what was refused, whether it waits before `stop()`), one record per
program, two for `run_live_pipeline` (with and without a re-request server), and
the run covers all of them; `wait_until_drained()` may always end at its
deadline. `recv_by_order` keeps, for an order id, the clock its receive time is
of, which is all the guard `t >= recv_ns` of `on_fill()` depends on: `t` is
`steady_clock`, an earlier reading of the same clock is never ahead of it, and a
kernel timestamp (`CLOCK_REALTIME`) always is, on a host whose wall clock is
set. A fill has two fields for this: the order whose entry it used, and the
order it recorded a sample for.

**OrderBook, Itch50, MarketMaker** have no variables: they are the pure part of
the code, operators from state to state. A book is the sequence of its resting
orders, oldest first; the queue of a price level is a subsequence of it, and the
slot pool, the level arrays and the id index are behind this view. Matching is
one step per execution, as each round of `try_match()` calls `match_cb_` once:
`Best` is the oldest order at the best price that crosses, `Hit` takes the
smaller of the two quantities from it. What the two programs' engine does with a
message is the same three steps in both: `Pop` takes it and applies a cancel or a
modification, `Execute` is one execution, `Count` lets the remainder rest and
counts the message.

**ItchReplay** has a reader and an engine thread with the inbound queue between
them. `mode` is what the program was started as: a replay from the first
message, one with `--engine-start-ns` (the engine begins from a snapshot), one
with `--no-engine`, or the live path. The feed may cross its own book, reduce any
order by any amount, carry bodies the parsers reject, and end anywhere;
references are unique and grow with arrival, as the comment on `snapshot()`
says they do.

**MarketMakerDemo** has the demo's thread, which submits noise, waits, cancels,
waits, quotes and waits again, and the engine thread. `wait_caught_up()` is two
steps, emptying the report queue and reading the counter, so that reports can
arrive between them; its five seconds may pass at any moment (`TimeOut`). The
history variables `traded`, `booked` and `cash` say what really
happened, for the properties; an entry of `outbound` carries, beside the report,
the value `traded` had when it was made.

## 3. Runs

| Run | Result | What it shows |
|---|---|---|
| `gap_buffer` | pass | `InOrderOnce`, `WindowSound`, `GapTracked`, `RequestsOnlyMissing`, `GapEventExact`, `NoEviction` for two sessions that take turns, every datagram of up to two messages, truncated or not, at any time, late joining, an oversize message, ticks and resets |
| `recovery` | pass | `EventuallyComplete`: every session is completed whatever is lost, unless the sender gives up or leaves; `CompleteIsTrue`: `session_complete()` never lies, not even about a session that was cut short; `RequestsExist`: the server never sees a request for a message not yet published |
| `receive_loop` | pass | debounce and retry interval hold in real time, and no request is overdue after a tick, when all clock readings come from one clock, also when a session rolls over while messages are missing |
| `receive_loop_kernel_clock` | violation | with kernel timestamps, the default, the debounce is void |
| `spsc_queue` | pass | the ring implements a FIFO of `kCapacity - 1` items, without a race; the comparison of positions is exact |
| `pipeline` | pass | all programs: with a wait nothing is lost but what a full queue refused; whenever `stop()` comes, all accepted messages are processed; a receive time is used once, an aggressor's at its first logged fill, and gives a sample there unless it is a kernel timestamp, which never does; the log has every report of the run; every call returns |
| `pipeline_stop_tail` | violation | stop without a wait can leave reports in the outbound queue |
| `pipeline_stamps` | violation | the receive time of a passively executed order is never erased |
| `itch_replay` | pass | the reference book's levels are the sums of its orders; reference book and translator never drift; the engine never holds what the feed does not show; time priority survives a snapshot; exit code 0 means the same orders and not only the same levels; exit code 1 always has a cause outside the engine's matching; every run ends |
| `itch_capacity` | violation | a snapshot larger than the engine's book is not reported as exit 4 |
| `market_maker` | pass | quotes are made with nothing in flight and none of our orders in the book; the recorded position stays inside the limit; no trade with itself, even after a wait gave up; nothing is booked that did not happen, on the side it happened; a fill changes realised profit by its cash flow, exactly unless it adds to a position, and then to within the remainder of one division; the demo ends |
| `mm_inventory` | violation | a passive quote filled in part is forgotten, and its later fills are not booked |

Each violation run states what a comment or document says of the code; the
`findings` of `PROJECT.json` quote it. `mm_inventory` explains why
`PositionWithinLimit` and `NeverOverbooked` speak of what the market maker has
recorded: that part is right, what is missing from the record is the finding.

Smaller disagreements met on the way, which no run is spent on:
`SessionChangeEvent::new_first_seq` is the number of the packet that revealed
the session, not "next_expected in the new session", when `expected_first_seq`
is set; with `accept_session_change`, which no program sets, a late datagram of
the previous session is itself taken for a rollover, so `InOrderOnce` is stated
per session epoch; a loss on one line of `FeedArbitrator` does fire a gap event,
although `docs/loss-handling.md` section 3 says it does not; on a second
`run_stream()` the wait is void, because `messages_processed()` counts from the
construction of the engine and `run_stream()` waits for the size of the new
stream only (`NothingLost` is stated for the first); the live path ignores the
result of `submit_with_ts()`, so that a full queue loses a feed message and the
engine's book is wrong from then on (`EngineWithinFeed` excludes those runs);
`send_live_itch` stops its request server two seconds after the last message,
complete or not.

Two more come out of properties that were first stated too generously.
`on_fill()` says that an order "gets its tick-to-trade sample recorded once, on
its FIRST fill" (`pipeline.hpp:167-170`). In `run_live_pipeline` the receive time
of a multicast message is the kernel's `CLOCK_REALTIME` stamp
(`receiver.hpp:129-132`), which the guard at `pipeline.hpp:181` compares with
`steady_clock`: the guard is false, the entry is erased, and no sample is
recorded, except for orders that came in a reply of the re-request server.
`FirstFillTimed` states just that, per program; it is the other end of the
finding of `receive_loop_kernel_clock`. And `apply_fill()` calls its result
"independent of fill ORDER within a position" and "exactly, unambiguously
verifiable on a round trip" (`market_maker.hpp:147-150`). The average is an
integer, cut towards zero: buy 1 at 1 and 1 at 2, sell 2 at 2, and the realised
profit is 2 where the cash flow is 1. `ProfitIsCashFlow` says which fills lose
something and how much one of them can lose; the losses of several add up, and
the instance of `market_maker` reaches flat positions whose profit is not their
cash flow.

**Sensitivity.** An operator whose comment begins with "Faulty variant" is not
used by any specification. Put in the place of the operator that follows it, it
makes TLC report the property named with it under `mutants` in `PROJECT.json`:
every property is one that a plausible slip in the code would break.

**Bounds.** Every bound is a constant of an MC module or cfg. The gap buffer's
behaviour depends on a number's distance to `next_expected`, to the high-water
mark and to the window; with two slots, numbers up to two past the window, and
up to two messages per datagram, every such relation occurs, including a slot
used twice and a hole wider than the ring. `MaxDelivered` stops new walks after
that many deliveries. Times 1 and 2 with a timeout and a retry interval of 1 give
timers that are due and not due, and readings that run backwards. The receive loop runs up to time 6 with a
retry interval of 2, and rolls over from the first session to the second only
(`OnlyForward`), at any point of a loss. Two sessions
are enough for a rollover and a rollover back; the symmetry of session names is
sound because the configuration names none. What a small ring cannot show, the
theorems cover: they hold for every capacity. Recovery publishes three messages
through a ring of two, with replies of two, so that a full request needs two
answers. The SPSC ring has four slots and nine pushes, so the positions wrap
twice. The pipeline runs up to four orders through queues of two and one slots,
so that both are full at some time and an aggressor executes against several
orders while the drain thread is anywhere. A replay has up to four book messages
(directory messages are not counted) and three orders on two prices, with room for
two orders in the engine: enough to
cross, to replace an order into another level, to overflow, and to be started
late. The demo submits five noise orders in batches of two, which makes two
quotes that are traded against after a first fill moved the position, with a
limit of three, one more than a quote, and a price range that reaches both sides
of it. With these bounds a position is built up from fills at prices whose
average is no integer, is closed with a remainder left in the profit, and is
reversed through zero.

**Fairness.** `FeedRecovery`: the receive thread spins (weak fairness of a walk
in progress; a due timer is eventually seen by a tick of a later time), one of
the three End of Session datagrams arrives and the network does not lose the
same kind of datagram for ever (strong fairness of its receipt, of a request
reaching the server and of a reply reaching the client). This is what retrying
can rely on and no more; the sender may still leave at any time after End of
Session, and the property says so. `Pipeline`: weak fairness of each thread; the
loops of the engine and the drain thread never block, and the caller yields. It
does not hold for a SCHED_FIFO engine thread that shares its core with another,
a case `MatchingEngine::start()` takes care to avoid. `ItchReplay` and
`MarketMakerDemo`: weak fairness of each step of the two threads. For the engine
it is stated on its effect (`EngineTakes`, `EngineMoves`: the head of the queue
is taken; `EngineReturns`: the engine is back at its queue), which is what the
property needs; nothing else takes a message from that queue, so it is fairness
of the engine's step. A deadline does pass, so the step that ends
`wait_until_drained()` is fair whatever the counter says; the timeout of
`wait_caught_up()` is not, and `DemoEnds` does not rest on it.

## 4. Proofs

All proofs are checked by TLAPS, for every value of the constants.

**GapBufferProofs** (assumption: `ConstantsAssumption`, types only; any capacity
from 1, any configuration, any set of datagrams and clock readings): `TypeOK`,
`InOrderOnce`, `WindowSound`, `GapTracked`, `RequestsOnlyMissing`,
`GapEventExact` and `NoEviction`. None of them is inductive alone. `IInv` adds
that `next_expected` never passes the high-water mark, that an object without a
position or session is empty and has delivered nothing in the current epoch
(`NothingYet`; otherwise a rollover could adopt messages of another session),
and, in a walk, that the datagram belongs to the current session and lies below
the high-water mark (`Underway`; otherwise a buffered message could lie above
it). The private methods get lemmas of their own about the record they return
(`Well`, `GapEq`), and one lemma per action combines them. `GapEventExact` and
`RequestsOnlyMissing` rest on lemmas on `first_present_after()` and
`missing_run()`: the least element of the scanned range exists by well-founded
induction on the naturals. `NoEviction` needs that two numbers less than a
window apart have different slots (`ModInjective` of `DataLemmas`).

**SpscQueueProofs** (assumption: a capacity of at least 2; a power of two is not
needed): `TypeOK`, `NoDataRace`, `RefusalsExact` and the refinement
`ImplementsFifo`. The invariant is

    r_view <= popped <= w_view <= pushed <= r_view + kCapacity - 1

together with "the positions are these counters modulo the capacity" and what
the two operations hold in their local variables. A stale `r_view` only makes
the ring look fuller, a stale `w_view` emptier, and the distance of less than
one capacity makes the masked positions, and the slots, distinct. For the
refinement, publishing maps to `Put`, releasing a slot to `Get`, everything else
to a stutter; the queue's contents are the slots between the two counters.

**FeedRecoveryProofs** (assumption: `RecoveryAssumption`; any number of messages,
any loss, any reply size): `RequestsExist` and `CompleteIsTrue`, on top of the
invariant of `GapBufferProofs`. Two parts of the assumption go beyond types and
are what the programs do: the live pipeline sets `expected_first_seq` to 1
(`run_live_pipeline.cpp:76`), and a reply of 1400 bytes has far fewer messages
than the End of Session mark 0xFFFF. The invariant says that every datagram
anywhere carries the messages of its numbers (`Carries`), that the line, the
requests and the replies stay inside what the sender has recorded (`SenderOK`,
`NetworkOK`), that the buffer's high-water mark is not past it (`Behind`), and
that delivery began at 1 (`FromStart`). `CompleteMeansDelivered` then follows,
because an episode is open while anything below the high-water mark is missing.

**FeedReceiverProofs** (assumptions as above, and a clock that is one clock):
`RequestPacing` and `NoOverdueRequest`, for every timeout, retry interval, tick
interval and pattern of traffic. The invariant `TimedInv` says that no reading
the buffer keeps is later than now (`ClockOK`), and that the buffer's own timers
are those of the history that the properties speak of, for the episode that is
open (`Episode`). The hypothesis `~KernelTimestamps` cannot be dropped: the run
`receive_loop_kernel_clock` shows both clocks at work. `NoOverdueRequest` also
needs a retry interval and a retransmit count that are not 0: with an interval
of 0 a request is due again at every check, so none is ever "less than the interval
ago", and with a count of 0 `missing_run()` is 0 and nothing is ever requested.
No program sets either to 0. The clock stays below 2^64. The first attempt at this
proof failed on a session change in mid-loss: with `expected_first_seq` set, the
new session's episode begins in the same call that ends the old one, and the
observer of the model had taken the two for one. `Opens` is the corrected
definition, and the run now has that case.

**PipelineProofs** (assumption: `PipelineAssumption`; any finite set of orders, any
streams, queue sizes and programs): `TypeOK`, `AcceptedProcessed`,
`LogComplete` and `NothingLost`. The invariant says where the engine and the
drain thread can be while the caller is at each of its places (`Lifecycle`: an
engine that has exited has an empty inbound queue, and no message is submitted
after the flag that lets it exit), that every accepted message is processed, in
hand or queued (`Counting`), and that the log is open and has one entry per fill
of the run while the threads run, with no fill of a run before it begins
(`Logging`). For `NothingLost` it adds that each report is logged, refused,
queued or in hand (`Flow`), that the counter moves only after the reports of its
message (`Counters`), what is left once the wait has seen the counter (`Waited`),
and that a drain thread that ends after that leaves nothing (`Draining`,
`Settled`).

`FirstFillTimed` is in the same module. Its assumption `DistinctNewOrders` says
that no stream adds the same order id twice, as the programs number their orders
(`bench_tick_to_trade.cpp` uses `i + 1`). A message is then in exactly one place
of its way through the two queues (`Passed`, `Waiting`, `Pending`, `Apart`), the
reports of an aggressor are adjacent and its first uses its entry
(`AggressorFirst`, `TakenOnce`), and its receive time is in the map until then
(`Stamped`, `TimedOnce`, `Untimed`). Whether the entry gives a sample follows
from the clocks of the program, which are the only ones in the map.

**ItchReplayProofs** (assumptions on the constants only; any number of messages,
references, prices and shares, any queue and book size, all four modes): all
seven invariants of the run.

- *The two books.* `TranslatorMirrorsRef` and `DepthIsAggregate`. One lemma per
  message type shows that `RefBook` and `Translator` compute the same map; `IInv`
  adds that both hold only references below the next one, because a reference
  that is live is ignored by one book and overwritten by the other, and that an
  order with no shares left is erased. For the levels, a sum over a finite set
  changes by what one element changes (`DataLemmas`, by induction on the number of
  elements, written as the absence of a least counterexample because the
  induction theorems of the library take an operator). Each operation of
  `RefBook` touches one level or, for a replacement, two, and `sub_level()` never
  takes more than is there: the shares of an order are part of the sum it is
  taken from.
- *Types and counters.* `Typed` gives `TypeOK`. `Progress` says where each message
  sent is (`Accounted`: counted, in the engine's hand or queued), and what the
  program has behind it at each of its places (`Staged`), so that a comparison
  after a wait that saw the counter is one of a quiet engine.
- *The trail.* `EngineWithinFeed` and `PriorityKept` speak of the book only, and
  the book lags behind the feed by whatever is queued. The invariant `Traced` is
  therefore about one sequence, `Trail`: the orders at rest, the order in hand,
  the inbound queue and what is still to be sent, all as messages. Sending a
  message, taking it and resting what is left of it do not change the trail; the
  feed only appends to it; a cancel, a modification, an execution and a refusal
  only thin it out (`CarriedOut`). `Faithful` holds through crossed books and
  refused orders, as long as no message was lost: ids are unique and were given
  out, an item that nothing behind it amends is an order of the feed and no
  larger than there, and a deleted order has its cancel behind it. A quiet
  engine has no such cancels left, which is `EngineWithinFeed`. `Exact` adds,
  while no book was crossed, that orders are in the order of their references,
  that quantities are the feed's and only shrink (an increase would lose the
  place in the queue), and that of two orders that would match the first is
  cancelled before the second arrives (`Apart`), so that the engine executes
  nothing. That is `PriorityKept`; a snapshot begins a trail with these
  properties because it is sorted by reference (`SnapshotBegins`). `Tells` adds,
  while nothing was refused, that every order of the feed is on the trail.
- *The exit codes.* `Verdict` records that exit code 0 was given for equal
  depths and 1 for unequal ones, and after either nothing moves. For
  `ExitZeroExact`, `Faithful` makes each order of the engine one of the feed,
  with at most its shares; if every level has the same total, no order can be
  missing or smaller (`SumInjection` of `DataLemmas`). This needs no hypothesis
  on crossed books or refusals. For `DisagreementHasCause`, `Exact` and `Tells`
  make the two sets of orders equal, and equal sets have equal sums
  (`SumBijection`).

`Traced` was checked by TLC on the instance of `itch_replay` before it was proved.

**MarketMakerDemoProofs** (assumptions: `MarketMakerAssumption` and
`DemoAssumption`, types only; any noise, any queue sizes from 1, any spread, skew,
quote size and limit): all six safety properties of the run. Each of four
inductive invariants uses the ones before it.

- `Typed` gives `TypeOK`. `Counting` says that each message is processed, in hand
  or queued, and that only the loop after `stop()` may leave one uncounted.
- `ProfitIsCashFlow` is an action property and needs only the types. `Extend()`
  is off by the remainder of `Quotient()`, which truncates toward zero
  (`QuotientRemainder`), and by nothing for a new position, where the remainder is
  a multiple of the divisor and smaller than it (`SmallMultiple`); `Reduce()` is
  exact whether it reduces, closes or reverses (`PartClosed`, `Reversed`). No
  other step touches position, cost, profit or cash. There are no other
  hypotheses, so it covers fills of any size and price.
- `Orderly` gives `NoSelfTrade`, and holds after a wait gave up as well. A new
  quote can meet an old one in the queue, so the reason is the order of the queue
  and not that there is only one quote: our ids ascend from the book over the
  engine's hand to the end of the queue (`BookAscending`, `QueueAscending`); an
  order of ours is the current quote of its side or a cancel for it follows
  (`Posted`); and of two that would meet, the cancel of the older lies before the
  younger (`NoCross`). Every step but `Post` leaves only orders that were there
  before, at most one place further on (`Inherits`), so one lemma per conjunct
  serves all of them.
- `Attributed` gives `NeverOverbooked`: the side under which the market maker has
  an id is the side of that order, in book, queue and report (`KnownOrders`,
  `KnownReports`), and what was booked plus the reports under way, in their
  order, never passes what was traded (`Chain`). Dropped reports only enlarge the
  difference.
- `Settled` and `Limited`, as long as no wait gave up, give `QuoteOnSettledMarket`
  and `PositionWithinLimit`; `~late` is a hypothesis of both properties, and the
  program does not promise them without it. While quotes are withdrawn only
  cancels are queued; when the counter has caught up nothing of ours is left.
  `Limited` then bounds the recorded position plus the reports under way plus an
  order still open (`Reach`, `OrdersWithinLimit`), with one open order per side.

**Only model-checked**: all liveness (`EventuallyComplete`, `CallsReturn`,
`Terminates`, `DemoEnds`), which needs fairness the prover does not handle. Every
invariant and every action property of a passing run is proved.

## 5. Plan

The safety properties of the passing runs are all theorems. What is left to prove
is the abstract side: a specification of what `Pipeline` promises its callers
(every accepted message processed once, in order, its reports logged in order),
for `Pipeline` to implement as `SpscQueue` implements `BoundedFifo`.

**Not modelled and why**: `FeedArbitrator`, `IOURingLogger`, `MpscQueue`,
`MpmcQueue`, `MultiSymbolEngine`, `ExecutionLayer`, `MarketDataIngestion`, the
feed's own order book and its decision engine are vendored and no program of the
default build uses them. Order types other than limit, self-trade prevention and
several symbols cannot be reached through the messages the programs send. The
slot pool and the hash index of the order book are data structures behind a
sequential interface. Byte layouts below the level of fields and counts, socket
set-up, CPU pinning, allocators, NUMA placement, histograms and performance
counters, file formats and printed output are I/O or measurement, and no
modelled state depends on them.
