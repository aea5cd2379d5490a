--------------------------- MODULE MarketMakerDemo ---------------------------
(***************************************************************************)
(* tools/run_market_maker_demo: one thread submits noise orders in         *)
(* batches, keeps a quote of its own in the market and reads the execution *)
(* reports; the engine's thread matches.  The two share the inbound and    *)
(* the outbound queue and the engine's message counter.                    *)
(*                                                                         *)
(* wait_caught_up() is modelled by its two steps, emptying the report      *)
(* queue and then reading the counter: reports may arrive in between.      *)
(* submit_retry() spins while the queue is full, which is a step that      *)
(* waits for room.  Statistics and the verbose output are left out.        *)
(***************************************************************************)
EXTENDS OrderBook, MarketMaker

CONSTANTS
  NoisePrices, NoiseQtys,   \* what make_synthetic_stream() draws from
  Mid,                      \* its mid price
  NEvents,                  \* number of noise orders
  kRequoteEvery,            \* noise orders between two quotes
  InboundBound, OutboundBound,
  MayTimeOut                \* the 5 s of wait_caught_up() may pass

ASSUME DemoAssumption ==
  /\ NoisePrices \subseteq Nat /\ NoiseQtys \subseteq Nat \ {0} /\ Mid \in Nat
  /\ {NEvents, kRequoteEvery, InboundBound, OutboundBound} \subseteq Nat \ {0}
  /\ MayTimeOut \in BOOLEAN

VARIABLES
  at,          \* where the demo's thread is
  then,        \* where it goes on when wait_caught_up() returns
  closing,     \* the noise is used up and the last quote is being withdrawn
  noise,       \* noise orders submitted
  quotes,      \* current_bid_id and current_ask_id, 0 for none
  prices,      \* the quote compute_quote() returned
  nextId,      \* next_mm_id
  mm,          \* the market maker
  lastTrade,
  submitted,   \* submitted_total
  engine,      \* the engine's thread: where it is, the order it has in hand
  processed,   \* messages_processed()
  inbound, outbound, book,
  late,        \* history: a wait_caught_up() ended at its deadline
  dropped,     \* history: a report was refused by a full outbound queue
  traded,      \* history: quantity our orders have executed, per side
  booked,      \* history: quantity the market maker has recorded, per side
  cash         \* history: money received less money paid for what it recorded

thread  == <<at, then, closing, noise, quotes, prices, nextId, late>>
account == <<mm, lastTrade, booked, cash>>
engineVars == <<engine, processed, book, dropped, traded>>
vars == <<thread, account, engineVars, submitted, inbound, outbound>>

Init ==
  /\ at = "noise" /\ then = "noise" /\ closing = FALSE
  /\ noise = 0
  /\ quotes = [s \in BookSides |-> 0]
  /\ prices = [s \in BookSides |-> PRICE_INVALID]
  /\ nextId = NEvents + 1
  /\ mm = NewMarketMaker
  /\ lastTrade = Mid
  /\ submitted = 0 /\ processed = 0
  /\ engine = Polling
  /\ inbound = <<>> /\ outbound = <<>> /\ book = <<>>
  /\ late = FALSE /\ dropped = FALSE
  /\ traded = [s \in BookSides |-> 0] /\ booked = [s \in BookSides |-> 0]
  /\ cash = 0
----------------------------------------------------------------------------
(***************************************************************************)
(* The demo's thread.                                                      *)
(***************************************************************************)
\* Faulty variant: the message is queued without a look at the space left.
SubmitOverruns(m) ==
  /\ inbound' = Append(inbound, m)
  /\ submitted' = submitted + 1

\* submit_retry(): the step waits until the queue has room.
Submit(m) ==
  /\ Len(inbound) < InboundBound
  /\ inbound' = Append(inbound, m)
  /\ submitted' = submitted + 1

NewLimit(id, side, price, qty) ==
  [msg_type |-> "NewOrder", order_id |-> id, side |-> side, price |-> price, qty |-> qty]

\* Where the quote of a side is withdrawn, and where it is posted.
CancelAt == [Buy |-> "cancelBuy", Sell |-> "cancelSell"]
PostAt   == [Buy |-> "postBuy", Sell |-> "postSell"]

\* wait_caught_up(), to go on at place.
WaitThen(place) == at' = "drain" /\ then' = place

\* A noise order, numbered from 1; its side alternates.  The batch ends after
\* kRequoteEvery orders, or with the stream.
Noise ==
  /\ at = "noise"
  /\ \E price \in NoisePrices, qty \in NoiseQtys :
       Submit(NewLimit(noise + 1, IF noise % 2 = 0 THEN "Buy" ELSE "Sell", price, qty))
  /\ noise' = noise + 1
  /\ IF noise' % kRequoteEvery = 0 \/ noise' = NEvents THEN WaitThen("cancelBuy")
                                                      ELSE UNCHANGED <<at, then>>
  /\ UNCHANGED <<closing, quotes, prices, nextId, late, account, engineVars, outbound>>

\* drain_reports(): one report.  tail is the loop of the last two seconds.
Drain ==
  /\ at \in {"drain", "tail"} /\ outbound # <<>>
  /\ LET rpt == Head(outbound).rpt
         after == OnFill(mm, rpt)
         signed == after.position - mm.position
     IN /\ mm' = after
        /\ lastTrade' = rpt.exec_price
        /\ booked' = [booked EXCEPT ![IF signed > 0 THEN "Buy" ELSE "Sell"] = @ + Magnitude(signed)]
        /\ cash' = cash - signed * rpt.exec_price
  /\ outbound' = Tail(outbound)
  /\ UNCHANGED <<thread, engineVars, submitted, inbound>>

\* poll_report() found nothing; the counter is read next.
Drained ==
  /\ at = "drain" /\ outbound = <<>>
  /\ at' = "counter"
  /\ UNCHANGED <<then, closing, noise, quotes, prices, nextId, late, account, engineVars,
                 submitted, inbound, outbound>>

\* Faulty variant: waits for one message more than was submitted.
CaughtUpNever ==
  /\ at = "counter"
  /\ at' = IF processed > submitted THEN then ELSE "drain"
  /\ UNCHANGED <<then, closing, noise, quotes, prices, nextId, late, account, engineVars,
                 submitted, inbound, outbound>>

\* The counter has caught up, or the loop goes round again.
CaughtUp ==
  /\ at = "counter"
  /\ at' = IF processed >= submitted THEN then ELSE "drain"
  /\ UNCHANGED <<then, closing, noise, quotes, prices, nextId, late, account, engineVars,
                 submitted, inbound, outbound>>

\* The deadline of wait_caught_up() has passed: it returns without a word.
TimeOut ==
  /\ MayTimeOut /\ at = "drain"
  /\ at' = then /\ late' = TRUE
  /\ UNCHANGED <<then, closing, noise, quotes, prices, nextId, account, engineVars,
                 submitted, inbound, outbound>>

\* Faulty variant: the old quotes are left in the market.
CancelNothing(side) ==
  /\ at = CancelAt[side]
  /\ IF side = "Buy" THEN at' = "cancelSell" /\ UNCHANGED then
                     ELSE WaitThen(IF closing THEN "tail" ELSE "quote")
  /\ UNCHANGED <<closing, noise, quotes, prices, nextId, late, account, engineVars,
                 submitted, inbound, outbound>>

\* Faulty variant: the thread does not wait for its cancels.
CancelHastily(side) ==
  /\ at = CancelAt[side]
  /\ \/ quotes[side] = 0 /\ UNCHANGED <<submitted, inbound>>
     \/ quotes[side] # 0 /\ Submit([msg_type |-> "CancelOrder", order_id |-> quotes[side]])
  /\ at' = IF side = "Buy" THEN "cancelSell" ELSE IF closing THEN "tail" ELSE "quote"
  /\ UNCHANGED <<then, closing, noise, quotes, prices, nextId, late, account, engineVars, outbound>>

\* Withdraw the quote of one side, if there is one.  The bid goes first; after
\* the ask the thread waits, then quotes again or, at the end, winds up.
Cancel(side) ==
  /\ at = CancelAt[side]
  /\ \/ quotes[side] = 0 /\ UNCHANGED <<submitted, inbound>>
     \/ quotes[side] # 0 /\ Submit([msg_type |-> "CancelOrder", order_id |-> quotes[side]])
  /\ IF side = "Buy" THEN at' = "cancelSell" /\ UNCHANGED then
                     ELSE WaitThen(IF closing THEN "tail" ELSE "quote")
  /\ UNCHANGED <<closing, noise, quotes, prices, nextId, late, account, engineVars, outbound>>

\* compute_quote(last_trade).
MakeQuote ==
  /\ at = "quote"
  /\ prices' = ComputeQuote(mm, lastTrade)
  /\ quotes' = [s \in BookSides |-> 0]
  /\ at' = "postBuy"
  /\ UNCHANGED <<then, closing, noise, nextId, late, account, engineVars, submitted, inbound, outbound>>

\* Post one side of the quote: submit it, then register it.
Post(side) ==
  /\ at = PostAt[side]
  /\ \/ prices[side] = PRICE_INVALID /\ UNCHANGED <<submitted, inbound, mm, quotes, nextId>>
     \/ /\ prices[side] # PRICE_INVALID
        /\ Submit(NewLimit(nextId, side, prices[side], QuoteQty))
        /\ mm' = RegisterOrder(mm, nextId, side)
        /\ quotes' = [quotes EXCEPT ![side] = nextId]
        /\ nextId' = nextId + 1
  /\ IF side = "Buy" THEN at' = "postSell" /\ UNCHANGED <<then, closing>>
     ELSE /\ closing' = (noise = NEvents)
          /\ WaitThen(IF closing' THEN "cancelBuy" ELSE "noise")
  /\ UNCHANGED <<noise, prices, late, lastTrade, booked, cash, engineVars, outbound>>

\* The last two seconds are over, and the final drain_reports() found nothing.
TailOver ==
  /\ at = "tail" /\ outbound = <<>>
  /\ at' = "stop"
  /\ UNCHANGED <<then, closing, noise, quotes, prices, nextId, late, account, engineVars,
                 submitted, inbound, outbound>>

\* stop() joins the engine's thread, which has processed what was queued.
Stop ==
  /\ at = "stop" /\ inbound = <<>> /\ engine.at = "pop"
  /\ at' = "done"
  /\ UNCHANGED <<then, closing, noise, quotes, prices, nextId, late, account, engineVars,
                 submitted, inbound, outbound>>
----------------------------------------------------------------------------
(***************************************************************************)
(* The engine's thread.                                                    *)
(***************************************************************************)
IsOurs(id) == id > NEvents

\* What our orders execute on side s when an order o meets the resting one r.
OurQty(o, r, qty, s) ==
  IF (IsOurs(o.id) /\ o.side = s) \/ (IsOurs(r.id) /\ r.side = s) THEN qty ELSE 0

\* stat_messages_; the loop that empties the queue after stop() leaves it alone.
CountMessage ==
  processed' \in {processed + 1} \cup (IF at = "stop" THEN {processed} ELSE {})

\* try_pop() and process_message(), up to the matching of a new order.
Pop ==
  /\ engine.at = "pop" /\ inbound # <<>>
  /\ engine' = InHand(Head(inbound))
  /\ book' = Amended(book, Head(inbound))
  /\ inbound' = Tail(inbound)
  /\ IF engine'.at = "pop" THEN CountMessage ELSE UNCHANGED processed
  /\ UNCHANGED <<thread, account, dropped, traded, submitted, outbound>>

\* One execution, and on_execution(): a report that finds the queue full is
\* dropped.  The report carries its place in history along.
Execute ==
  /\ engine.at = "match"
  /\ \E i \in Best(book, engine.order) :
       LET qty == FillQty(book, engine.order, i)
           rpt == ExecutionReport(book, engine.order, i)
       IN /\ book' = Hit(book, engine.order, i)
          /\ engine' = [engine EXCEPT !.order.qty = @ - qty]
          /\ traded' = [s \in BookSides |-> traded[s] + OurQty(engine.order, book[i], qty, s)]
          /\ IF Len(outbound) < OutboundBound
             THEN outbound' = Append(outbound, [rpt |-> rpt, traded |-> traded']) /\ UNCHANGED dropped
             ELSE dropped' = TRUE /\ UNCHANGED outbound
  /\ UNCHANGED <<thread, account, processed, submitted, inbound>>

\* The remainder rests or is refused, and the message is counted.
Count ==
  /\ engine.at = "match" /\ Best(book, engine.order) = {}
  /\ book' = Rested(book, engine.order)
  /\ CountMessage
  /\ engine' = Polling
  /\ UNCHANGED <<thread, account, dropped, traded, submitted, inbound, outbound>>

Demo ==
  \/ Noise \/ Drain \/ Drained \/ CaughtUp \/ TimeOut \/ MakeQuote \/ TailOver \/ Stop
  \/ \E s \in BookSides : Cancel(s) \/ Post(s)

Done == at = "done" /\ UNCHANGED vars

Next == Demo \/ Pop \/ Execute \/ Count \/ Done

Spec == Init /\ [][Next]_vars

\* A step of the engine's thread, seen from its queue and its place.
EngineMoves == engine.at = "pop" /\ inbound # <<>> /\ inbound' = Tail(inbound)

\* The operating system runs both threads.
FairSpec ==
  /\ Spec
  /\ WF_vars(Noise) /\ WF_vars(Drain) /\ WF_vars(Drained) /\ WF_vars(CaughtUp)
  /\ WF_vars(MakeQuote) /\ WF_vars(TailOver) /\ WF_vars(Stop)
  /\ \A s \in BookSides : WF_vars(Cancel(s)) /\ WF_vars(Post(s))
  /\ WF_inbound(EngineMoves) /\ WF_vars(Execute) /\ WF_vars(Count)
----------------------------------------------------------------------------
(***************************************************************************)
(* Properties.                                                             *)
(***************************************************************************)
TypeOK ==
  /\ at \in {"noise", "drain", "counter", "cancelBuy", "cancelSell", "quote", "postBuy", "postSell",
             "tail", "stop", "done"}
  /\ noise \in 0..NEvents /\ {closing, late, dropped} \subseteq BOOLEAN
  /\ {mm.position, mm.avg_cost, mm.realized, cash} \subseteq Int
  /\ \A id \in DOMAIN mm.open : id > NEvents /\ id < nextId /\ mm.open[id] \in BookSides
  /\ Len(inbound) <= InboundBound /\ Len(outbound) <= OutboundBound
  /\ processed <= submitted

\* "The engine is kept caught up throughout": when compute_quote() runs,
\* nothing is in flight in either direction and none of our orders rests in
\* the book, although wait_caught_up() reads the counter only after it has
\* stopped reading reports.  It takes both waits of a round.
QuoteOnSettledMarket ==
  at = "quote" /\ ~late =>
    /\ inbound = <<>> /\ outbound = <<>> /\ engine = Polling
    /\ \A i \in DOMAIN book : ~IsOurs(book[i].id)

\* The position the market maker keeps stays within its limit, whatever the
\* noise does to both quotes, as long as no wait gave up.
PositionWithinLimit == ~late => Magnitude(mm.position) <= PositionLimit

\* Our bid and our ask never trade with each other, nor a new quote with an
\* old one: the engine cannot prevent it, MarketDataMsg has no account.
NoSelfTrade ==
  \A i \in Best(book, engine.order) : ~(IsOurs(engine.order.id) /\ IsOurs(book[i].id))

\* A recorded fill is a fill of ours, in the direction we traded: on each side
\* the market maker never books more than its orders have executed, passive
\* fills included, whose report carries the other party's side.
NeverOverbooked == \A s \in BookSides : booked[s] <= traded[s]

\* Realised profit that is not the cash flow of the recorded fills with the open
\* position at average cost.
Unexplained == mm.realized - (cash + mm.position * mm.avg_cost)

\* Profit is cash flow, fill by fill: to open a position, to reduce it, to close
\* it and to pass through zero leaves nothing unexplained.  Only a fill that adds
\* to a position can, by the remainder of the division that blends the average,
\* which is less than one unit of price per unit of the new position.
ProfitIsCashFlow ==
  [][Unexplained' # Unexplained =>
       /\ mm.position * (mm'.position - mm.position) > 0
       /\ Magnitude(Unexplained' - Unexplained) < Magnitude(mm'.position)]_vars

\* The market maker knows its inventory: with nothing in flight and no report
\* dropped, position is what its orders have bought less what they have sold.
\* market_maker.hpp: on_fill() returns false only if a report "belongs to some
\* other participant entirely".
InventoryExact ==
  inbound = <<>> /\ outbound = <<>> /\ engine.at = "pop" /\ ~dropped =>
    mm.position = traded["Buy"] - traded["Sell"]

\* The demo ends.
DemoEnds == <>(at = "done")
=============================================================================
