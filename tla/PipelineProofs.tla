--------------------------- MODULE PipelineProofs ---------------------------
(***************************************************************************)
(* What stop() leaves behind and which samples are taken, for every        *)
(* stream, every queue size, every program and every outcome of matching.  *)
(***************************************************************************)
EXTENDS Pipeline, FiniteSetTheorems, SequenceTheorems, TLAPS

\* The caller is inside the stream it submits.
InRange ==
  /\ caller.stream <= Runs
  /\ caller.msg >= 1
  /\ caller.at = "push" => caller.msg <= Len(Stream)

\* Where the other threads can be while the caller is where it is.
Lifecycle ==
  /\ caller.at \in {"idle", "failed", "join_drain", "stopped"} => engine.at \in {"off", "exited"}
  /\ caller.at \in {"submit", "push", "wait", "stop", "stop_engine"} =>
       erunning /\ engine.at \in {"check", "pop", "exec"}
  /\ caller.at \in {"idle", "failed", "stopped"} => drain.at \in {"off", "exited"}
  /\ engine.at \in {"off", "exited"} => inbound = <<>>

\* The message the engine is working on.
InHand == IF engine.at \in {"exec", "rest_exec"} THEN 1 ELSE 0

\* Every accepted message is done, in hand or queued.
Counting == accepted = processed + InHand + Len(inbound)

\* The fills of the current run.
FillsNow == {i \in DOMAIN fills : fills[i].stream = caller.stream}

\* The log is open while the threads run and has one entry per fill; before a
\* run there is none of it.
Logging ==
  /\ \A i \in DOMAIN fills : fills[i].stream <= caller.stream
  /\ caller.at = "idle" => FillsNow = {}
  /\ caller.at \notin {"idle", "failed"} => sink.entries = Cardinality(FillsNow)
  /\ caller.at \notin {"idle", "failed", "stopped"} => sink.open
  /\ caller.at = "stopped" => ~sink.open

IInv == TypeOK /\ InRange /\ Lifecycle /\ Counting /\ Logging
----------------------------------------------------------------------------
LEMMA StreamsTyped ==
  ASSUME NEW k \in 1 .. Len(Streams)
  PROVE  Streams[k] \in Seq(Messages) /\ Len(Streams[k]) \in Nat
BY PipelineAssumption

LEMMA RunsTyped == Runs \in Nat /\ Runs >= 1 /\ Runs <= Len(Streams)
BY PipelineAssumption DEF Runs

LEMMA InitInv == Init => IInv
<1> SUFFICES ASSUME Init PROVE IInv
  OBVIOUS
<1>1. TypeOK
  <2>1. /\ caller \in [at: {"idle", "failed", "submit", "push", "wait", "stop", "stop_engine",
                           "join_engine", "join_drain", "stopped"},
                      stream: 1 .. Len(Streams), msg: Nat]
    BY RunsTyped DEF Init
  <2>2. /\ <<>> \in Seq(Reports) /\ <<>> \in Seq(Messages)
        /\ <<>> \in Seq(Fills)
    OBVIOUS
  <2>3. {running, erunning, timed_out} \subseteq BOOLEAN
    BY Zenon DEF Init
  <2>4. sink \in [open: BOOLEAN, entries: Nat]
    BY DEF Init
  <2>5. /\ Len(inbound) <= InboundBound /\ Len(outbound) <= OutboundBound
        /\ Len(drain.rpt) = IF drain.at \in {"fill", "last_fill"} THEN 1 ELSE 0
    BY PipelineAssumption DEF Init
  <2> QED BY <2>1, <2>2, <2>3, <2>4, <2>5 DEF Init, TypeOK
<1>2. InRange
  BY RunsTyped DEF Init, InRange
<1>3. Lifecycle /\ Counting
  BY DEF Init, Lifecycle, Counting, InHand
<1>4. Logging
  BY DEF Init, Logging, FillsNow
<1> QED BY <1>1, <1>2, <1>3, <1>4 DEF IInv

\* What process_message() can hand to match_cb_ and leave in the book.
LEMMA OutcomeTyped ==
  ASSUME NEW msg \in Messages, resting \subseteq OrderIds, NEW out \in ProcessMessage(msg)
  PROVE  out.reports \in Seq(Reports) /\ out.resting \subseteq OrderIds
<1> DEFINE o == msg.order_id
<1>1. o \in OrderIds
  BY DEF Messages
<1>2. ASSUME NEW makers \in SUBSET (resting \ {o}), NEW hit \in SetToSeqs(makers),
             out \in AddOrder(o, hit)
      PROVE  out.reports \in Seq(Reports) /\ out.resting \subseteq OrderIds
  <2>1. IsFiniteSet(makers) /\ Cardinality(makers) \in Nat
    BY FS_Subset, FS_CardinalityType, PipelineAssumption
  <2>2. hit \in [1 .. Cardinality(makers) -> makers]
    BY <1>2 DEF SetToSeqs
  <2>3. hit \in Seq(OrderIds)
    <3>1. hit \in [1 .. Cardinality(makers) -> OrderIds]
      BY <2>2
    <3> QED BY <2>1, <3>1
  <2>4. Len(hit) \in Nat /\ \A i \in 1 .. Len(hit) : hit[i] \in OrderIds
    BY <2>3
  <2>5. out.reports = [i \in 1 .. Len(hit) |-> [order_id |-> o, contra_order_id |-> hit[i]]]
    BY <1>2 DEF AddOrder
  <2>6. out.reports \in Seq(Reports)
    BY <1>1, <2>4, <2>5 DEF Reports
  <2>7. out.resting \subseteq OrderIds
    <3>1. hit # <<>> => Last(hit) \in OrderIds
      BY <2>3 DEF Last
    <3> QED BY <1>1, <1>2, <3>1 DEF AddOrder
  <2> QED BY <2>6, <2>7
<1>3. CASE msg.msg_type = "NewOrder"
  <2>1. out \in UNION {AddOrder(o, hit) : hit \in UNION {SetToSeqs(makers) :
                                              makers \in SUBSET (resting \ {o})}}
    BY <1>3 DEF ProcessMessage
  <2>2. PICK hit \in UNION {SetToSeqs(makers) : makers \in SUBSET (resting \ {o})} :
          out \in AddOrder(o, hit)
    BY <2>1
  <2>3. PICK makers \in SUBSET (resting \ {o}) : hit \in SetToSeqs(makers)
    BY <2>2
  <2> QED BY <1>2, <2>2, <2>3
<1>4. ASSUME NEW books, books \subseteq SUBSET OrderIds, out \in [reports: {<<>>}, resting: books]
      PROVE  out.reports \in Seq(Reports) /\ out.resting \subseteq OrderIds
  <2>1. out.reports = <<>> /\ out.resting \in books
    BY <1>4
  <2>2. <<>> \in Seq(Reports)
    OBVIOUS
  <2> QED BY <1>4, <2>1, <2>2
<1>5. CASE msg.msg_type = "CancelOrder"
  <2>1. out \in [reports: {<<>>}, resting: {resting \ {o}}]
    BY <1>5 DEF ProcessMessage
  <2> QED BY <1>4, <2>1
<1>6. CASE msg.msg_type = "ModifyOrder"
  <2>1. out \in [reports: {<<>>}, resting: {resting, resting \ {o}}]
    BY <1>6 DEF ProcessMessage
  <2> QED BY <1>4, <2>1
<1>7. CASE msg.msg_type = "Heartbeat"
  <2>1. out \in [reports: {<<>>}, resting: {resting}]
    BY <1>7 DEF ProcessMessage
  <2> QED BY <1>4, <2>1
<1> QED BY <1>3, <1>5, <1>6, <1>7 DEF Messages
----------------------------------------------------------------------------
(***************************************************************************)
(* The caller's thread.                                                    *)
(***************************************************************************)
\* The fills of a run are those of the same run while it goes on.
LEMMA SameFills ==
  ASSUME fills' = fills, caller'.stream = caller.stream
  PROVE  FillsNow' = FillsNow
BY DEF FillsNow

\* A step of the caller that only moves it on, and may change its flags.
LEMMA CallerMoves ==
  ASSUME IInv, CallerOnly, NEW place, Goto(place),
         place \in {"failed", "submit", "wait", "stop", "stop_engine", "join_engine", "join_drain"},
         program' = program, accepted' = accepted,
         {running', erunning', timed_out'} \subseteq BOOLEAN,
         caller.at \in {"idle", "failed", "join_drain", "stopped"} => place = "failed",
         place = "failed" => caller.at = "idle",
         place \in {"submit", "wait", "stop", "stop_engine"} =>
           erunning' /\ caller.at \in {"submit", "push", "wait", "stop"},
         place = "join_drain" => engine.at = "exited"
  PROVE  IInv'
<1>1. /\ caller' = [caller EXCEPT !.at = place] /\ caller'.at = place
      /\ caller'.stream = caller.stream /\ caller'.msg = caller.msg
  BY DEF Goto, IInv, TypeOK
<1>2. UNCHANGED <<engine, resting, messages, matches, processed, dropped, drain, fills, sink,
                  inbound, outbound, recv_by_order>>
  BY DEF CallerOnly, engineVars, drainVars
<1>3. Runs' = Runs /\ Stream' = Stream
  BY <1>1 DEF Runs, Stream
<1>4. TypeOK'
  <2>1. caller' \in [at: {"idle", "failed", "submit", "push", "wait", "stop", "stop_engine",
                          "join_engine", "join_drain", "stopped"},
                     stream: 1 .. Len(Streams), msg: Nat]
    BY <1>1 DEF IInv, TypeOK
  <2> QED BY <1>2, <1>3, <2>1 DEF IInv, TypeOK, Fills
<1>5. InRange'
  BY <1>1, <1>3 DEF IInv, InRange
<1>6. Lifecycle'
  BY <1>1, <1>2 DEF IInv, Lifecycle, TypeOK
<1>7. Counting'
  BY <1>2 DEF IInv, Counting, InHand
<1>8. Logging'
  BY <1>1, <1>2, SameFills DEF IInv, Logging, TypeOK
<1> QED BY <1>4, <1>5, <1>6, <1>7, <1>8 DEF IInv

LEMMA StartInv ==
  ASSUME IInv, Start
  PROVE  IInv'
<1>1. /\ caller.at = "idle" /\ caller' = [caller EXCEPT !.at = "submit"] /\ caller'.at = "submit"
      /\ caller'.stream = caller.stream /\ caller'.msg = caller.msg
  BY DEF Start, Goto, IInv, TypeOK
<1>2. /\ sink' = [open |-> TRUE, entries |-> 0]
      /\ engine' = [engine EXCEPT !.at = "check"] /\ engine'.at = "check"
      /\ drain' = [drain EXCEPT !.at = "check"] /\ drain'.at = "check" /\ drain'.rpt = drain.rpt
  BY DEF Start, SinkOpen, IInv, TypeOK
<1>3. /\ running' = TRUE /\ erunning' = TRUE
      /\ UNCHANGED <<program, accepted, timed_out, resting, messages, matches, processed, dropped,
                     fills, inbound, outbound, recv_by_order>>
  BY DEF Start
<1>4. Runs' = Runs /\ Stream' = Stream
  BY <1>1, <1>3 DEF Runs, Stream
<1>5. engine.at \in {"off", "exited"} /\ inbound = <<>> /\ drain.at \in {"off", "exited"}
  BY <1>1 DEF IInv, Lifecycle
<1>6. TypeOK'
  <2>1. caller' \in [at: {"idle", "failed", "submit", "push", "wait", "stop", "stop_engine",
                          "join_engine", "join_drain", "stopped"},
                     stream: 1 .. Len(Streams), msg: Nat]
    BY <1>1 DEF IInv, TypeOK
  <2>2. {running', erunning', timed_out'} \subseteq BOOLEAN
    BY <1>3, Zenon DEF IInv, TypeOK
  <2>3. /\ engine' \in [at: {"off", "check", "pop", "exec", "rest", "rest_exec", "exited"},
                        reports: Seq(Reports)]
        /\ drain' \in [at: {"off", "check", "poll", "fill", "last_poll", "last_fill", "exited"},
                       rpt: Seq(Reports)]
    BY <1>2 DEF IInv, TypeOK
  <2>4. Len(drain'.rpt) = IF drain'.at \in {"fill", "last_fill"} THEN 1 ELSE 0
    BY <1>2, <1>5 DEF IInv, TypeOK
  <2>5. sink' \in [open: BOOLEAN, entries: Nat]
    BY <1>2
  <2> QED BY <1>3, <1>4, <2>1, <2>2, <2>3, <2>4, <2>5 DEF IInv, TypeOK, Fills
<1>7. InRange'
  BY <1>1, <1>4 DEF IInv, InRange
<1>8. Lifecycle'
  BY <1>1, <1>2, <1>3 DEF Lifecycle
<1>9. Counting'
  BY <1>2, <1>3, <1>5 DEF IInv, Counting, InHand
<1>10. Logging'
  <2>1. FillsNow = {}
    BY <1>1 DEF IInv, Logging
  <2>2. FillsNow' = {}
    BY <1>1, <1>3, <2>1, SameFills
  <2>3. Cardinality(FillsNow') = 0
    BY <2>2, FS_EmptySet
  <2> QED BY <1>1, <1>2, <1>3, <2>3 DEF IInv, Logging
<1> QED BY <1>6, <1>7, <1>8, <1>9, <1>10 DEF IInv

LEMMA StampInv ==
  ASSUME IInv, Stamp
  PROVE  IInv'
<1>1. /\ caller.at = "submit" /\ caller' = [caller EXCEPT !.at = "push"] /\ caller'.at = "push"
      /\ caller'.stream = caller.stream /\ caller'.msg = caller.msg /\ caller.msg <= Len(Stream)
  BY DEF Stamp, Goto, IInv, TypeOK
<1>2. UNCHANGED <<program, running, erunning, accepted, timed_out, engine, resting, messages,
                  matches, processed, dropped, drain, fills, sink, inbound, outbound>>
  BY DEF Stamp, callerRest, engineVars, drainVars
<1>3. Runs' = Runs /\ Stream' = Stream
  BY <1>1, <1>2 DEF Runs, Stream
<1>4. TypeOK'
  <2>1. caller' \in [at: {"idle", "failed", "submit", "push", "wait", "stop", "stop_engine",
                          "join_engine", "join_drain", "stopped"},
                     stream: 1 .. Len(Streams), msg: Nat]
    BY <1>1 DEF IInv, TypeOK
  <2>2. Stream \in Seq(Messages) /\ caller.msg \in 1 .. Len(Stream)
    BY <1>1, StreamsTyped DEF IInv, TypeOK, InRange, Stream
  <2>3. Message \in Messages
    BY <2>2 DEF Message
  <2>4. DOMAIN recv_by_order' \subseteq OrderIds /\ recv_by_order' \in [DOMAIN recv_by_order' -> program.clocks]
    <3>1. Message.order_id \in OrderIds
      BY <2>3 DEF Messages
    <3>2. CASE \E clock \in program.clocks : recv_by_order' = Noted(Message.order_id, clock)
      BY <3>1, <3>2 DEF Noted, IInv, TypeOK
    <3>3. CASE UNCHANGED recv_by_order
      BY <3>3 DEF IInv, TypeOK
    <3> QED BY <3>2, <3>3 DEF Stamp
  <2> QED BY <1>2, <1>3, <2>1, <2>4 DEF IInv, TypeOK, Fills
<1>5. InRange'
  BY <1>1, <1>3 DEF IInv, InRange
<1>6. Lifecycle' /\ Counting'
  BY <1>1, <1>2 DEF IInv, Lifecycle, Counting, InHand
<1>7. Logging'
  BY <1>1, <1>2, SameFills DEF IInv, Logging
<1> QED BY <1>4, <1>5, <1>6, <1>7 DEF IInv

LEMMA SubmitInv ==
  ASSUME IInv, Submit
  PROVE  IInv'
<1>1. UNCHANGED <<program, running, erunning, timed_out, engine, resting, messages,
                  matches, processed, dropped, drain, fills, sink, outbound, recv_by_order>>
  BY DEF Submit, engineVars, drainVars
<1>2. caller.at = "push" /\ caller.msg \in Nat
  BY DEF Submit, IInv, TypeOK
<1>3. PICK n \in {caller.msg, caller.msg + 1} :
        caller' = [caller EXCEPT !.at = "submit", !.msg = n]
  BY DEF Submit
<1>4. /\ caller'.at = "submit" /\ caller'.stream = caller.stream
      /\ caller'.msg \in Nat /\ caller'.msg >= caller.msg
      /\ caller' \in [at: {"idle", "failed", "submit", "push", "wait", "stop", "stop_engine",
                          "join_engine", "join_drain", "stopped"},
                      stream: 1 .. Len(Streams), msg: Nat]
  <2>1. n \in Nat /\ n >= caller.msg
    BY <1>2
  <2> QED BY <1>3, <2>1 DEF IInv, TypeOK
<1>5. Runs' = Runs
  BY <1>1 DEF Runs
<1>6. /\ inbound' \in Seq(Messages) /\ Len(inbound') <= InboundBound
      /\ accepted' \in Nat /\ accepted' - Len(inbound') = accepted - Len(inbound)
  <2>1. inbound \in Seq(Messages) /\ Len(inbound) <= InboundBound /\ accepted \in Nat
        /\ InboundBound \in Nat
    BY PipelineAssumption DEF IInv, TypeOK
  <2>2. Message \in Messages
    <3>1. Stream \in Seq(Messages) /\ caller.msg \in 1 .. Len(Stream)
      BY <1>2, StreamsTyped DEF IInv, TypeOK, InRange, Stream
    <3> QED BY <3>1 DEF Message
  <2>3. CASE inbound' = Append(inbound, Message) /\ accepted' = accepted + 1 /\ Len(inbound) < InboundBound
    BY <2>1, <2>2, <2>3
  <2>4. CASE UNCHANGED <<inbound, accepted>>
    BY <2>1, <2>4
  <2> QED BY <2>3, <2>4 DEF Submit
<1>7. TypeOK'
  BY <1>1, <1>4, <1>5, <1>6 DEF IInv, TypeOK, Fills
<1>8. InRange'
  BY <1>2, <1>4, <1>5 DEF IInv, InRange
<1>9. Lifecycle'
  BY <1>1, <1>2, <1>4 DEF IInv, Lifecycle
<1>10. Counting'
  <2>1. InHand' = InHand /\ InHand \in Nat /\ processed' = processed
    BY <1>1 DEF InHand
  <2>2. /\ processed \in Nat /\ accepted \in Nat /\ Len(inbound) \in Nat /\ Len(inbound') \in Nat
    <3>1. inbound \in Seq(Messages) /\ processed \in Nat /\ accepted \in Nat
      BY DEF IInv, TypeOK
    <3> QED BY <1>6, <3>1, LenProperties
  <2>3. accepted = processed + InHand + Len(inbound)
    BY DEF IInv, Counting
  <2> HIDE DEF InHand
  <2>4. accepted' = processed' + InHand' + Len(inbound')
    BY <1>6, <2>1, <2>2, <2>3
  <2> QED BY <2>4 DEF Counting
<1>11. Logging'
  BY <1>1, <1>2, <1>4, SameFills DEF IInv, Logging
<1> QED BY <1>7, <1>8, <1>9, <1>10, <1>11 DEF IInv

LEMMA JoinDrainInv ==
  ASSUME IInv, JoinDrain
  PROVE  IInv'
<1>1. /\ caller.at = "join_drain" /\ drain.at = "exited" /\ caller' = [caller EXCEPT !.at = "stopped"]
      /\ caller'.at = "stopped" /\ caller'.stream = caller.stream /\ caller'.msg = caller.msg
      /\ sink' = [sink EXCEPT !.open = FALSE]
  BY DEF JoinDrain, Goto, SinkClose, IInv, TypeOK
<1>2. UNCHANGED <<program, running, erunning, accepted, timed_out, engine, resting, messages,
                  matches, processed, dropped, drain, fills, inbound, outbound, recv_by_order>>
  BY DEF JoinDrain, callerRest, engineVars
<1>3. Runs' = Runs
  BY <1>2 DEF Runs
<1>4. /\ sink' \in [open: BOOLEAN, entries: Nat] /\ sink'.entries = sink.entries /\ sink'.open = FALSE
  BY <1>1 DEF IInv, TypeOK
<1>5. TypeOK'
  <2>1. caller' \in [at: {"idle", "failed", "submit", "push", "wait", "stop", "stop_engine",
                          "join_engine", "join_drain", "stopped"},
                     stream: 1 .. Len(Streams), msg: Nat]
    BY <1>1 DEF IInv, TypeOK
  <2> QED BY <1>2, <1>3, <1>4, <2>1 DEF IInv, TypeOK, Fills
<1>6. InRange'
  BY <1>1, <1>3 DEF IInv, InRange
<1>7. Lifecycle' /\ Counting'
  BY <1>1, <1>2 DEF IInv, Lifecycle, Counting, InHand
<1>8. Logging'
  BY <1>1, <1>2, <1>4, SameFills DEF IInv, Logging
<1> QED BY <1>5, <1>6, <1>7, <1>8 DEF IInv

LEMMA NextStreamInv ==
  ASSUME IInv, NextStream
  PROVE  IInv'
<1>1. /\ caller.at = "stopped" /\ caller.stream < Runs
      /\ caller' = [at |-> "idle", stream |-> caller.stream + 1, msg |-> 1]
  BY DEF NextStream
<1>2. UNCHANGED <<program, running, erunning, accepted, timed_out, engine, resting, messages,
                  matches, processed, dropped, drain, fills, sink, inbound, outbound, recv_by_order>>
  BY DEF NextStream, callerRest, CallerOnly, engineVars, drainVars
<1>3. Runs' = Runs
  BY <1>2 DEF Runs
<1>4. caller.stream \in Nat /\ caller.stream >= 1 /\ caller.stream + 1 <= Runs
  BY <1>1, RunsTyped DEF IInv, TypeOK
<1>5. TypeOK'
  <2>1. caller' \in [at: {"idle", "failed", "submit", "push", "wait", "stop", "stop_engine",
                          "join_engine", "join_drain", "stopped"},
                     stream: 1 .. Len(Streams), msg: Nat]
    BY <1>1, <1>4, RunsTyped, PipelineAssumption
  <2> QED BY <1>2, <1>3, <2>1 DEF IInv, TypeOK, Fills
<1>6. InRange'
  BY <1>1, <1>3, <1>4 DEF InRange
<1>7. Lifecycle' /\ Counting'
  BY <1>1, <1>2 DEF IInv, Lifecycle, Counting, InHand
<1>8. Logging'
  <2>1. \A i \in DOMAIN fills : fills[i].stream \in Nat /\ fills[i].stream <= caller.stream
    <3>1. fills \in Seq(Fills)
      BY DEF IInv, TypeOK
    <3>2. \A i \in DOMAIN fills : fills[i].stream \in 1 .. Runs
      <4> DEFINE S == Fills
      <4>1. \A f \in S : f.stream \in 1 .. Runs
        BY DEF Fills
      <4>2. fills \in Seq(S)
        BY <3>1
      <4> HIDE DEF S
      <4>3. DOMAIN fills = 1 .. Len(fills) /\ \A i \in 1 .. Len(fills) : fills[i] \in S
        BY <4>2
      <4> QED BY <4>1, <4>3
    <3> QED BY <3>2, RunsTyped DEF IInv, Logging
  <2>2. \A i \in DOMAIN fills : fills[i].stream < caller.stream + 1
    BY <1>4, <2>1
  <2>3. FillsNow' = {}
    BY <1>1, <1>2, <1>4, <2>1, <2>2 DEF FillsNow
  <2> QED BY <1>1, <1>2, <1>4, <2>1, <2>2, <2>3 DEF Logging
<1> QED BY <1>5, <1>6, <1>7, <1>8 DEF IInv
----------------------------------------------------------------------------
(***************************************************************************)
(* The engine thread.                                                      *)
(***************************************************************************)
EnginePlaces == {"off", "check", "pop", "exec", "rest", "rest_exec", "exited"}

\* What a step of the engine thread has to keep.
LEMMA EngineMovesOn ==
  ASSUME IInv, UNCHANGED <<callerVars, drainVars, recv_by_order>>,
         engine.at \notin {"off", "exited"}, engine'.at # "off",
         engine' \in [at: EnginePlaces, reports: Seq(Reports)],
         erunning /\ engine.at \in {"check", "pop", "exec"} => engine'.at \in {"check", "pop", "exec"},
         engine'.at = "exited" => inbound' = <<>>,
         inbound' \in Seq(Messages), Len(inbound') <= InboundBound,
         outbound' \in Seq(Reports), Len(outbound') <= OutboundBound,
         resting' \subseteq OrderIds, {messages', matches', processed', dropped'} \subseteq Nat,
         processed' + InHand' + Len(inbound') = processed + InHand + Len(inbound)
  PROVE  IInv'
<1>1. UNCHANGED <<caller, program, running, erunning, accepted, timed_out, drain, fills, sink, recv_by_order>>
  BY DEF callerVars, callerRest, drainVars
<1>2. Runs' = Runs /\ Stream' = Stream
  BY <1>1 DEF Runs, Stream
<1>3. TypeOK'
  BY <1>1, <1>2 DEF IInv, TypeOK, EnginePlaces, Fills
<1>4. InRange'
  BY <1>1, <1>2 DEF IInv, InRange
<1>5. Lifecycle'
  BY <1>1 DEF IInv, Lifecycle
<1>6. Counting'
  BY <1>1 DEF IInv, Counting
<1>7. Logging'
  BY <1>1, SameFills DEF IInv, Logging
<1> QED BY <1>3, <1>4, <1>5, <1>6, <1>7 DEF IInv

\* What the invariant says of the variables the engine thread works on.
LEMMA EngineTyped ==
  ASSUME IInv
  PROVE  /\ engine \in [at: EnginePlaces, reports: Seq(Reports)]
         /\ inbound \in Seq(Messages) /\ Len(inbound) \in Nat /\ Len(inbound) <= InboundBound
         /\ outbound \in Seq(Reports) /\ Len(outbound) \in Nat /\ Len(outbound) <= OutboundBound
         /\ InboundBound \in Nat /\ OutboundBound \in Nat
         /\ resting \subseteq OrderIds
         /\ messages \in Nat /\ matches \in Nat /\ processed \in Nat /\ dropped \in Nat
<1>1. inbound \in Seq(Messages) /\ outbound \in Seq(Reports)
  BY DEF IInv, TypeOK
<1>2. Len(inbound) \in Nat /\ Len(outbound) \in Nat
  BY <1>1, LenProperties
<1> QED BY <1>1, <1>2, PipelineAssumption DEF IInv, TypeOK, EnginePlaces

\* try_pop takes one message off the queue into the engine's hands.
LEMMA TakeTyped ==
  ASSUME IInv, NEW place \in {"exec", "rest_exec"}, TakeMessage(place)
  PROVE  /\ engine' \in [at: EnginePlaces, reports: Seq(Reports)] /\ engine'.at = place
         /\ inbound' \in Seq(Messages) /\ Len(inbound') = Len(inbound) - 1
         /\ resting' \subseteq OrderIds
<1>1. inbound \in Seq(Messages) /\ inbound # <<>> /\ inbound' = Tail(inbound)
  BY EngineTyped DEF TakeMessage
<1>2. Head(inbound) \in Messages /\ Tail(inbound) \in Seq(Messages) /\ Len(Tail(inbound)) = Len(inbound) - 1
  BY <1>1, HeadTailProperties
<1>3. PICK out \in ProcessMessage(Head(inbound)) :
        engine' = [at |-> place, reports |-> out.reports] /\ resting' = out.resting
  BY DEF TakeMessage
<1>4. out.reports \in Seq(Reports) /\ out.resting \subseteq OrderIds
  BY <1>2, OutcomeTyped, EngineTyped
<1> QED BY <1>1, <1>2, <1>3, <1>4 DEF EnginePlaces

LEMMA EngineCheckInv ==
  ASSUME IInv, EngineCheck
  PROVE  IInv'
<1>1. /\ engine.at = "check" /\ engine' \in [at: EnginePlaces, reports: Seq(Reports)]
      /\ engine'.at = IF erunning THEN "pop" ELSE "rest"
  BY EngineTyped DEF EngineCheck, EnginePlaces
<1>2. UNCHANGED <<resting, messages, matches, processed, dropped, callerVars, drainVars,
                  inbound, outbound, recv_by_order>>
  BY DEF EngineCheck
<1>3. InHand' = InHand
  BY <1>1 DEF InHand
<1> QED BY <1>1, <1>2, <1>3, EngineMovesOn, EngineTyped

LEMMA EnginePopInv ==
  ASSUME IInv, EnginePop
  PROVE  IInv'
<1>1. /\ engine.at = "pop" /\ InHand = 0
      /\ UNCHANGED <<messages, matches, processed, dropped, callerVars, drainVars, outbound, recv_by_order>>
  BY DEF EnginePop, InHand
<1>2. CASE TakeMessage("exec")
  <2>1. /\ engine' \in [at: EnginePlaces, reports: Seq(Reports)] /\ engine'.at = "exec"
        /\ inbound' \in Seq(Messages) /\ Len(inbound') = Len(inbound) - 1 /\ resting' \subseteq OrderIds
    BY <1>2, TakeTyped
  <2>2. InHand' = 1
    BY <2>1 DEF InHand
  <2>3. /\ Len(inbound') <= InboundBound
        /\ processed' + InHand' + Len(inbound') = processed + InHand + Len(inbound)
    BY <1>1, <2>1, <2>2, EngineTyped
  <2> QED BY <1>1, <2>1, <2>3, EngineMovesOn, EngineTyped
<1>3. CASE NothingToTake("check")
  <2>1. /\ engine' \in [at: EnginePlaces, reports: Seq(Reports)] /\ engine'.at = "check"
        /\ UNCHANGED <<inbound, resting>>
    BY <1>3, EngineTyped DEF NothingToTake, EnginePlaces
  <2>2. InHand' = 0
    BY <2>1 DEF InHand
  <2> QED BY <1>1, <2>1, <2>2, EngineMovesOn, EngineTyped
<1> QED BY <1>2, <1>3 DEF EnginePop

LEMMA EngineRestInv ==
  ASSUME IInv, EngineRest
  PROVE  IInv'
<1>1. /\ engine.at = "rest" /\ InHand = 0
      /\ UNCHANGED <<messages, matches, processed, dropped, callerVars, drainVars, outbound, recv_by_order>>
  BY DEF EngineRest, InHand
<1>2. CASE TakeMessage("rest_exec")
  <2>1. /\ engine' \in [at: EnginePlaces, reports: Seq(Reports)] /\ engine'.at = "rest_exec"
        /\ inbound' \in Seq(Messages) /\ Len(inbound') = Len(inbound) - 1 /\ resting' \subseteq OrderIds
    BY <1>2, TakeTyped
  <2>2. InHand' = 1
    BY <2>1 DEF InHand
  <2>3. /\ Len(inbound') <= InboundBound
        /\ processed' + InHand' + Len(inbound') = processed + InHand + Len(inbound)
    BY <1>1, <2>1, <2>2, EngineTyped
  <2> QED BY <1>1, <2>1, <2>3, EngineMovesOn, EngineTyped
<1>3. CASE NothingToTake("exited")
  <2>1. /\ engine' \in [at: EnginePlaces, reports: Seq(Reports)] /\ engine'.at = "exited"
        /\ UNCHANGED <<inbound, resting>> /\ inbound = <<>>
    BY <1>3, EngineTyped DEF NothingToTake, EnginePlaces
  <2>2. InHand' = 0
    BY <2>1 DEF InHand
  <2> QED BY <1>1, <2>1, <2>2, EngineMovesOn, EngineTyped
<1> QED BY <1>2, <1>3 DEF EngineRest

LEMMA OnExecutionInv ==
  ASSUME IInv, OnExecution
  PROVE  IInv'
<1>1. /\ engine.at \in {"exec", "rest_exec"} /\ engine.reports # <<>>
      /\ engine' = [engine EXCEPT !.reports = Tail(@)] /\ matches' = matches + 1
      /\ UNCHANGED <<resting, messages, processed, callerVars, drainVars, inbound, recv_by_order>>
  BY DEF OnExecution
<1>2. engine.reports \in Seq(Reports)
  BY EngineTyped
<1>3. Head(engine.reports) \in Reports /\ Tail(engine.reports) \in Seq(Reports)
  BY <1>1, <1>2, HeadTailProperties
<1>4. engine' \in [at: EnginePlaces, reports: Seq(Reports)] /\ engine'.at = engine.at
  BY <1>1, <1>3, EngineTyped
<1>5. InHand' = InHand
  BY <1>4 DEF InHand
<1>6. outbound' \in Seq(Reports) /\ Len(outbound') <= OutboundBound /\ dropped' \in Nat
  <2>1. CASE Len(outbound) < OutboundBound /\ outbound' = Append(outbound, Head(engine.reports)) /\ dropped' = dropped
    <3>1. outbound' \in Seq(Reports) /\ Len(outbound') = Len(outbound) + 1
      BY <1>3, <2>1, EngineTyped, AppendProperties
    <3> QED BY <2>1, <3>1, EngineTyped
  <2>2. CASE dropped' = dropped + 1 /\ outbound' = outbound
    BY <2>2, EngineTyped
  <2> QED BY <2>1, <2>2 DEF OnExecution
<1> QED BY <1>1, <1>4, <1>5, <1>6, EngineMovesOn, EngineTyped

LEMMA MessageDoneInv ==
  ASSUME IInv, MessageDone
  PROVE  IInv'
<1>1. /\ engine.at \in {"exec", "rest_exec"} /\ processed' = processed + 1
      /\ UNCHANGED <<resting, matches, dropped, callerVars, drainVars, inbound, outbound, recv_by_order>>
  BY DEF MessageDone
<1>2. /\ engine' \in [at: EnginePlaces, reports: Seq(Reports)]
      /\ engine'.at = IF engine.at = "exec" THEN "check" ELSE "rest"
  BY EngineTyped DEF MessageDone, EnginePlaces
<1>3. messages' \in Nat
  BY EngineTyped DEF MessageDone
<1>4. InHand = 1 /\ InHand' = 0
  BY <1>1, <1>2 DEF InHand
<1>5. processed' + InHand' + Len(inbound') = processed + InHand + Len(inbound)
  BY <1>1, <1>4, EngineTyped
<1> QED BY <1>1, <1>2, <1>3, <1>5, EngineMovesOn, EngineTyped
----------------------------------------------------------------------------
(***************************************************************************)
(* The drain thread.                                                       *)
(***************************************************************************)
DrainPlaces == {"off", "check", "poll", "fill", "last_poll", "last_fill", "exited"}

\* What a step of the drain thread that handles no report has to keep.
LEMMA DrainMovesOn ==
  ASSUME IInv, UNCHANGED <<callerVars, engineVars, fills, sink, inbound, recv_by_order>>,
         drain.at \notin {"off", "exited"},
         drain' \in [at: DrainPlaces, rpt: Seq(Reports)],
         Len(drain'.rpt) = IF drain'.at \in {"fill", "last_fill"} THEN 1 ELSE 0,
         outbound' \in Seq(Reports), Len(outbound') <= OutboundBound
  PROVE  IInv'
<1>1. UNCHANGED <<caller, program, running, erunning, accepted, timed_out, engine, resting, messages,
                  matches, processed, dropped>>
  BY DEF callerVars, callerRest, engineVars
<1>2. Runs' = Runs /\ Stream' = Stream
  BY <1>1 DEF Runs, Stream
<1>3. TypeOK'
  BY <1>1, <1>2 DEF IInv, TypeOK, DrainPlaces, Fills
<1>4. InRange'
  BY <1>1, <1>2 DEF IInv, InRange
<1>5. Lifecycle' /\ Counting'
  BY <1>1 DEF IInv, Lifecycle, Counting, InHand
<1>6. Logging'
  BY <1>1, SameFills DEF IInv, Logging
<1> QED BY <1>3, <1>4, <1>5, <1>6 DEF IInv

LEMMA DrainTyped ==
  ASSUME IInv
  PROVE  /\ drain \in [at: DrainPlaces, rpt: Seq(Reports)]
         /\ Len(drain.rpt) = IF drain.at \in {"fill", "last_fill"} THEN 1 ELSE 0
BY DEF IInv, TypeOK, DrainPlaces

LEMMA DrainCheckInv ==
  ASSUME IInv, DrainCheck
  PROVE  IInv'
<1>1. /\ drain.at = "check" /\ UNCHANGED <<callerVars, engineVars, fills, sink, inbound, recv_by_order>>
      /\ outbound' = outbound
  BY DEF DrainCheck
<1>2. /\ drain' \in [at: DrainPlaces, rpt: Seq(Reports)] /\ drain'.rpt = drain.rpt
      /\ drain'.at \in {"poll", "last_poll"}
  BY DrainTyped DEF DrainCheck, DrainPlaces
<1> QED BY <1>1, <1>2, DrainTyped, EngineTyped, DrainMovesOn

LEMMA DrainPollInv ==
  ASSUME IInv, DrainPoll
  PROVE  IInv'
<1>1. /\ drain.at \in {"poll", "last_poll"}
      /\ UNCHANGED <<callerVars, engineVars, fills, sink, inbound, recv_by_order>>
  BY DEF DrainPoll
<1>2. CASE outbound # <<>> /\ outbound' = Tail(outbound)
           /\ drain' = [at |-> IF drain.at = "poll" THEN "fill" ELSE "last_fill", rpt |-> <<Head(outbound)>>]
  <2>1. /\ Head(outbound) \in Reports /\ Tail(outbound) \in Seq(Reports)
        /\ Len(Tail(outbound)) = Len(outbound) - 1
    BY <1>2, EngineTyped, HeadTailProperties
  <2>2. <<Head(outbound)>> \in Seq(Reports) /\ Len(<<Head(outbound)>>) = 1
    BY <2>1
  <2>3. /\ drain' \in [at: DrainPlaces, rpt: Seq(Reports)] /\ drain'.at \in {"fill", "last_fill"}
        /\ Len(drain'.rpt) = 1
    BY <1>2, <2>2 DEF DrainPlaces
  <2>4. outbound' \in Seq(Reports) /\ Len(outbound') <= OutboundBound
    BY <1>2, <2>1, EngineTyped
  <2> QED BY <1>1, <2>3, <2>4, DrainMovesOn
<1>3. CASE outbound' = outbound
           /\ drain' = [drain EXCEPT !.at = IF @ = "poll" THEN "check" ELSE "exited"]
  <2>1. /\ drain' \in [at: DrainPlaces, rpt: Seq(Reports)] /\ drain'.rpt = drain.rpt
        /\ drain'.at \in {"check", "exited"}
    BY <1>3, DrainTyped DEF DrainPlaces
  <2> QED BY <1>1, <1>3, <2>1, DrainTyped, EngineTyped, DrainMovesOn
<1> QED BY <1>2, <1>3 DEF DrainPoll

\* on_fill() adds one fill of this run and one entry to the log.
LEMMA OnFillInv ==
  ASSUME IInv, OnFill
  PROVE  IInv'
<1> DEFINE S == Fills
           new == Fill(drain.rpt[1])
<1>1. /\ drain.at \in {"fill", "last_fill"}
      /\ UNCHANGED <<caller, program, running, erunning, accepted, timed_out, engine, resting, messages,
                     matches, processed, dropped, inbound, outbound>>
      /\ fills' = Append(fills, new)
      /\ recv_by_order' = Restrict(recv_by_order, DOMAIN recv_by_order \ {TimedOrder(drain.rpt[1])})
      /\ sink' = IF sink.open THEN [sink EXCEPT !.entries = @ + 1] ELSE sink
      /\ drain' = [at |-> IF drain.at = "fill" THEN "check" ELSE "last_poll", rpt |-> <<>>]
  BY DEF OnFill, SinkLog, callerVars, callerRest, engineVars
<1>2. Runs' = Runs /\ Stream' = Stream
  BY <1>1 DEF Runs, Stream
<1>3. caller.at \notin {"idle", "failed", "stopped"}
  BY <1>1 DEF IInv, Lifecycle
<1>4. sink.open /\ sink \in [open: BOOLEAN, entries: Nat] /\ sink.entries = Cardinality(FillsNow)
  BY <1>3 DEF IInv, Logging, TypeOK
<1>5. /\ sink' \in [open: BOOLEAN, entries: Nat] /\ sink'.open = sink.open
      /\ sink'.entries = sink.entries + 1
  <2>1. sink' = [sink EXCEPT !.entries = @ + 1]
    BY <1>1, <1>4
  <2>2. sink.entries \in Nat /\ sink.entries + 1 \in Nat
    BY <1>4
  <2> QED BY <1>4, <2>1, <2>2
<1>6. new \in S /\ new.stream = caller.stream
  <2>1. drain.rpt \in Seq(Reports) /\ Len(drain.rpt) = 1
    BY <1>1, DrainTyped
  <2>2. drain.rpt[1] \in Reports
    BY <2>1
  <2>3. TimedOrder(drain.rpt[1]) \in OrderIds \cup {NoOrder}
    BY <2>2 DEF TimedOrder, Reports
  <2>4. caller.stream \in 1 .. Runs
    BY RunsTyped DEF IInv, TypeOK, InRange
  <2> QED BY <2>2, <2>3, <2>4 DEF Fill, Fills
<1>7. fills \in Seq(S) /\ caller.stream \in Nat
  BY DEF IInv, TypeOK
<1> HIDE DEF S, new
<1>8. /\ fills' \in Seq(S) /\ Len(fills) \in Nat /\ Len(fills') = Len(fills) + 1
      /\ DOMAIN fills = 1 .. Len(fills) /\ DOMAIN fills' = 1 .. Len(fills) + 1
      /\ \A i \in 1 .. Len(fills) : fills'[i] = fills[i]
      /\ fills'[Len(fills) + 1] = new
  BY <1>1, <1>6, <1>7, AppendProperties, LenProperties
<1>9. TypeOK'
  <2>1. drain' \in [at: DrainPlaces, rpt: Seq(Reports)]
        /\ Len(drain'.rpt) = IF drain'.at \in {"fill", "last_fill"} THEN 1 ELSE 0
    <3>1. <<>> \in Seq(Reports) /\ Len(<<>>) = 0
      OBVIOUS
    <3>2. drain'.at \in {"check", "last_poll"} /\ drain'.rpt = <<>>
      BY <1>1
    <3> QED BY <1>1, <3>1, <3>2 DEF DrainPlaces
  <2>2. /\ DOMAIN recv_by_order' \subseteq OrderIds
        /\ recv_by_order' \in [DOMAIN recv_by_order' -> program.clocks]
    BY <1>1 DEF Restrict, IInv, TypeOK
  <2>3. Fills' = Fills
    BY <1>2 DEF Fills
  <2> QED BY <1>1, <1>2, <1>5, <1>8, <2>1, <2>2, <2>3 DEF IInv, TypeOK, DrainPlaces, S
<1>10. InRange'
  BY <1>1, <1>2 DEF IInv, InRange
<1>11. Lifecycle' /\ Counting'
  BY <1>1, <1>3 DEF IInv, Lifecycle, Counting, InHand
<1>12. Logging'
  <2>1. FillsNow' = FillsNow \cup {Len(fills) + 1} /\ Len(fills) + 1 \notin FillsNow
    BY <1>1, <1>6, <1>8 DEF FillsNow
  <2>2. IsFiniteSet(FillsNow)
    <3>1. FillsNow \subseteq 1 .. Len(fills)
      BY <1>8 DEF FillsNow
    <3>2. IsFiniteSet(1 .. Len(fills))
      BY <1>8, FS_Interval
    <3> QED BY <3>1, <3>2, FS_Subset
  <2>3. Cardinality(FillsNow') = Cardinality(FillsNow) + 1
    BY <2>1, <2>2, FS_AddElement
  <2>4. \A i \in DOMAIN fills' : fills'[i].stream <= caller.stream
    BY <1>6, <1>7, <1>8 DEF IInv, Logging
  <2> QED BY <1>1, <1>3, <1>4, <1>5, <2>3, <2>4 DEF Logging
<1> QED BY <1>9, <1>10, <1>11, <1>12 DEF IInv
----------------------------------------------------------------------------
LEMMA CallerInv ==
  ASSUME IInv, Caller
  PROVE  IInv'
<1>1. {running, erunning, timed_out} \subseteq BOOLEAN
  BY DEF IInv, TypeOK
<1>2. caller.at \in {"submit", "push", "wait", "stop", "stop_engine"} => erunning
  BY DEF IInv, Lifecycle
<1>3. CASE StartFails
  BY <1>1, <1>3, CallerMoves DEF StartFails, callerRest
<1>4. CASE StreamEnds
  BY <1>1, <1>2, <1>4, CallerMoves DEF StreamEnds, callerRest
<1>5. CASE WaitUntilDrained
  <2>1. {running', erunning', timed_out'} \subseteq BOOLEAN
    BY <1>1, <1>5 DEF WaitUntilDrained
  <2> QED BY <1>2, <1>5, <2>1, CallerMoves DEF WaitUntilDrained
<1>6. CASE Stop
  <2>1. {running', erunning', timed_out'} \subseteq BOOLEAN
    BY <1>1, <1>6 DEF Stop
  <2> QED BY <1>2, <1>6, <2>1, CallerMoves DEF Stop
<1>7. CASE StopEngine
  <2>1. {running', erunning', timed_out'} \subseteq BOOLEAN
    BY <1>1, <1>7 DEF StopEngine
  <2> QED BY <1>7, <2>1, CallerMoves DEF StopEngine
<1>8. CASE JoinEngine
  BY <1>1, <1>8, CallerMoves DEF JoinEngine, callerRest
<1> QED BY <1>3, <1>4, <1>5, <1>6, <1>7, <1>8, StartInv, StampInv, SubmitInv, JoinDrainInv, NextStreamInv
        DEF Caller

LEMMA StutterInv ==
  ASSUME IInv, UNCHANGED vars
  PROVE  IInv'
<1>1. UNCHANGED <<caller, program, running, erunning, accepted, timed_out, engine, resting, messages,
                  matches, processed, dropped, drain, fills, sink, inbound, outbound, recv_by_order>>
  BY DEF vars, callerVars, callerRest, engineVars, drainVars
<1>2. Runs' = Runs /\ Stream' = Stream
  BY <1>1 DEF Runs, Stream
<1>3. TypeOK' /\ InRange'
  BY <1>1, <1>2 DEF IInv, TypeOK, InRange, Fills
<1>4. Lifecycle' /\ Counting'
  BY <1>1 DEF IInv, Lifecycle, Counting, InHand
<1>5. Logging'
  BY <1>1, SameFills DEF IInv, Logging
<1> QED BY <1>3, <1>4, <1>5 DEF IInv

LEMMA Inductive == Spec => []IInv
<1>1. ASSUME IInv, [Next]_vars
      PROVE  IInv'
  <2>1. CASE Engine
    BY <1>1, <2>1, EngineCheckInv, EnginePopInv, EngineRestInv, OnExecutionInv, MessageDoneInv DEF Engine
  <2>2. CASE Drain
    BY <1>1, <2>2, DrainCheckInv, DrainPollInv, OnFillInv DEF Drain
  <2> QED BY <1>1, <2>1, <2>2, CallerInv, StutterInv DEF Next
<1> QED BY <1>1, InitInv, PTL DEF Spec

\* Queues, thread states and counters have their types whatever is matched.
THEOREM TypeCorrect == Spec => []TypeOK
<1>1. IInv => TypeOK
  BY DEF IInv
<1> QED BY Inductive, <1>1, PTL

\* stop() returns only after the engine has processed every accepted message,
\* for every stream and every size of the inbound queue.
THEOREM NothingLeftUnprocessed == Spec => []AcceptedProcessed
<1>1. IInv => AcceptedProcessed
  <2> SUFFICES ASSUME IInv, Stopped PROVE inbound = <<>> /\ processed = accepted
    BY DEF AcceptedProcessed
  <2>1. engine.at \in {"off", "exited"} /\ inbound = <<>>
    BY DEF IInv, Lifecycle, Stopped
  <2>2. InHand = 0 /\ Len(inbound) = 0
    BY <2>1 DEF InHand
  <2>3. accepted = processed + InHand + Len(inbound) /\ processed \in Nat
    BY EngineTyped DEF IInv, Counting
  <2> QED BY <2>1, <2>2, <2>3
<1> QED BY Inductive, <1>1, PTL

\* When stop() returns the log is closed and has one entry for every report
\* that was drained in the run.
THEOREM LogIsComplete == Spec => []LogComplete
<1>1. IInv => LogComplete
  <2> SUFFICES ASSUME IInv, Stopped
               PROVE  sink = [open |-> FALSE, entries |-> Cardinality(FillsNow)]
    BY DEF LogComplete, FillsNow
  <2>1. sink \in [open: BOOLEAN, entries: Nat] /\ sink.entries = Cardinality(FillsNow) /\ ~sink.open
    BY DEF IInv, Logging, TypeOK, Stopped
  <2> QED BY <2>1
<1> QED BY Inductive, <1>1, PTL
----------------------------------------------------------------------------
(***************************************************************************)
(* What a caller that waits can rely on.  The counter it waits for runs    *)
(* behind the messages processed, and in a first run no more messages are  *)
(* accepted than the stream has, so a wait that ends in time leaves the    *)
(* engine with nothing to do: no report is queued behind the drain thread. *)
(***************************************************************************)
\* Every match is a report that was drained, is in the drain thread's hands,
\* is queued, or was refused.
Flow == Len(fills) + Len(drain.rpt) + Len(outbound) + dropped = matches

\* The counters against the place of the caller in its stream.
Counters ==
  /\ messages <= processed
  /\ caller.stream = 1 => accepted < caller.msg
  /\ caller.msg <= Len(Stream) + 1
  /\ caller.at = "wait" => caller.msg = Len(Stream) + 1

\* The drain thread is in its loop until stop(), and gone when stop() returns.
Draining ==
  /\ caller.at \in {"submit", "push", "wait", "stop"} => running /\ drain.at \in {"check", "poll", "fill"}
  /\ caller.at = "stopped" => drain.at = "exited"

\* The caller has waited, in time, in its first run.
Waited ==
  /\ caller.at \in {"stop", "stop_engine", "join_engine", "join_drain", "stopped"}
  /\ caller.stream = 1 /\ program.waits /\ ~timed_out

Settled == Waited => messages = accepted /\ (drain.at = "exited" => outbound = <<>>)

\* A step of the caller changes none of the engine's counters and moves no
\* report.
LEMMA CallerFrame ==
  ASSUME IInv, Caller
  PROVE  /\ UNCHANGED <<messages, matches, processed, dropped, fills, outbound>>
         /\ drain'.rpt = drain.rpt
<1>1. CASE Start
  BY <1>1 DEF Start, IInv, TypeOK
<1>2. CASE Submit
  BY <1>2 DEF Submit, engineVars, drainVars
<1>3. CASE Stamp
  BY <1>3 DEF Stamp, engineVars, drainVars
<1>4. CASE JoinDrain
  BY <1>4 DEF JoinDrain, engineVars
<1>5. CASE CallerOnly
  BY <1>5 DEF CallerOnly, engineVars, drainVars
<1> QED BY <1>1, <1>2, <1>3, <1>4, <1>5
        DEF Caller, StartFails, StreamEnds, WaitUntilDrained, Stop, StopEngine, JoinEngine, NextStream

\* A step of the engine changes nothing of the caller's, nor of the drain's.
LEMMA EngineFrame ==
  ASSUME Engine
  PROVE  UNCHANGED <<caller, program, running, erunning, accepted, timed_out, drain, fills, recv_by_order>>
BY DEF Engine, EngineCheck, EnginePop, EngineRest, OnExecution, MessageDone, callerVars, callerRest, drainVars

\* A step of the drain thread changes nothing of the caller's, nor of the engine's.
LEMMA DrainFrame ==
  ASSUME Drain
  PROVE  UNCHANGED <<caller, program, running, erunning, accepted, timed_out, engine, resting, messages,
                     matches, processed, dropped, inbound>>
BY DEF Drain, DrainCheck, DrainPoll, OnFill, callerVars, callerRest, engineVars

LEMMA StutterFrame ==
  ASSUME UNCHANGED vars
  PROVE  UNCHANGED <<caller, program, running, erunning, accepted, timed_out, engine, resting, messages,
                     matches, processed, dropped, drain, fills, inbound, outbound, recv_by_order>>
BY DEF vars, callerVars, callerRest, engineVars, drainVars

LEMMA FillsTyped ==
  ASSUME IInv
  PROVE  Len(fills) \in Nat
<1> DEFINE S == Fills
<1>1. fills \in Seq(S)
  BY DEF IInv, TypeOK
<1> HIDE DEF S
<1> QED BY <1>1, LenProperties

LEMMA FillTyped ==
  ASSUME IInv, OnFill
  PROVE  Fill(drain.rpt[1]) \in Fills
<1>1. drain.rpt \in Seq(Reports) /\ Len(drain.rpt) = 1
  BY DrainTyped DEF OnFill
<1>2. drain.rpt[1] \in Reports
  BY <1>1
<1>3. TimedOrder(drain.rpt[1]) \in OrderIds \cup {NoOrder}
  BY <1>2 DEF TimedOrder, Reports
<1>4. caller.stream \in 1 .. Runs
  BY RunsTyped DEF IInv, TypeOK, InRange
<1> QED BY <1>2, <1>3, <1>4 DEF Fill, Fills

LEMMA FlowStep ==
  ASSUME IInv, IInv', Flow, [Next]_vars
  PROVE  Flow'
<1>1. /\ Len(fills) \in Nat /\ Len(drain.rpt) \in Nat /\ Len(outbound) \in Nat
      /\ dropped \in Nat /\ matches \in Nat
  BY FillsTyped, DrainTyped, EngineTyped
<1>2. CASE UNCHANGED vars
  BY <1>2, StutterFrame DEF Flow
<1>3. CASE Caller
  BY <1>3, CallerFrame DEF Flow
<1>4. CASE EngineCheck \/ EnginePop \/ EngineRest \/ MessageDone
  <2>1. UNCHANGED <<fills, drain, outbound, dropped, matches>>
    BY <1>4 DEF EngineCheck, EnginePop, EngineRest, MessageDone, drainVars
  <2> QED BY <2>1 DEF Flow
<1>5. CASE OnExecution
  <2>1. UNCHANGED <<fills, drain>> /\ matches' = matches + 1
    BY <1>5 DEF OnExecution, drainVars
  <2>2. Len(fills') = Len(fills) /\ Len(drain'.rpt) = Len(drain.rpt)
    BY <2>1
  <2>3. Len(outbound') + dropped' = Len(outbound) + dropped + 1 /\ Len(outbound') \in Nat /\ dropped' \in Nat
    <3>1. CASE outbound' = Append(outbound, Head(engine.reports)) /\ dropped' = dropped
      <4>1. Head(engine.reports) \in Reports
        BY <1>5, EngineTyped, HeadTailProperties DEF OnExecution
      <4>2. Len(outbound') = Len(outbound) + 1
        BY <3>1, <4>1, EngineTyped, AppendProperties
      <4> QED BY <1>1, <3>1, <4>2
    <3>2. CASE dropped' = dropped + 1 /\ outbound' = outbound
      BY <1>1, <3>2
    <3> QED BY <1>5, <3>1, <3>2 DEF OnExecution
  <2>4. matches' = matches + 1
    BY <2>1
  <2>5. Len(fills) + Len(drain.rpt) + Len(outbound) + dropped = matches
    BY DEF Flow
  <2>6. Len(fills') + Len(drain'.rpt) + Len(outbound') + dropped' = matches'
    BY <1>1, <2>2, <2>3, <2>4, <2>5
  <2> QED BY <2>6 DEF Flow
<1>6. CASE DrainCheck
  <2>1. UNCHANGED <<fills, outbound, dropped, matches>> /\ drain'.rpt = drain.rpt
    BY <1>6, DrainTyped DEF DrainCheck, engineVars
  <2> QED BY <2>1 DEF Flow
<1>7. CASE DrainPoll
  <2>1. UNCHANGED <<fills, dropped, matches>>
    BY <1>7 DEF DrainPoll, engineVars
  <2>2. CASE outbound # <<>> /\ outbound' = Tail(outbound)
             /\ drain' = [at |-> IF drain.at = "poll" THEN "fill" ELSE "last_fill", rpt |-> <<Head(outbound)>>]
    <3>1. Len(outbound') = Len(outbound) - 1
      BY <2>2, EngineTyped, HeadTailProperties
    <3>2. Len(drain.rpt) = 0 /\ Len(drain'.rpt) = 1
      BY <1>7, <2>2, DrainTyped DEF DrainPoll
    <3> QED BY <1>1, <2>1, <3>1, <3>2 DEF Flow
  <2>3. CASE outbound' = outbound
             /\ drain' = [drain EXCEPT !.at = IF @ = "poll" THEN "check" ELSE "exited"]
    <3>1. drain'.rpt = drain.rpt
      BY <2>3, DrainTyped
    <3> QED BY <2>1, <2>3, <3>1 DEF Flow
  <2> QED BY <1>7, <2>2, <2>3 DEF DrainPoll
<1>8. CASE OnFill
  <2>1. UNCHANGED <<outbound, dropped, matches>>
    BY <1>8 DEF OnFill, engineVars
  <2>2. Len(drain.rpt) = 1 /\ Len(drain'.rpt) = 0
    BY <1>8, DrainTyped DEF OnFill
  <2>3. Len(fills') = Len(fills) + 1
    <3> DEFINE S == Fills
               new == Fill(drain.rpt[1])
    <3>1. fills' = Append(fills, new) /\ fills \in Seq(S)
      BY <1>8 DEF OnFill, IInv, TypeOK
    <3>2. new \in S
      BY <1>8, FillTyped
    <3> HIDE DEF S, new
    <3> QED BY <3>1, <3>2, AppendProperties
  <2> QED BY <1>1, <2>1, <2>2, <2>3 DEF Flow
<1> QED BY <1>2, <1>3, <1>4, <1>5, <1>6, <1>7, <1>8 DEF Next, Engine, Drain

LEMMA CountersStep ==
  ASSUME IInv, IInv', Counters, [Next]_vars
  PROVE  Counters'
<1>1. /\ messages \in Nat /\ processed \in Nat /\ accepted \in Nat /\ caller.msg \in Nat
      /\ caller.stream \in 1 .. Len(Streams) /\ Len(Stream) \in Nat /\ Len(Streams) \in Nat
  <2>1. accepted \in Nat /\ caller.msg \in Nat /\ caller.stream \in 1 .. Len(Streams)
    BY DEF IInv, TypeOK
  <2>2. Len(Streams) \in Nat /\ Len(Stream) \in Nat
    BY <2>1, StreamsTyped, PipelineAssumption DEF Stream
  <2> QED BY <2>1, <2>2, EngineTyped
<1>2. CASE UNCHANGED <<caller, accepted, messages, processed>>
  BY <1>2 DEF Counters, Stream
<1>3. CASE Engine
  <2>1. UNCHANGED <<caller, accepted>>
    BY <1>3, EngineFrame
  <2>2. messages' <= processed'
    <3>1. CASE UNCHANGED <<messages, processed>>
      BY <3>1 DEF Counters
    <3>2. CASE MessageDone
      BY <1>1, <3>2 DEF MessageDone, Counters
    <3> QED BY <1>3, <3>1, <3>2 DEF Engine, EngineCheck, EnginePop, EngineRest, OnExecution
  <2> QED BY <2>1, <2>2 DEF Counters, Stream
<1>4. CASE Caller
  <2>1. UNCHANGED <<messages, processed>>
    BY <1>4, CallerFrame
  <2>2. CASE Submit
    <3>1. caller.at = "push" /\ caller.msg <= Len(Stream)
      BY <2>2 DEF Submit, IInv, InRange
    <3>2. PICK n \in {caller.msg, caller.msg + 1} :
            /\ caller' = [caller EXCEPT !.at = "submit", !.msg = n]
            /\ accepted' = accepted \/ (accepted' = accepted + 1 /\ n = caller.msg + 1)
      <4>1. CASE accepted' = accepted + 1 /\ caller' = [caller EXCEPT !.at = "submit", !.msg = @ + 1]
        <5> WITNESS caller.msg + 1 \in {caller.msg, caller.msg + 1}
        <5> QED BY <4>1
      <4>2. ASSUME NEW n \in {caller.msg, caller.msg + 1}, accepted' = accepted,
                   caller' = [caller EXCEPT !.at = "submit", !.msg = n]
            PROVE  \E k \in {caller.msg, caller.msg + 1} :
                     /\ caller' = [caller EXCEPT !.at = "submit", !.msg = k]
                     /\ accepted' = accepted \/ (accepted' = accepted + 1 /\ k = caller.msg + 1)
        BY <4>2
      <4>3. CASE program.retries
        BY <2>2, <4>1, <4>2, <4>3 DEF Submit
      <4>4. CASE ~program.retries
        BY <2>2, <4>1, <4>2, <4>4 DEF Submit
      <4> QED BY <4>3, <4>4
    <3>3. caller'.at = "submit" /\ caller'.stream = caller.stream /\ caller'.msg = n
      BY <3>2 DEF IInv, TypeOK
    <3>4. Stream' = Stream
      BY <3>3 DEF Stream
    <3> QED BY <1>1, <2>1, <3>1, <3>2, <3>3, <3>4 DEF Counters
  <2>3. CASE NextStream
    <3>1. caller'.at = "idle" /\ caller'.stream = caller.stream + 1 /\ caller'.msg = 1
      BY <2>3 DEF NextStream
    <3>2. Len(Stream') \in Nat /\ caller'.stream # 1
      <4>1. caller'.stream \in 1 .. Len(Streams)
        BY DEF IInv, TypeOK
      <4> QED BY <1>1, <3>1, <4>1, StreamsTyped DEF Stream
    <3> QED BY <2>1, <3>1, <3>2 DEF Counters
  <2>4. ASSUME NEW place, Goto(place), place = "wait" => caller.at = "submit" /\ caller.msg > Len(Stream),
               accepted' = accepted
        PROVE  Counters'
    <3>1. caller'.at = place /\ caller'.stream = caller.stream /\ caller'.msg = caller.msg
      BY <2>4 DEF Goto, IInv, TypeOK
    <3>2. Stream' = Stream
      BY <3>1 DEF Stream
    <3> QED BY <1>1, <2>1, <2>4, <3>1, <3>2 DEF Counters
  <2>5. CASE StreamEnds
    BY <2>4, <2>5 DEF StreamEnds, callerRest
  <2>6. CASE Start \/ StartFails \/ Stamp \/ WaitUntilDrained \/ Stop \/ StopEngine \/ JoinEngine \/ JoinDrain
    BY <2>4, <2>6 DEF Start, StartFails, Stamp, WaitUntilDrained, Stop, StopEngine, JoinEngine,
                      JoinDrain, callerRest
  <2> QED BY <1>4, <2>2, <2>3, <2>5, <2>6 DEF Caller
<1> QED BY <1>2, <1>3, <1>4, DrainFrame, StutterFrame DEF Next

LEMMA DrainingStep ==
  ASSUME IInv, IInv', Draining, [Next]_vars
  PROVE  Draining'
<1>1. CASE Engine
  BY <1>1, EngineFrame DEF Draining
<1>2. CASE Drain
  <2>1. UNCHANGED <<caller, running>>
    BY <1>2, DrainFrame
  <2>2. caller.at # "stopped"
    BY <1>2 DEF Drain, DrainCheck, DrainPoll, OnFill, IInv, Lifecycle
  <2>3. running /\ drain.at \in {"check", "poll", "fill"} => drain'.at \in {"check", "poll", "fill"}
    BY <1>2, DrainTyped DEF Drain, DrainCheck, DrainPoll, OnFill
  <2> QED BY <2>1, <2>2, <2>3 DEF Draining
<1>3. CASE Caller
  <2>1. CASE Start
    <3>1. running' /\ drain'.at = "check" /\ caller'.at = "submit"
      BY <2>1, DrainTyped DEF Start, Goto, IInv, TypeOK, DrainPlaces
    <3> QED BY <3>1 DEF Draining
  <2>2. CASE Submit
    <3>1. UNCHANGED <<running, drain>> /\ caller.at = "push" /\ caller'.at = "submit"
      BY <2>2 DEF Submit, drainVars, IInv, TypeOK
    <3> QED BY <3>1 DEF Draining
  <2>3. CASE NextStream
    <3>1. caller'.at = "idle"
      BY <2>3 DEF NextStream
    <3> QED BY <3>1 DEF Draining
  <2>4. ASSUME NEW place, Goto(place), drain' = drain,
               place \in {"submit", "push", "wait", "stop"} =>
                 running' = running /\ caller.at \in {"submit", "push", "wait", "stop"},
               place = "stopped" => drain.at = "exited"
        PROVE  Draining'
    <3>1. caller'.at = place
      BY <2>4 DEF Goto, IInv, TypeOK
    <3> QED BY <2>4, <3>1 DEF Draining
  <2>5. CASE StartFails \/ Stop \/ StopEngine \/ JoinEngine \/ JoinDrain
    BY <2>4, <2>5 DEF StartFails, Stop, StopEngine, JoinEngine, JoinDrain, CallerOnly, drainVars
  <2>6. CASE StreamEnds \/ Stamp \/ WaitUntilDrained
    BY <2>4, <2>6 DEF StreamEnds, Stamp, WaitUntilDrained, CallerOnly, callerRest, drainVars
  <2> QED BY <1>3, <2>1, <2>2, <2>3, <2>5, <2>6 DEF Caller
<1>4. CASE UNCHANGED vars
  BY <1>4, StutterFrame DEF Draining
<1> QED BY <1>1, <1>2, <1>3, <1>4 DEF Next

\* Once the caller has waited, the engine holds no message and no report.
LEMMA Idle ==
  ASSUME IInv, Counters, Settled, Waited
  PROVE  inbound = <<>> /\ engine.at \notin {"exec", "rest_exec"}
<1>1. messages = accepted /\ messages <= processed
  BY DEF Settled, Counters
<1>2. accepted = processed + InHand + Len(inbound)
  BY DEF IInv, Counting
<1>3. InHand \in Nat /\ Len(inbound) \in Nat /\ processed \in Nat /\ messages \in Nat
  BY EngineTyped DEF InHand
<1> HIDE DEF InHand
<1>4. InHand = 0 /\ Len(inbound) = 0
  BY <1>1, <1>2, <1>3
<1>5. inbound = <<>>
  BY <1>4, EngineTyped, EmptySeq
<1> QED BY <1>4, <1>5 DEF InHand

LEMMA SettledStep ==
  ASSUME IInv, IInv', Counters, Counters', Draining, Settled, [Next]_vars
  PROVE  Settled'
<1>1. CASE UNCHANGED vars
  BY <1>1, StutterFrame DEF Settled, Waited
<1>2. CASE Engine
  <2>1. UNCHANGED <<caller, program, accepted, timed_out, drain>>
    BY <1>2, EngineFrame
  <2> SUFFICES ASSUME Waited PROVE UNCHANGED <<messages, outbound>>
    BY <2>1 DEF Settled, Waited
  <2> QED BY <1>2, Idle DEF Engine, EngineCheck, EnginePop, EngineRest, OnExecution, MessageDone
<1>3. CASE Drain
  <2>1. UNCHANGED <<caller, program, accepted, timed_out, messages>>
    BY <1>3, DrainFrame
  <2>2. drain'.at = "exited" => outbound = <<>> /\ outbound' = <<>>
    BY <1>3, DrainTyped DEF Drain, DrainCheck, DrainPoll, OnFill
  <2> QED BY <2>1, <2>2 DEF Settled, Waited
<1>4. CASE Caller
  <2>1. UNCHANGED <<messages, outbound>>
    BY <1>4, CallerFrame
  <2>2. CASE WaitUntilDrained
    <3>1. /\ caller.at = "wait" /\ UNCHANGED <<program, accepted, drain>>
          /\ caller'.stream = caller.stream
          /\ messages >= Len(Stream) \/ timed_out'
      BY <2>2 DEF WaitUntilDrained, CallerOnly, drainVars, Goto, IInv, TypeOK
    <3> SUFFICES ASSUME caller.stream = 1, messages >= Len(Stream)
                 PROVE  messages = accepted /\ drain.at # "exited"
      BY <2>1, <3>1 DEF Settled, Waited
    <3>2. accepted < Len(Stream) + 1 /\ messages <= processed /\ drain.at # "exited"
      BY <3>1 DEF Counters, Draining
    <3>3. accepted = processed + InHand + Len(inbound)
      BY DEF IInv, Counting
    <3>4. /\ InHand \in Nat /\ Len(inbound) \in Nat /\ processed \in Nat /\ messages \in Nat
          /\ Len(Stream) \in Nat
      BY EngineTyped, StreamsTyped DEF InHand, Stream, IInv, TypeOK
    <3> HIDE DEF InHand
    <3> QED BY <3>2, <3>3, <3>4
  <2>3. CASE Start \/ StartFails \/ Stamp \/ Submit \/ NextStream
    <3>1. caller'.at \in {"submit", "failed", "push", "idle"}
      <4>1. CASE Start \/ StartFails \/ Stamp
        BY <4>1 DEF Start, StartFails, Stamp, Goto, IInv, TypeOK
      <4>2. CASE Submit
        BY <4>2 DEF Submit, IInv, TypeOK
      <4>3. CASE NextStream
        BY <4>3 DEF NextStream
      <4> QED BY <2>3, <4>1, <4>2, <4>3
    <3> QED BY <3>1 DEF Settled, Waited
  <2>4. CASE StreamEnds
    <3>1. program' = program /\ caller'.at = IF program.waits THEN "wait" ELSE "stop"
      BY <2>4 DEF StreamEnds, Goto, callerRest, IInv, TypeOK
    <3> QED BY <3>1 DEF Settled, Waited
  <2>5. CASE Stop \/ StopEngine \/ JoinEngine \/ JoinDrain
    <3>1. /\ UNCHANGED <<program, accepted, timed_out, drain>> /\ caller'.stream = caller.stream
          /\ caller.at \in {"stop", "stop_engine", "join_engine", "join_drain", "stopped"}
      BY <2>5 DEF Stop, StopEngine, JoinEngine, JoinDrain, Goto, CallerOnly, callerRest, drainVars,
                  IInv, TypeOK
    <3> QED BY <2>1, <3>1 DEF Settled, Waited
  <2> QED BY <1>4, <2>2, <2>3, <2>4, <2>5 DEF Caller
<1> QED BY <1>1, <1>2, <1>3, <1>4 DEF Next

LEMMA InitSettled == Init => Flow /\ Counters /\ Draining /\ Settled
<1> SUFFICES ASSUME Init PROVE Flow /\ Counters /\ Draining /\ Settled
  OBVIOUS
<1>1. Len(Stream) \in Nat
  BY StreamsTyped, RunsTyped, PipelineAssumption DEF Init, Stream
<1> QED BY <1>1 DEF Init, Flow, Counters, Draining, Settled, Waited

\* A caller that waited in time finds every match logged or refused when
\* stop() returns, and every accepted message counted, for every stream and
\* every size of the queues.
THEOREM WaitedLosesNothing == Spec => []NothingLost
<1> DEFINE J == IInv /\ Flow /\ Counters /\ Draining /\ Settled
<1>1. Init => J
  BY InitInv, InitSettled
<1>2. ASSUME J, IInv', [Next]_vars PROVE J'
  <2>1. Counters'
    BY <1>2, CountersStep
  <2> QED BY <1>2, <2>1, FlowStep, DrainingStep, SettledStep
<1>3. J => NothingLost
  <2> SUFFICES ASSUME J, Stopped, caller.stream = 1, program.waits, ~timed_out
               PROVE  Len(fills) = matches - dropped /\ outbound = <<>> /\ messages = accepted
    BY DEF NothingLost
  <2>1. messages = accepted /\ drain.at = "exited" /\ outbound = <<>>
    BY DEF Settled, Waited, Draining, Stopped
  <2>2. Len(drain.rpt) = 0 /\ Len(outbound) = 0
    BY <2>1, DrainTyped
  <2>3. Len(fills) \in Nat /\ dropped \in Nat /\ matches \in Nat
    BY FillsTyped, EngineTyped
  <2> QED BY <2>1, <2>2, <2>3 DEF Flow
<1> QED BY <1>1, <1>2, <1>3, Inductive, PTL DEF Spec
-----------------------------------------------------------------------------
(***************************************************************************)
(* The tick-to-trade samples: an order that is stamped before it is        *)
(* submitted is still stamped when its first report is drained.            *)
(***************************************************************************)
\* The new orders the caller has gone past in its stream.
Passed == {Stream[i].order_id : i \in {k \in 1 .. caller.msg - 1 : Stream[k].msg_type = "NewOrder"}}

\* The new orders the engine has not taken yet.
Waiting == {inbound[i].order_id : i \in {k \in 1 .. Len(inbound) : inbound[k].msg_type = "NewOrder"}}

\* The reports that on_fill() has yet to see.
Elements(s) == {s[i] : i \in 1 .. Len(s)}
Pending == Elements(drain.rpt) \cup Elements(outbound) \cup Elements(engine.reports)

\* t holds no report of an aggressor that a report of s executed against.
Apart(s, t) == \A r \in Elements(s), q \in Elements(t) : q.order_id # r.contra_order_id

\* An order is an aggressor before it rests: where reports are queued, none is
\* of an aggressor that an earlier one executed against.
AggressorFirst ==
  /\ Apart(drain.rpt, outbound) /\ Apart(drain.rpt, engine.reports) /\ Apart(outbound, engine.reports)
  /\ Apart(engine.reports, engine.reports)
  /\ \A i, j \in 1 .. Len(outbound) : i < j => outbound[j].order_id # outbound[i].contra_order_id
  /\ engine.at \notin {"exec", "rest_exec"} => engine.reports = <<>>

\* A new order is taken once: until then it is in no report and not in the
\* book.
TakenOnce ==
  /\ Waiting \subseteq Passed \ resting
  /\ resting \subseteq Passed
  /\ \A i, j \in 1 .. Len(inbound) :
       inbound[i].msg_type = "NewOrder" /\ inbound[j].msg_type = "NewOrder"
       /\ inbound[i].order_id = inbound[j].order_id => i = j
  /\ \A r \in Pending : {r.order_id, r.contra_order_id} \subseteq Passed \ Waiting

\* The entry of an aggressor is there until a report of it has been drained.
Stamped ==
  /\ Waiting \subseteq DOMAIN recv_by_order
  /\ caller.at = "push" /\ Message.msg_type = "NewOrder" => Message.order_id \in DOMAIN recv_by_order
  /\ \A r \in Pending :
       r.order_id \in DOMAIN recv_by_order \/ \E i \in 1 .. Len(fills) : fills[i].rpt.order_id = r.order_id

\* An order that has been timed has no entry and gets none.
TimedOnce ==
  \A i \in 1 .. Len(fills) : fills[i].entry # NoOrder => fills[i].entry \in Passed \ DOMAIN recv_by_order

\* A program that passes no receive times has no entries to use.
Untimed ==
  program.clocks = {} => DOMAIN recv_by_order = {} /\ \A i \in 1 .. Len(fills) : fills[i].entry = NoOrder

Timing ==
  /\ Untimed
  /\ program.clocks # {} => AggressorFirst /\ TakenOnce /\ Stamped /\ TimedOnce
----------------------------------------------------------------------------
(***************************************************************************)
(* The queues as sets.                                                     *)
(***************************************************************************)
LEMMA ElementsAppend ==
  ASSUME NEW S, NEW s \in Seq(S), NEW e \in S
  PROVE  Elements(Append(s, e)) = Elements(s) \cup {e}
<1>1. /\ Len(s) \in Nat /\ Len(Append(s, e)) = Len(s) + 1
      /\ \A i \in 1 .. Len(s) : Append(s, e)[i] = s[i]
      /\ Append(s, e)[Len(s) + 1] = e
  BY AppendProperties, LenProperties
<1>2. 1 .. Len(s) + 1 = (1 .. Len(s)) \cup {Len(s) + 1}
  BY <1>1
<1> QED BY <1>1, <1>2 DEF Elements

LEMMA ElementsTail ==
  ASSUME NEW S, NEW s \in Seq(S), s # <<>>
  PROVE  Elements(s) = {Head(s)} \cup Elements(Tail(s))
<1>1. /\ Len(s) \in Nat /\ Len(s) >= 1 /\ Len(Tail(s)) = Len(s) - 1 /\ Head(s) = s[1]
      /\ \A i \in 1 .. Len(Tail(s)) : Tail(s)[i] = s[i + 1]
  BY HeadTailProperties, LenProperties, EmptySeq
<1>2. \A i \in 1 .. Len(s) : i = 1 \/ (i - 1 \in 1 .. Len(Tail(s)) /\ s[i] = Tail(s)[i - 1])
  BY <1>1
<1>3. \A i \in 1 .. Len(Tail(s)) : i + 1 \in 1 .. Len(s) /\ s[i + 1] = Tail(s)[i]
  BY <1>1
<1>4. 1 \in 1 .. Len(s)
  BY <1>1
<1>5. ASSUME NEW x \in Elements(s) PROVE x \in {Head(s)} \cup Elements(Tail(s))
  <2>1. PICK i \in 1 .. Len(s) : x = s[i]
    BY DEF Elements
  <2> QED BY <1>1, <1>2, <2>1 DEF Elements
<1>6. ASSUME NEW x \in Elements(Tail(s)) PROVE x \in Elements(s)
  <2>1. PICK i \in 1 .. Len(Tail(s)) : x = Tail(s)[i]
    BY DEF Elements
  <2>2. i + 1 \in 1 .. Len(s) /\ x = s[i + 1]
    BY <1>3, <2>1
  <2> QED BY <2>2 DEF Elements
<1>7. Head(s) \in Elements(s)
  BY <1>1, <1>4 DEF Elements
<1> QED BY <1>5, <1>6, <1>7

LEMMA ElementsShort ==
  /\ Elements(<<>>) = {}
  /\ \A e : Elements(<<e>>) = {e}
<1>1. Elements(<<>>) = {}
  BY DEF Elements
<1>2. ASSUME NEW e PROVE Elements(<<e>>) = {e}
  <2>1. Len(<<e>>) = 1 /\ <<e>>[1] = e
    OBVIOUS
  <2> QED BY <2>1 DEF Elements
<1> QED BY <1>1, <1>2

\* The sequences of the invariant have their types.
LEMMA Typed ==
  ASSUME IInv
  PROVE  /\ inbound \in Seq(Messages) /\ outbound \in Seq(Reports) /\ drain.rpt \in Seq(Reports)
         /\ engine.reports \in Seq(Reports) /\ Len(fills) \in Nat
         /\ caller.msg \in Nat /\ caller.msg >= 1 /\ program \in Programs
         /\ Stream \in Seq(Messages) /\ Len(Stream) \in Nat
<1>1. inbound \in Seq(Messages) /\ outbound \in Seq(Reports) /\ engine.reports \in Seq(Reports)
  BY EngineTyped
<1>2. drain.rpt \in Seq(Reports)
  BY DrainTyped
<1>3. caller.msg \in Nat /\ caller.stream \in 1 .. Len(Streams) /\ program \in Callers
  BY DEF IInv, TypeOK
<1>4. caller.msg >= 1
  BY DEF IInv, InRange
<1> QED BY <1>1, <1>2, <1>3, <1>4, FillsTyped, StreamsTyped, PipelineAssumption DEF Stream

\* A program that passes receive times submits one stream.
LEMMA TimedRuns ==
  ASSUME IInv, program.clocks # {}
  PROVE  Runs = 1 /\ caller.stream = 1
<1>1. program # RunStream
  BY DEF RunStream
<1>2. Runs = 1
  BY <1>1 DEF Runs
<1> QED BY <1>2, RunsTyped DEF IInv, InRange, TypeOK

\* A new order of the stream is submitted once.
LEMMA MessageIsNew ==
  ASSUME IInv, caller.msg <= Len(Stream), Message.msg_type = "NewOrder"
  PROVE  Message.order_id \notin Passed
<1> SUFFICES ASSUME NEW i \in 1 .. caller.msg - 1, Stream[i].msg_type = "NewOrder",
                    Stream[i].order_id = Message.order_id
             PROVE  FALSE
  BY DEF Passed
<1>1. i \in 1 .. Len(Stream) /\ caller.msg \in 1 .. Len(Stream) /\ i # caller.msg
  BY Typed
<1>2. caller.stream \in 1 .. Len(Streams)
  BY DEF IInv, TypeOK
<1> QED BY <1>1, <1>2, DistinctNewOrders DEF Message, Stream

\* What the engine's matching can report and rest.
LEMMA OutcomeShape ==
  ASSUME NEW msg \in Messages, resting \subseteq OrderIds, NEW out \in ProcessMessage(msg)
  PROVE  /\ out.resting \subseteq resting \cup {msg.order_id}
         /\ msg.msg_type # "NewOrder" => out.resting \subseteq resting /\ out.reports = <<>>
         /\ \A r \in Elements(out.reports) :
              r.order_id = msg.order_id /\ r.contra_order_id \in resting \ {msg.order_id}
<1> DEFINE o == msg.order_id
<1>1. CASE msg.msg_type = "NewOrder"
  <2>1. PICK hit \in UNION {SetToSeqs(makers) : makers \in SUBSET (resting \ {o})} :
          out \in AddOrder(o, hit)
    BY <1>1 DEF ProcessMessage
  <2>2. PICK makers \in SUBSET (resting \ {o}) : hit \in SetToSeqs(makers)
    BY <2>1
  <2>3. hit \in [1 .. Cardinality(makers) -> makers] /\ Cardinality(makers) \in Nat
    BY <2>2, FS_Subset, FS_CardinalityType, PipelineAssumption DEF SetToSeqs
  <2>4. hit \in Seq(makers)
    BY <2>3
  <2>5. Len(hit) \in Nat /\ \A i \in 1 .. Len(hit) : hit[i] \in resting \ {o}
    BY <2>4
  <2>6. out.reports = [i \in 1 .. Len(hit) |-> [order_id |-> o, contra_order_id |-> hit[i]]]
    BY <2>1 DEF AddOrder
  <2>7. out.resting \subseteq resting \cup {o}
    <3>1. hit # <<>> => Last(hit) \in resting
      BY <2>4 DEF Last
    <3> QED BY <2>1, <3>1 DEF AddOrder
  <2>8. \A r \in Elements(out.reports) : r.order_id = o /\ r.contra_order_id \in resting \ {o}
    <3>1. Len(out.reports) = Len(hit)
      BY <2>5, <2>6
    <3> QED BY <2>5, <2>6, <3>1 DEF Elements
  <2> QED BY <1>1, <2>7, <2>8
<1>2. ASSUME NEW books, books \subseteq SUBSET resting, out \in [reports: {<<>>}, resting: books]
      PROVE  out.resting \subseteq resting /\ out.reports = <<>>
  BY <1>2
<1>3. CASE msg.msg_type # "NewOrder"
  <2>1. out.resting \subseteq resting /\ out.reports = <<>>
    <3>1. CASE msg.msg_type = "CancelOrder"
      <4>1. out \in [reports: {<<>>}, resting: {resting \ {o}}]
        BY <3>1 DEF ProcessMessage
      <4> QED BY <1>2, <4>1
    <3>2. CASE msg.msg_type = "ModifyOrder"
      <4>1. out \in [reports: {<<>>}, resting: {resting, resting \ {o}}]
        BY <3>2 DEF ProcessMessage
      <4> QED BY <1>2, <4>1
    <3>3. CASE msg.msg_type = "Heartbeat"
      <4>1. out \in [reports: {<<>>}, resting: {resting}]
        BY <3>3 DEF ProcessMessage
      <4> QED BY <1>2, <4>1
    <3> QED BY <1>3, <3>1, <3>2, <3>3 DEF Messages
  <2> QED BY <1>3, <2>1, ElementsShort
<1> QED BY <1>1, <1>3
----------------------------------------------------------------------------
(***************************************************************************)
(* The steps of a program that passes receive times.                       *)
(***************************************************************************)
TimedInv == AggressorFirst /\ TakenOnce /\ Stamped /\ TimedOnce

\* A step that moves no message, no report and no entry.
LEMMA QuietStep ==
  ASSUME IInv, TimedInv,
         UNCHANGED <<inbound, outbound, resting, recv_by_order, fills>>,
         drain'.rpt = drain.rpt, engine'.reports = engine.reports,
         caller'.stream = caller.stream, caller'.msg = caller.msg,
         caller'.at = "push" => caller.at = "push",
         engine'.at \notin {"exec", "rest_exec"} =>
           engine.at \notin {"exec", "rest_exec"} \/ engine.reports = <<>>
  PROVE  TimedInv'
<1>1. Stream' = Stream /\ Message' = Message
  BY DEF Stream, Message
<1>2. Passed' = Passed
  BY <1>1 DEF Passed
<1>3. Waiting' = Waiting /\ Pending' = Pending
  BY DEF Waiting, Pending
<1>4. AggressorFirst'
  BY DEF TimedInv, AggressorFirst, Apart
<1>5. TakenOnce'
  BY <1>2, <1>3 DEF TimedInv, TakenOnce
<1>6. Stamped'
  BY <1>1, <1>3 DEF TimedInv, Stamped
<1>7. TimedOnce'
  BY <1>2 DEF TimedInv, TimedOnce
<1> QED BY <1>4, <1>5, <1>6, <1>7 DEF TimedInv

LEMMA StampTimed ==
  ASSUME IInv, TimedInv, program.clocks # {}, Stamp
  PROVE  TimedInv'
<1>1. /\ UNCHANGED <<inbound, outbound, resting, fills, drain, engine>>
      /\ caller.msg <= Len(Stream)
      /\ DOMAIN recv_by_order' = IF Message.msg_type = "NewOrder"
                                 THEN DOMAIN recv_by_order \cup {Message.order_id} ELSE DOMAIN recv_by_order
  BY DEF Stamp, Noted, engineVars, drainVars
<1>2. caller'.stream = caller.stream /\ caller'.msg = caller.msg
  BY DEF Stamp, Goto, IInv, TypeOK
<1>3. Stream' = Stream /\ Message' = Message
  BY <1>2 DEF Stream, Message
<1>4. Passed' = Passed
  BY <1>2, <1>3 DEF Passed
<1>5. Waiting' = Waiting /\ Pending' = Pending
  BY <1>1 DEF Waiting, Pending
<1>6. AggressorFirst'
  BY <1>1 DEF TimedInv, AggressorFirst, Apart
<1>7. TakenOnce'
  BY <1>1, <1>4, <1>5 DEF TimedInv, TakenOnce
<1>8. Stamped'
  BY <1>1, <1>3, <1>5 DEF TimedInv, Stamped
<1>9. TimedOnce'
  BY <1>1, <1>4, MessageIsNew DEF TimedInv, TimedOnce
<1> QED BY <1>6, <1>7, <1>8, <1>9 DEF TimedInv

LEMMA SubmitTimed ==
  ASSUME IInv, TimedInv, program.clocks # {}, Submit
  PROVE  TimedInv'
<1>1. UNCHANGED <<outbound, resting, recv_by_order, fills, drain, engine>>
  BY DEF Submit, engineVars, drainVars
<1>2. caller.at = "push" /\ caller.msg <= Len(Stream) /\ caller.msg \in 1 .. Len(Stream)
  BY Typed DEF Submit, IInv, InRange
<1>3. Message \in Messages
  BY <1>2, Typed DEF Message
<1>4. /\ caller'.at = "submit" /\ caller'.stream = caller.stream
      /\ caller'.msg \in {caller.msg, caller.msg + 1}
  BY DEF Submit, IInv, TypeOK
<1>5. Stream' = Stream
  BY <1>4 DEF Stream
<1>6. /\ Passed \subseteq Passed'
      /\ caller'.msg = caller.msg + 1 /\ Message.msg_type = "NewOrder" => Message.order_id \in Passed'
  <2>1. \A i \in 1 .. caller.msg - 1 : i \in 1 .. caller'.msg - 1
    BY <1>4, Typed
  <2>2. caller'.msg = caller.msg + 1 => caller.msg \in 1 .. caller'.msg - 1
    BY Typed
  <2> QED BY <1>5, <2>1, <2>2 DEF Passed, Message
<1>7. Pending' = Pending
  BY <1>1 DEF Pending
<1>8. AggressorFirst'
  BY <1>1 DEF TimedInv, AggressorFirst, Apart
<1>9. TimedOnce'
  BY <1>1, <1>6 DEF TimedInv, TimedOnce
<1>10. CASE inbound' = inbound
  <2>1. Waiting' = Waiting
    BY <1>10 DEF Waiting
  <2>2. TakenOnce'
    BY <1>1, <1>6, <1>7, <1>10, <2>1 DEF TimedInv, TakenOnce
  <2>3. Stamped'
    BY <1>1, <1>4, <1>7, <2>1 DEF TimedInv, Stamped
  <2> QED BY <1>8, <1>9, <2>2, <2>3 DEF TimedInv
<1>11. CASE inbound' = Append(inbound, Message) /\ caller'.msg = caller.msg + 1
  <2>1. /\ Len(inbound) \in Nat /\ Len(inbound') = Len(inbound) + 1
        /\ \A i \in 1 .. Len(inbound) : inbound'[i] = inbound[i]
        /\ inbound'[Len(inbound) + 1] = Message
    BY <1>3, <1>11, Typed, AppendProperties, LenProperties
  <2>2. \A i \in 1 .. Len(inbound') :
          \/ i \in 1 .. Len(inbound) /\ inbound'[i] = inbound[i]
          \/ i = Len(inbound) + 1 /\ inbound'[i] = Message
    BY <2>1
  <2>3. /\ Waiting' \subseteq Waiting \cup {Message.order_id}
        /\ Message.msg_type # "NewOrder" => Waiting' \subseteq Waiting
    BY <2>2 DEF Waiting
  <2>4. Message.msg_type = "NewOrder" =>
          Message.order_id \notin Passed /\ Message.order_id \in Passed' /\ Message.order_id \in DOMAIN recv_by_order
    BY <1>2, <1>6, <1>11, MessageIsNew DEF TimedInv, Stamped
  <2>5. TakenOnce'
    <3>1. Waiting' \subseteq Passed' \ resting' /\ resting' \subseteq Passed'
      BY <1>1, <1>6, <2>3, <2>4 DEF TimedInv, TakenOnce
    <3>2. \A r \in Pending' : {r.order_id, r.contra_order_id} \subseteq Passed' \ Waiting'
      BY <1>6, <1>7, <2>3, <2>4 DEF TimedInv, TakenOnce
    <3>3. \A i \in 1 .. Len(inbound) : inbound[i].msg_type = "NewOrder" => inbound[i].order_id \in Passed
      BY DEF TimedInv, TakenOnce, Waiting
    <3>4. ASSUME NEW i \in 1 .. Len(inbound'), NEW j \in 1 .. Len(inbound'),
                 inbound'[i].msg_type = "NewOrder", inbound'[j].msg_type = "NewOrder",
                 inbound'[i].order_id = inbound'[j].order_id
          PROVE  i = j
      <4>1. CASE i \in 1 .. Len(inbound) /\ j \in 1 .. Len(inbound)
        BY <2>1, <3>4, <4>1 DEF TimedInv, TakenOnce
      <4>2. CASE i \in 1 .. Len(inbound) /\ j = Len(inbound) + 1
        BY <2>1, <2>4, <3>3, <3>4, <4>2
      <4>3. CASE i = Len(inbound) + 1 /\ j \in 1 .. Len(inbound)
        BY <2>1, <2>4, <3>3, <3>4, <4>3
      <4> QED BY <2>2, <4>1, <4>2, <4>3
    <3> QED BY <3>1, <3>2, <3>4 DEF TakenOnce
  <2>6. Stamped'
    BY <1>1, <1>4, <1>7, <2>3, <2>4 DEF TimedInv, Stamped
  <2> QED BY <1>8, <1>9, <2>5, <2>6 DEF TimedInv
<1> QED BY <1>4, <1>10, <1>11 DEF Submit, IInv, TypeOK

\* The engine takes a message: a new order leaves Waiting as it enters the
\* book and the reports.
LEMMA TakeTimed ==
  ASSUME IInv, TimedInv, NEW place, TakeMessage(place), engine.at \notin {"exec", "rest_exec"},
         place \in {"exec", "rest_exec"},
         UNCHANGED <<caller, outbound, recv_by_order, fills, drain>>
  PROVE  TimedInv'
<1> DEFINE m == Head(inbound)
<1>1. PICK out \in ProcessMessage(m) :
        engine' = [at |-> place, reports |-> out.reports] /\ resting' = out.resting
  BY DEF TakeMessage
<1>2. inbound # <<>> /\ inbound' = Tail(inbound)
  BY DEF TakeMessage
<1>3. /\ m \in Messages /\ m = inbound[1] /\ Len(inbound) \in Nat /\ Len(inbound) >= 1
      /\ Len(inbound') = Len(inbound) - 1
      /\ \A i \in 1 .. Len(inbound') : inbound'[i] = inbound[i + 1] /\ i + 1 \in 1 .. Len(inbound)
  BY <1>2, Typed, HeadTailProperties, LenProperties, EmptySeq
<1> HIDE DEF m
<1>4. /\ resting' \subseteq resting \cup {m.order_id}
      /\ m.msg_type # "NewOrder" => resting' \subseteq resting /\ engine'.reports = <<>>
      /\ \A r \in Elements(engine'.reports) :
           r.order_id = m.order_id /\ r.contra_order_id \in resting \ {m.order_id}
  BY <1>1, <1>3, EngineTyped, OutcomeShape
<1>5. Stream' = Stream /\ Message' = Message /\ Passed' = Passed
  BY DEF Stream, Message, Passed
<1>6. Waiting' \subseteq Waiting /\ (m.msg_type = "NewOrder" => m.order_id \in Waiting \ Waiting')
  <2>1. Waiting' \subseteq Waiting
    BY <1>3 DEF Waiting
  <2>2. ASSUME m.msg_type = "NewOrder" PROVE m.order_id \in Waiting
    <3>1. 1 \in 1 .. Len(inbound)
      BY <1>3
    <3> QED BY <1>3, <2>2, <3>1 DEF Waiting
  <2>3. ASSUME m.msg_type = "NewOrder", m.order_id \in Waiting' PROVE FALSE
    <3>1. PICK i \in 1 .. Len(inbound') : inbound'[i].msg_type = "NewOrder" /\ inbound'[i].order_id = m.order_id
      BY <2>3 DEF Waiting
    <3>2. i + 1 \in 1 .. Len(inbound) /\ 1 \in 1 .. Len(inbound) /\ i + 1 # 1
      BY <1>3, <3>1
    <3>3. inbound[i + 1].msg_type = "NewOrder" /\ inbound[i + 1].order_id = inbound[1].order_id
          /\ inbound[1].msg_type = "NewOrder"
      BY <1>3, <2>3, <3>1
    <3> QED BY <3>2, <3>3 DEF TimedInv, TakenOnce
  <2> QED BY <2>1, <2>2, <2>3
<1>7. Elements(engine.reports) = {}
  BY ElementsShort DEF TimedInv, AggressorFirst
<1>8. /\ Elements(drain.rpt) \subseteq Pending /\ Elements(outbound) \subseteq Pending
      /\ Pending' = Pending \cup Elements(engine'.reports)
  BY <1>7 DEF Pending
<1>9. Elements(engine'.reports) # {} => m.msg_type = "NewOrder"
  BY <1>4, ElementsShort
<1>10. \A r \in Elements(engine'.reports) :
         /\ m.order_id \in Waiting \ Waiting' /\ r.order_id = m.order_id
         /\ r.contra_order_id \in resting \ {m.order_id}
  BY <1>4, <1>6, <1>9
<1>11. AggressorFirst'
  <2>1. Apart(drain.rpt, outbound)'
    BY DEF TimedInv, AggressorFirst, Apart
  <2>2. \A r \in Pending : r.contra_order_id \notin Waiting
    BY DEF TimedInv, TakenOnce
  <2>3. Apart(drain.rpt, engine.reports)' /\ Apart(outbound, engine.reports)'
    BY <1>8, <1>10, <2>2 DEF Apart
  <2>4. engine'.at \in {"exec", "rest_exec"}
    BY <1>1
  <2>5. Apart(engine.reports, engine.reports)'
    BY <1>10 DEF Apart
  <2> QED BY <2>1, <2>3, <2>4, <2>5 DEF TimedInv, AggressorFirst
<1>12. TakenOnce'
  <2>1. Waiting' \subseteq Passed' \ resting'
    <3>1. Waiting \cap resting = {} /\ Waiting \subseteq Passed
      BY DEF TimedInv, TakenOnce
    <3>2. CASE m.msg_type = "NewOrder"
      BY <1>4, <1>5, <1>6, <3>1, <3>2
    <3>3. CASE m.msg_type # "NewOrder"
      BY <1>4, <1>5, <1>6, <3>1, <3>3
    <3> QED BY <3>2, <3>3
  <2>2. resting' \subseteq Passed'
    <3>1. Waiting \subseteq Passed /\ resting \subseteq Passed
      BY DEF TimedInv, TakenOnce
    <3>2. CASE m.msg_type = "NewOrder"
      BY <1>4, <1>5, <1>6, <3>1, <3>2
    <3>3. CASE m.msg_type # "NewOrder"
      BY <1>4, <1>5, <3>1, <3>3
    <3> QED BY <3>2, <3>3
  <2>3. ASSUME NEW r \in Pending'
        PROVE  {r.order_id, r.contra_order_id} \subseteq Passed' \ Waiting'
    <3>1. CASE r \in Pending
      BY <1>5, <1>6, <3>1 DEF TimedInv, TakenOnce
    <3>2. CASE r \in Elements(engine'.reports)
      <4>1. Waiting \subseteq Passed \ resting /\ resting \subseteq Passed
        BY DEF TimedInv, TakenOnce
      <4> QED BY <1>5, <1>6, <1>10, <3>2, <4>1
    <3> QED BY <1>8, <3>1, <3>2
  <2>4. ASSUME NEW i \in 1 .. Len(inbound'), NEW j \in 1 .. Len(inbound'),
               inbound'[i].msg_type = "NewOrder", inbound'[j].msg_type = "NewOrder",
               inbound'[i].order_id = inbound'[j].order_id
        PROVE  i = j
    <3>1. /\ i + 1 \in 1 .. Len(inbound) /\ j + 1 \in 1 .. Len(inbound)
          /\ inbound'[i] = inbound[i + 1] /\ inbound'[j] = inbound[j + 1]
      BY <1>3
    <3>2. i + 1 = j + 1
      BY <2>4, <3>1 DEF TimedInv, TakenOnce
    <3> QED BY <3>2
  <2> QED BY <2>1, <2>2, <2>3, <2>4 DEF TakenOnce
<1>13. Stamped'
  <2>1. Waiting \subseteq DOMAIN recv_by_order
    BY DEF TimedInv, Stamped
  <2>2. \A r \in Pending' :
          r.order_id \in DOMAIN recv_by_order \/ \E i \in 1 .. Len(fills) : fills[i].rpt.order_id = r.order_id
    BY <1>8, <1>10, <2>1 DEF TimedInv, Stamped
  <2> QED BY <1>5, <1>6, <2>1, <2>2 DEF TimedInv, Stamped
<1>14. TimedOnce'
  BY <1>5 DEF TimedInv, TimedOnce
<1> QED BY <1>11, <1>12, <1>13, <1>14 DEF TimedInv

\* A report goes from the engine's hands to the queue, or is dropped.
LEMMA OnExecutionTimed ==
  ASSUME IInv, TimedInv, OnExecution
  PROVE  TimedInv'
<1> DEFINE h == Head(engine.reports)
<1>1. /\ engine.reports # <<>> /\ engine' = [engine EXCEPT !.reports = Tail(@)]
      /\ UNCHANGED <<resting, caller, program, drain, fills, inbound, recv_by_order>>
      /\ engine.at \in {"exec", "rest_exec"}
  <2>1. UNCHANGED <<resting, caller, program, drain, fills, inbound, recv_by_order>>
    BY DEF OnExecution, callerVars, callerRest, drainVars
  <2> QED BY <2>1 DEF OnExecution
<1>2. /\ h \in Reports /\ Elements(engine.reports) = {h} \cup Elements(engine'.reports)
      /\ engine'.at = engine.at
  <2>1. engine.reports \in Seq(Reports) /\ engine'.reports = Tail(engine.reports) /\ engine'.at = engine.at
    BY <1>1, EngineTyped
  <2> QED BY <1>1, <2>1, ElementsTail, HeadTailProperties
<1>3. outbound \in Seq(Reports) /\ Len(outbound) \in Nat
  BY EngineTyped
<1>4. \/ outbound' = outbound
      \/ outbound' = Append(outbound, h)
  BY DEF OnExecution
<1> HIDE DEF h
<1>5. Elements(outbound') \subseteq Elements(outbound) \cup {h}
  <2>1. Elements(Append(outbound, h)) = Elements(outbound) \cup {h}
    BY <1>2, <1>3, ElementsAppend
  <2> QED BY <1>4, <2>1
<1>6. Stream' = Stream /\ Message' = Message /\ Passed' = Passed /\ Waiting' = Waiting
  BY <1>1 DEF Stream, Message, Passed, Waiting
<1>7. Pending' \subseteq Pending
  BY <1>1, <1>2, <1>5 DEF Pending
<1>8. AggressorFirst'
  <2>1. /\ Apart(drain.rpt, outbound) /\ Apart(drain.rpt, engine.reports) /\ Apart(outbound, engine.reports)
        /\ Apart(engine.reports, engine.reports)
    BY DEF TimedInv, AggressorFirst
  <2>2. Apart(drain.rpt, outbound)' /\ Apart(drain.rpt, engine.reports)'
    BY <1>1, <1>2, <1>5, <2>1 DEF Apart
  <2>3. Apart(outbound, engine.reports)'
    <3>1. \A q \in Elements(engine.reports) : q.order_id # h.contra_order_id
      BY <1>2, <2>1 DEF Apart
    <3> QED BY <1>2, <1>5, <2>1, <3>1 DEF Apart
  <2>4. \A i, j \in 1 .. Len(outbound') : i < j => outbound'[j].order_id # outbound'[i].contra_order_id
    <3>1. CASE outbound' = outbound
      BY <3>1 DEF TimedInv, AggressorFirst
    <3>2. CASE outbound' = Append(outbound, h)
      <4>1. /\ Len(outbound') = Len(outbound) + 1 /\ outbound'[Len(outbound) + 1] = h
            /\ \A i \in 1 .. Len(outbound) : outbound'[i] = outbound[i] /\ outbound[i] \in Elements(outbound)
        BY <1>2, <1>3, <3>2, AppendProperties DEF Elements
      <4>2. h \in Elements(engine.reports)
        BY <1>2
      <4> SUFFICES ASSUME NEW i \in 1 .. Len(outbound'), NEW j \in 1 .. Len(outbound'), i < j
                   PROVE  outbound'[j].order_id # outbound'[i].contra_order_id
        OBVIOUS
      <4>3. CASE j \in 1 .. Len(outbound)
        <5>1. i \in 1 .. Len(outbound)
          BY <1>3, <4>1, <4>3
        <5> QED BY <4>1, <4>3, <5>1 DEF TimedInv, AggressorFirst
      <4>4. CASE j = Len(outbound) + 1
        <5>1. i \in 1 .. Len(outbound)
          BY <1>3, <4>1, <4>4
        <5> QED BY <2>1, <4>1, <4>2, <4>4, <5>1 DEF Apart
      <4> QED BY <1>3, <4>1, <4>3, <4>4
    <3> QED BY <1>4, <3>1, <3>2
  <2>5. engine'.at \in {"exec", "rest_exec"}
    BY <1>1, <1>2
  <2>6. Apart(engine.reports, engine.reports)'
    BY <1>2, <2>1 DEF Apart
  <2> QED BY <2>2, <2>3, <2>4, <2>5, <2>6 DEF AggressorFirst
<1>9. TakenOnce'
  BY <1>1, <1>6, <1>7 DEF TimedInv, TakenOnce
<1>10. Stamped'
  BY <1>1, <1>6, <1>7 DEF TimedInv, Stamped
<1>11. TimedOnce'
  BY <1>1, <1>6 DEF TimedInv, TimedOnce
<1> QED BY <1>8, <1>9, <1>10, <1>11 DEF TimedInv

\* The drain thread takes a report off the queue.
LEMMA DrainPollTimed ==
  ASSUME IInv, TimedInv, DrainPoll, outbound # <<>>
  PROVE  TimedInv'
<1> DEFINE h == Head(outbound)
<1>1. UNCHANGED <<caller, engine, resting, fills, inbound, recv_by_order>>
  BY DEF DrainPoll, callerVars, engineVars
<1>2. /\ outbound' = Tail(outbound) /\ drain'.rpt = <<h>> /\ Len(drain.rpt) = 0
  BY DrainTyped DEF DrainPoll
<1>3. /\ outbound \in Seq(Reports) /\ Len(outbound) \in Nat /\ Len(outbound) >= 1
      /\ Len(outbound') = Len(outbound) - 1 /\ h = outbound[1]
      /\ \A i \in 1 .. Len(outbound') : outbound'[i] = outbound[i + 1]
  BY <1>2, EngineTyped, HeadTailProperties, EmptySeq
<1>4. Elements(outbound) = {h} \cup Elements(outbound') /\ Elements(drain'.rpt) = {h}
  BY <1>2, <1>3, ElementsTail, ElementsShort
<1> HIDE DEF h
<1>5. Stream' = Stream /\ Message' = Message /\ Passed' = Passed /\ Waiting' = Waiting
  BY <1>1 DEF Stream, Message, Passed, Waiting
<1>6. Pending' \subseteq Pending
  BY <1>1, <1>4 DEF Pending
<1>7. AggressorFirst'
  <2>1. /\ Apart(drain.rpt, engine.reports)' /\ Apart(outbound, engine.reports)'
        /\ Apart(engine.reports, engine.reports)'
    BY <1>1, <1>4 DEF TimedInv, AggressorFirst, Apart
  <2>2. Apart(drain.rpt, outbound)'
    <3> SUFFICES ASSUME NEW q \in Elements(outbound') PROVE q.order_id # h.contra_order_id
      BY <1>4 DEF Apart
    <3>1. PICK i \in 1 .. Len(outbound') : q = outbound'[i]
      BY DEF Elements
    <3>2. i + 1 \in 1 .. Len(outbound) /\ 1 \in 1 .. Len(outbound) /\ 1 < i + 1 /\ q = outbound[i + 1]
      BY <1>3, <3>1
    <3> QED BY <1>3, <3>2 DEF TimedInv, AggressorFirst
  <2>3. \A i, j \in 1 .. Len(outbound') : i < j => outbound'[j].order_id # outbound'[i].contra_order_id
    <3> SUFFICES ASSUME NEW i \in 1 .. Len(outbound'), NEW j \in 1 .. Len(outbound'), i < j
                 PROVE  outbound'[j].order_id # outbound'[i].contra_order_id
      OBVIOUS
    <3>1. i + 1 \in 1 .. Len(outbound) /\ j + 1 \in 1 .. Len(outbound) /\ i + 1 < j + 1
      BY <1>3
    <3> QED BY <1>3, <3>1 DEF TimedInv, AggressorFirst
  <2> QED BY <1>1, <2>1, <2>2, <2>3 DEF TimedInv, AggressorFirst
<1>8. TakenOnce'
  BY <1>1, <1>5, <1>6 DEF TimedInv, TakenOnce
<1>9. Stamped'
  BY <1>1, <1>5, <1>6 DEF TimedInv, Stamped
<1>10. TimedOnce'
  BY <1>1, <1>5 DEF TimedInv, TimedOnce
<1> QED BY <1>7, <1>8, <1>9, <1>10 DEF TimedInv

\* What on_fill() does to the fills, the entries and the drain thread's hands.
LEMMA OnFillShape ==
  ASSUME IInv, OnFill
  PROVE  LET r == drain.rpt[1] IN
         /\ r \in Reports /\ Elements(drain.rpt) = {r} /\ drain'.rpt = <<>>
         /\ Len(fills) \in Nat /\ Len(fills') = Len(fills) + 1
         /\ \A i \in 1 .. Len(fills) : fills'[i] = fills[i]
         /\ fills'[Len(fills) + 1].rpt = r /\ fills'[Len(fills) + 1].entry = TimedOrder(r)
         /\ fills'[Len(fills) + 1].sample = IF TimedOrder(r) # NoOrder /\ NotAhead(TimedOrder(r))
                                           THEN TimedOrder(r) ELSE NoOrder
         /\ DOMAIN recv_by_order' = DOMAIN recv_by_order \ {TimedOrder(r)}
<1> DEFINE S == Fills
           new == Fill(drain.rpt[1])
<1>1. drain.rpt \in Seq(Reports) /\ Len(drain.rpt) = 1
  BY DrainTyped DEF OnFill
<1>2. drain.rpt[1] \in Reports /\ Elements(drain.rpt) = {drain.rpt[1]}
  BY <1>1 DEF Elements
<1>3. drain'.rpt = <<>> /\ DOMAIN recv_by_order' = DOMAIN recv_by_order \ {TimedOrder(drain.rpt[1])}
  BY DEF OnFill, Restrict
<1>4. fills' = Append(fills, new) /\ fills \in Seq(S) /\ new \in S
  BY FillTyped DEF OnFill, IInv, TypeOK
<1>5. /\ new.rpt = drain.rpt[1] /\ new.entry = TimedOrder(drain.rpt[1])
      /\ new.sample = IF TimedOrder(drain.rpt[1]) # NoOrder /\ NotAhead(TimedOrder(drain.rpt[1]))
                      THEN TimedOrder(drain.rpt[1]) ELSE NoOrder
  BY DEF Fill
<1> HIDE DEF S, new
<1>6. /\ Len(fills) \in Nat /\ Len(fills') = Len(fills) + 1
      /\ \A i \in 1 .. Len(fills) : fills'[i] = fills[i]
      /\ fills'[Len(fills) + 1] = new
  BY <1>4, AppendProperties, LenProperties
<1> QED BY <1>2, <1>3, <1>5, <1>6

LEMMA OnFillTimed ==
  ASSUME IInv, TimedInv, OnFill
  PROVE  TimedInv'
<1> DEFINE r == drain.rpt[1]
<1>1. UNCHANGED <<caller, engine, resting, inbound, outbound>>
  BY DEF OnFill, callerVars, engineVars
<1>2. /\ Elements(drain.rpt) = {r} /\ Elements(drain'.rpt) = {}
      /\ Len(fills) \in Nat /\ Len(fills') = Len(fills) + 1
      /\ \A i \in 1 .. Len(fills) : fills'[i] = fills[i]
      /\ fills'[Len(fills) + 1].rpt = r /\ fills'[Len(fills) + 1].entry = TimedOrder(r)
      /\ DOMAIN recv_by_order' = DOMAIN recv_by_order \ {TimedOrder(r)}
  BY OnFillShape, ElementsShort
<1>3. /\ r \in Pending /\ Pending' \subseteq Pending
      /\ \A q \in Pending' : q.order_id # r.contra_order_id
  BY <1>1, <1>2 DEF Pending, TimedInv, AggressorFirst, Apart
<1>4. /\ TimedOrder(r) \in {r.order_id, r.contra_order_id, NoOrder}
      /\ TimedOrder(r) # NoOrder => TimedOrder(r) \in DOMAIN recv_by_order
  BY DEF TimedOrder
<1> HIDE DEF r
<1>5. Stream' = Stream /\ Message' = Message /\ Passed' = Passed /\ Waiting' = Waiting
  BY <1>1 DEF Stream, Message, Passed, Waiting
<1>6. r.order_id \in Passed \ Waiting /\ r.contra_order_id \in Passed \ Waiting
  BY <1>3 DEF TimedInv, TakenOnce
<1>7. \A o \in DOMAIN recv_by_order : o \notin {r.order_id, r.contra_order_id} => o \in DOMAIN recv_by_order'
  <2>1. DOMAIN recv_by_order \subseteq OrderIds /\ NoOrder \notin OrderIds
    BY PipelineAssumption DEF IInv, TypeOK
  <2> QED BY <1>2, <1>4, <2>1
<1>8. AggressorFirst'
  BY <1>1, <1>2 DEF TimedInv, AggressorFirst, Apart
<1>9. TakenOnce'
  BY <1>1, <1>3, <1>5 DEF TimedInv, TakenOnce
<1>10. Stamped'
  <2>1. Waiting' \subseteq DOMAIN recv_by_order'
    BY <1>5, <1>6, <1>7 DEF TimedInv, Stamped
  <2>2. ASSUME caller'.at = "push", Message'.msg_type = "NewOrder"
        PROVE  Message'.order_id \in DOMAIN recv_by_order'
    <3>1. caller.at = "push" /\ Message.msg_type = "NewOrder" /\ Message'.order_id = Message.order_id
      BY <1>1, <1>5, <2>2
    <3>2. Message.order_id \in DOMAIN recv_by_order /\ caller.msg <= Len(Stream)
      BY <3>1 DEF TimedInv, Stamped, IInv, InRange
    <3>3. Message.order_id \notin Passed
      BY <3>1, <3>2, MessageIsNew
    <3> QED BY <1>6, <1>7, <3>1, <3>2, <3>3
  <2>3. ASSUME NEW q \in Pending'
        PROVE  \/ q.order_id \in DOMAIN recv_by_order'
               \/ \E i \in 1 .. Len(fills') : fills'[i].rpt.order_id = q.order_id
    <3>1. CASE q.order_id = r.order_id
      <4>1. Len(fills) + 1 \in 1 .. Len(fills')
        BY <1>2
      <4> QED BY <1>2, <3>1, <4>1
    <3>2. CASE q.order_id \in DOMAIN recv_by_order /\ q.order_id # r.order_id
      BY <1>3, <1>7, <3>2
    <3>3. CASE \E i \in 1 .. Len(fills) : fills[i].rpt.order_id = q.order_id
      <4>1. PICK i \in 1 .. Len(fills) : fills[i].rpt.order_id = q.order_id
        BY <3>3
      <4>2. i \in 1 .. Len(fills')
        BY <1>2
      <4> QED BY <1>2, <4>1, <4>2
    <3>4. q \in Pending
      BY <1>3
    <3> QED BY <3>1, <3>2, <3>3, <3>4 DEF TimedInv, Stamped
  <2> QED BY <2>1, <2>2, <2>3 DEF Stamped
<1>11. TimedOnce'
  <2> SUFFICES ASSUME NEW i \in 1 .. Len(fills'), fills'[i].entry # NoOrder
               PROVE  fills'[i].entry \in Passed \ DOMAIN recv_by_order'
    BY <1>5 DEF TimedOnce
  <2>1. CASE i \in 1 .. Len(fills)
    BY <1>2, <2>1 DEF TimedInv, TimedOnce
  <2>2. CASE i = Len(fills) + 1
    BY <1>2, <1>4, <1>6, <2>2
  <2> QED BY <1>2, <2>1, <2>2
<1> QED BY <1>8, <1>9, <1>10, <1>11 DEF TimedInv

\* on_fill() uses the entry of the aggressor when it is the first report of it,
\* and one that no earlier report has used.
LEMMA OnFillSamples ==
  ASSUME IInv, program.clocks # {} => TimedInv, Untimed, FirstFillTimed, OnFill
  PROVE  FirstFillTimed'
<1> DEFINE r == drain.rpt[1]
<1>1. program' = program
  BY DEF OnFill, callerVars, callerRest
<1>2. /\ Elements(drain.rpt) = {r}
      /\ Len(fills) \in Nat /\ Len(fills') = Len(fills) + 1
      /\ \A i \in 1 .. Len(fills) : fills'[i] = fills[i]
      /\ fills'[Len(fills) + 1].rpt = r /\ fills'[Len(fills) + 1].entry = TimedOrder(r)
      /\ fills'[Len(fills) + 1].sample = IF TimedOrder(r) # NoOrder /\ NotAhead(TimedOrder(r))
                                        THEN TimedOrder(r) ELSE NoOrder
  BY OnFillShape
<1>3. r \in Pending
  BY <1>2 DEF Pending
<1>4. /\ TimedOrder(r) # NoOrder => TimedOrder(r) \in DOMAIN recv_by_order
      /\ r.order_id \in DOMAIN recv_by_order => TimedOrder(r) = r.order_id
  BY DEF TimedOrder
<1> HIDE DEF r
<1> SUFFICES ASSUME NEW i \in 1 .. Len(fills')
             PROVE  /\ program.clocks # {} /\ (\A j \in 1 .. i - 1 : fills'[j].rpt.order_id # fills'[i].rpt.order_id) =>
                         fills'[i].entry = fills'[i].rpt.order_id
                    /\ fills'[i].entry # NoOrder => \A j \in 1 .. i - 1 : fills'[j].entry # fills'[i].entry
                    /\ "realtime" \notin program.clocks => fills'[i].sample = fills'[i].entry
                    /\ "steady" \notin program.clocks => fills'[i].sample = NoOrder
  BY <1>1 DEF FirstFillTimed
<1>5. CASE i \in 1 .. Len(fills)
  <2>1. \A j \in 1 .. i - 1 : j \in 1 .. Len(fills) /\ fills'[j] = fills[j]
    BY <1>2, <1>5
  <2>2. fills'[i] = fills[i]
    BY <1>2, <1>5
  <2>3. /\ program.clocks # {} /\ (\A j \in 1 .. i - 1 : fills[j].rpt.order_id # fills[i].rpt.order_id) =>
             fills[i].entry = fills[i].rpt.order_id
        /\ fills[i].entry # NoOrder => \A j \in 1 .. i - 1 : fills[j].entry # fills[i].entry
        /\ "realtime" \notin program.clocks => fills[i].sample = fills[i].entry
        /\ "steady" \notin program.clocks => fills[i].sample = NoOrder
    BY <1>5 DEF FirstFillTimed
  <2> QED BY <2>1, <2>2, <2>3
<1>6. CASE i = Len(fills) + 1
  <2>1. 1 .. i - 1 = 1 .. Len(fills)
    BY <1>2, <1>6
  <2>2. fills'[i].rpt = r /\ fills'[i].entry = TimedOrder(r)
    BY <1>2, <1>6
  <2>3. ASSUME program.clocks # {}, \A j \in 1 .. Len(fills) : fills[j].rpt.order_id # r.order_id
        PROVE  TimedOrder(r) = r.order_id
    <3>1. r.order_id \in DOMAIN recv_by_order
      BY <1>3, <2>3 DEF TimedInv, Stamped
    <3> QED BY <1>4, <3>1
  <2>4. ASSUME TimedOrder(r) # NoOrder, NEW j \in 1 .. Len(fills)
        PROVE  fills[j].entry # TimedOrder(r)
    <3>1. TimedOrder(r) \in DOMAIN recv_by_order
      BY <1>4, <2>4
    <3>2. program.clocks # {}
      BY <3>1 DEF Untimed
    <3> QED BY <2>4, <3>1, <3>2 DEF TimedInv, TimedOnce
  <2>5. /\ "realtime" \notin program.clocks => fills'[i].sample = TimedOrder(r)
        /\ "steady" \notin program.clocks => fills'[i].sample = NoOrder
    <3>1. program.clocks \subseteq {"steady", "realtime"}
      BY PipelineAssumption DEF IInv, TypeOK, Programs, Clocks
    <3>2. \A o \in DOMAIN recv_by_order : recv_by_order[o] \in program.clocks
      BY DEF IInv, TypeOK
    <3> QED BY <1>2, <1>4, <1>6, <3>1, <3>2 DEF NotAhead
  <2> QED BY <1>2, <2>1, <2>2, <2>3, <2>4, <2>5
<1> QED BY <1>2, <1>5, <1>6
----------------------------------------------------------------------------
LEMMA TimedStep ==
  ASSUME IInv, TimedInv, program.clocks # {}, [Next]_vars
  PROVE  TimedInv'
<1>1. CASE Caller
  <2>1. CASE Stamp \/ Submit
    BY <2>1, StampTimed, SubmitTimed
  <2>2. CASE Start
    <3>1. /\ UNCHANGED <<inbound, outbound, resting, recv_by_order, fills>>
          /\ drain'.rpt = drain.rpt /\ engine'.reports = engine.reports
          /\ caller'.stream = caller.stream /\ caller'.msg = caller.msg /\ caller'.at = "submit"
      BY <2>2 DEF Start, Goto, IInv, TypeOK
    <3>2. engine.at \notin {"exec", "rest_exec"}
      BY <2>2 DEF Start, IInv, Lifecycle
    <3> QED BY <3>1, <3>2, QuietStep
  <2>3. CASE NextStream
    BY <2>3, TimedRuns DEF NextStream
  <2>4. ASSUME NEW place, Goto(place), place # "push",
               UNCHANGED <<engineVars, inbound, outbound, recv_by_order, fills, drain>>
        PROVE  TimedInv'
    <3>1. caller'.stream = caller.stream /\ caller'.msg = caller.msg /\ caller'.at = place
      BY <2>4 DEF Goto, IInv, TypeOK
    <3>2. UNCHANGED <<engine, resting>>
      BY <2>4 DEF engineVars
    <3> QED BY <2>4, <3>1, <3>2, QuietStep
  <2>5. CASE StartFails \/ StreamEnds \/ WaitUntilDrained \/ Stop \/ StopEngine \/ JoinEngine
    BY <2>4, <2>5 DEF StartFails, StreamEnds, WaitUntilDrained, Stop, StopEngine, JoinEngine,
                      CallerOnly, drainVars
  <2>6. CASE JoinDrain
    BY <2>4, <2>6 DEF JoinDrain
  <2> QED BY <1>1, <2>1, <2>2, <2>3, <2>5, <2>6 DEF Caller
<1>2. CASE Engine
  <2>1. UNCHANGED <<caller, drain, fills, recv_by_order>>
    BY <1>2, EngineFrame
  <2>2. ASSUME engine'.reports = engine.reports, UNCHANGED <<inbound, outbound, resting>>,
               engine.at \in {"exec", "rest_exec"} => engine.reports = <<>>
        PROVE  TimedInv'
    BY <2>1, <2>2, QuietStep
  <2>3. CASE EngineCheck
    BY <2>2, <2>3, EngineTyped DEF EngineCheck
  <2>4. CASE EnginePop
    <3>1. CASE TakeMessage("exec")
      BY <2>1, <2>4, <3>1, TakeTimed DEF EnginePop
    <3>2. CASE NothingToTake("check")
      BY <2>2, <2>4, <3>2, EngineTyped DEF EnginePop, NothingToTake
    <3> QED BY <2>4, <3>1, <3>2 DEF EnginePop
  <2>5. CASE EngineRest
    <3>1. CASE TakeMessage("rest_exec")
      BY <2>1, <2>5, <3>1, TakeTimed DEF EngineRest
    <3>2. CASE NothingToTake("exited")
      BY <2>2, <2>5, <3>2, EngineTyped DEF EngineRest, NothingToTake
    <3> QED BY <2>5, <3>1, <3>2 DEF EngineRest
  <2>6. CASE MessageDone
    BY <2>2, <2>6, EngineTyped DEF MessageDone
  <2> QED BY <1>2, <2>3, <2>4, <2>5, <2>6, OnExecutionTimed DEF Engine
<1>3. CASE Drain
  <2>1. UNCHANGED <<caller, engine, resting, inbound>>
    BY <1>3, DrainFrame
  <2>2. CASE DrainCheck
    BY <2>1, <2>2, DrainTyped, QuietStep DEF DrainCheck
  <2>3. CASE DrainPoll /\ outbound = <<>>
    BY <2>1, <2>3, DrainTyped, QuietStep DEF DrainPoll
  <2> QED BY <1>3, <2>2, <2>3, DrainPollTimed, OnFillTimed DEF Drain
<1>4. CASE UNCHANGED vars
  BY <1>4, StutterFrame, QuietStep
<1> QED BY <1>1, <1>2, <1>3, <1>4 DEF Next

LEMMA UntimedStep ==
  ASSUME IInv, Untimed, [Next]_vars
  PROVE  Untimed' /\ program' = program
<1>1. CASE UNCHANGED <<program, recv_by_order, fills>>
  BY <1>1 DEF Untimed
<1>2. CASE Stamp
  BY <1>2 DEF Stamp, callerRest, drainVars, Untimed, Noted
<1>3. CASE OnFill
  <2>1. program' = program
    BY <1>3 DEF OnFill, callerVars, callerRest
  <2> SUFFICES ASSUME program.clocks = {} PROVE Untimed'
    BY <2>1 DEF Untimed
  <2>2. DOMAIN recv_by_order = {} /\ TimedOrder(drain.rpt[1]) = NoOrder
    BY DEF Untimed, TimedOrder
  <2>3. \A i \in 1 .. Len(fills') : i \in 1 .. Len(fills) \/ i = Len(fills) + 1
    BY <1>3, OnFillShape
  <2> QED BY <1>3, <2>1, <2>2, <2>3, OnFillShape DEF Untimed
<1>4. CASE Caller /\ ~Stamp
  BY <1>1, <1>4 DEF Caller, Start, StartFails, Submit, StreamEnds, WaitUntilDrained, Stop, StopEngine,
                    JoinEngine, JoinDrain, NextStream, callerRest, CallerOnly, drainVars
<1>5. CASE Engine
  BY <1>1, <1>5, EngineFrame
<1>6. CASE DrainCheck \/ DrainPoll
  BY <1>1, <1>6 DEF DrainCheck, DrainPoll, callerVars, callerRest
<1> QED BY <1>1, <1>2, <1>3, <1>4, <1>5, <1>6, StutterFrame DEF Next, Drain

LEMMA FirstFillStep ==
  ASSUME IInv, program.clocks # {} => TimedInv, Untimed, FirstFillTimed, [Next]_vars
  PROVE  FirstFillTimed'
<1>1. CASE OnFill
  BY <1>1, OnFillSamples
<1>2. CASE ~OnFill
  <2>1. program' = program
    BY UntimedStep
  <2>2. fills' = fills
    BY <1>2, CallerFrame, EngineFrame, StutterFrame DEF Next, Drain, DrainCheck, DrainPoll
  <2> QED BY <2>1, <2>2 DEF FirstFillTimed
<1> QED BY <1>1, <1>2

LEMMA InitTiming == Init => Timing /\ FirstFillTimed
<1> SUFFICES ASSUME Init PROVE Timing /\ FirstFillTimed
  OBVIOUS
<1>1. /\ inbound = <<>> /\ outbound = <<>> /\ drain.rpt = <<>> /\ engine.reports = <<>> /\ fills = <<>>
      /\ resting = {} /\ DOMAIN recv_by_order = {} /\ caller.at = "idle" /\ engine.at = "off"
  BY DEF Init
<1>2. Len(fills) = 0 /\ Len(inbound) = 0 /\ Len(outbound) = 0
  BY <1>1
<1>3. Waiting = {} /\ Pending = {}
  BY <1>1, <1>2, ElementsShort DEF Waiting, Pending
<1>4. AggressorFirst
  BY <1>1, <1>2, ElementsShort DEF AggressorFirst, Apart
<1>5. TakenOnce /\ Stamped /\ TimedOnce
  BY <1>1, <1>2, <1>3 DEF TakenOnce, Stamped, TimedOnce
<1>6. Untimed /\ FirstFillTimed
  BY <1>1, <1>2 DEF Untimed, FirstFillTimed
<1> QED BY <1>4, <1>5, <1>6 DEF Timing

\* For every stream whose new orders have ids of their own, the receive time of an
\* aggressor is used at the first of its reports that is drained, and no order's
\* is used twice; of the clock on_fill() reads it is a sample, of the kernel's
\* wall clock it never is.
THEOREM FirstFillIsTimed == Spec => []FirstFillTimed
<1>1. ASSUME IInv, Timing, FirstFillTimed, [Next]_vars
      PROVE  Timing' /\ FirstFillTimed'
  <2>1. Untimed /\ (program.clocks # {} => TimedInv)
    BY <1>1 DEF Timing, TimedInv
  <2>2. Untimed' /\ program' = program
    BY <1>1, <2>1, UntimedStep
  <2>3. program'.clocks # {} => TimedInv'
    BY <1>1, <2>1, <2>2, TimedStep
  <2>4. Timing'
    BY <2>2, <2>3 DEF Timing, TimedInv
  <2> QED BY <1>1, <2>1, <2>4, FirstFillStep
<1> QED BY <1>1, InitTiming, Inductive, PTL DEF Spec
=============================================================================
