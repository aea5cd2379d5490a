---------------------------- MODULE FeedRecovery ----------------------------
(***************************************************************************)
(* The gap buffer at work in run_live_pipeline, against send_live_itch:    *)
(* the sender publishes one session of FinalSeq messages on a multicast    *)
(* line that loses, repeats and reorders datagrams, and keeps a            *)
(* RerequestServer that records them; the RetransmitClient carries the gap *)
(* buffer's requests to the server and the replies back over UDP, where    *)
(* either may be lost.  A datagram that the sender drops on purpose        *)
(* (drop_pct) is one that never arrives.                                   *)
(*                                                                         *)
(* Clock readings are left to the environment (Times): what matters here   *)
(* is that a due timer eventually fires, not when.                         *)
(***************************************************************************)
EXTENDS GapBuffer, FiniteSets

CONSTANTS
  TheSession,   \* the session being published
  FinalSeq,     \* its last sequence number
  MaxReply      \* messages that fit into a reply (max_payload_bytes)

\* A receiver with a server to ask counts from 1 (run_live_pipeline), and the
\* 1400 bytes of a reply hold fewer messages than the End of Session mark.
ASSUME RecoveryAssumption ==
  /\ TheSession \in Sessions
  /\ FinalSeq \in Nat
  /\ MaxReply \in Nat \ {0} /\ MaxReply < kMoldEndOfSessionCount
  /\ ExpectedFirstSeq = 1

VARIABLES
  store,      \* messages the server has recorded: 1 .. store
  line,       \* data datagrams multicast so far
  sender,     \* what the sender does: publish, linger, over or gone
  failed,     \* sendto() failed and the sender gave up publishing
  reqs,       \* request datagrams in flight
  replies     \* reply datagrams in flight

senderVars == <<store, line, sender, failed>>
netVars == <<senderVars, reqs, replies>>
allVars == <<vars, netVars>>
----------------------------------------------------------------------------
Datagram(seq, count) == [session |-> TheSession, seq_num |-> seq,
                         msg_count |-> count, readable |-> count]
ControlDatagram(seq, count) == [Datagram(seq, count) EXCEPT !.readable = 0]

\* send_ctl(): whatever was published, the control packets announce n_msgs + 1.
Announced == FinalSeq + 1

Heartbeat == ControlDatagram(Announced, 0)
EndOfSession == ControlDatagram(Announced, kMoldEndOfSessionCount)

\* RerequestServer::record_packet() of the next message.
Record == store' = store + 1

\* The next message is recorded, then multicast in a datagram of its own.
Publish ==
  /\ sender = "publish" /\ store < FinalSeq
  /\ Record
  /\ line' = line \cup {Datagram(store + 1, 1)}
  /\ UNCHANGED <<vars, sender, failed, reqs, replies>>

\* sendto() fails on a recorded message: the loop ends, with a heartbeat next.
SendFails ==
  /\ sender = "publish" /\ store < FinalSeq
  /\ Record
  /\ sender' = "linger" /\ failed' = TRUE
  /\ UNCHANGED <<vars, line, reqs, replies>>

\* The last message is out; heartbeats follow.
Linger ==
  /\ sender = "publish" /\ store = FinalSeq
  /\ sender' = "linger"
  /\ UNCHANGED <<vars, store, line, failed, reqs, replies>>

EndSession ==
  /\ sender = "linger"
  /\ sender' = "over"
  /\ UNCHANGED <<vars, store, line, failed, reqs, replies>>

\* The server's thread is joined and the program ends.
SenderExits ==
  /\ sender = "over"
  /\ sender' = "gone"
  /\ UNCHANGED <<vars, store, line, failed, reqs, replies>>

\* RetransmitClient::send(): the request made by a step of the buffer
\* becomes a datagram, unless the send fails or the network loses it.
Send == \/ reqs' = reqs \cup retx_call'
        \/ retx_call' # {} /\ reqs' = reqs

\* MulticastReceiver::recv_one().  The line keeps the datagram: it may
\* arrive again, later than others, or never.
RecvLine(p, now) ==
  /\ Ingest(p, now)
  /\ Send
  /\ UNCHANGED <<senderVars, replies>>

\* RetransmitClient::poll() takes a reply off its socket.
RecvReply(p, now) ==
  /\ p \in replies
  /\ Ingest(p, now)
  /\ Send
  /\ replies' = replies \ {p}
  /\ UNCHANGED senderVars

ReceiverStep ==
  /\ IngestStep
  /\ Send
  /\ UNCHANGED <<senderVars, replies>>

ReceiverTick(now) ==
  /\ Tick(now)
  /\ Send
  /\ UNCHANGED <<senderVars, replies>>
----------------------------------------------------------------------------
(***************************************************************************)
(* The server.                                                             *)
(***************************************************************************)
Rejected(r) == \/ r.session # TheSession
               \/ r.first_seq = 0
               \/ r.count = 0
               \/ r.first_seq > store

\* answer(): as much of the requested range as is stored and fits.
Answer(r) ==
  LET want_end == Least(store + 1, r.first_seq + r.count)
  IN  Datagram(r.first_seq, Least(want_end - r.first_seq, MaxReply))

ServerPoll(r) ==
  /\ sender # "gone" /\ r \in reqs
  /\ reqs' = reqs \ {r}
  /\ replies' = IF Rejected(r) THEN replies ELSE replies \cup {Answer(r)}
  /\ UNCHANGED <<vars, senderVars>>

\* The reply is lost on its way, or to drop_every_nth_reply.
ServerPollLost(r) ==
  /\ sender # "gone" /\ r \in reqs
  /\ ~Rejected(r)
  /\ reqs' = reqs \ {r}
  /\ UNCHANGED <<vars, senderVars, replies>>
----------------------------------------------------------------------------
RecoveryInit ==
  /\ Init
  /\ store = 0
  /\ line = {}
  /\ sender = "publish" /\ failed = FALSE
  /\ reqs = {}
  /\ replies = {}

RecvData == \E p \in line, now \in Times : RecvLine(p, now)
RecvHeartbeat == sender # "publish" /\ \E now \in Times : RecvLine(Heartbeat, now)
RecvEndOfSession == sender \in {"over", "gone"} /\ \E now \in Times : RecvLine(EndOfSession, now)

Polling(p) == \E now \in Times : RecvReply(p, now)
Ticking == \E now \in Times : ReceiverTick(now)

RecoveryNext ==
  \/ Publish \/ SendFails
  \/ Linger \/ EndSession \/ SenderExits
  \/ RecvData
  \/ RecvHeartbeat
  \/ RecvEndOfSession
  \/ \E p \in replies : Polling(p)
  \/ ReceiverStep
  \/ Ticking
  \/ \E r \in reqs : ServerPoll(r) \/ ServerPollLost(r)

\* The receive thread spins: a walk in progress goes on, and as the clock
\* advances a due timer is eventually seen by a tick.  End of Session is sent
\* three times, one of which arrives.  Requests and replies may be lost any finite number of
\* times in a row, not for ever.
TickDue == Ticking /\ retx_call' # {} /\ reqs' # reqs

Fairness ==
  /\ WF_allVars(Linger) /\ WF_allVars(EndSession)
  /\ WF_allVars(Publish)
  /\ WF_allVars(ReceiverStep)
  /\ SF_allVars(RecvEndOfSession)
  /\ SF_allVars(TickDue)
  /\ \A n \in 1 .. FinalSeq :
       /\ SF_allVars(\E r \in reqs : r.first_seq = n /\ ServerPoll(r))
       /\ SF_allVars(\E p \in replies : p.seq_num = n /\ Polling(p))

RecoverySpec == RecoveryInit /\ [][RecoveryNext]_allVars

FairRecoverySpec == RecoverySpec /\ Fairness
----------------------------------------------------------------------------
(***************************************************************************)
(* Properties.                                                             *)
(***************************************************************************)
\* The server is never asked for messages that do not exist yet, and never
\* has to reject a request: the high-water mark runs behind the sender, unless
\* that gave up and announces messages it never published.
RequestsExist ==
  ~failed => \A r \in reqs : ~Rejected(r) /\ r.first_seq + r.count - 1 <= store

\* session_complete() tells the application the truth: every message of the
\* session has been delivered, once, in order.  A session that the sender cut
\* short is never taken for complete.
CompleteIsTrue ==
  session_complete =>
    /\ sender \in {"over", "gone"}
    /\ Len(delivered) = FinalSeq
    /\ \A k \in 1 .. FinalSeq : delivered[k].body = Body(TheSession, k)

\* However datagrams, requests and replies are lost, a receiver that was
\* there from the start ends up with the whole session, unless the sender
\* gives up or stops serving requests first.
EventuallyComplete == <>[](session_complete \/ failed \/ sender = "gone")
=============================================================================
