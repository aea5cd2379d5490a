--------------------------- MODULE MCFeedReceiver ---------------------------
(***************************************************************************)
(* The receive loop over one-message datagrams and heartbeats of two       *)
(* sessions, the second of which may replace the first at any time, for    *)
(* MaxTime units of the monotonic clock.                                   *)
(***************************************************************************)
EXTENDS FeedReceiver

CONSTANTS MaxSeq, MaxTime, LastSession

MCPackets == [session: Sessions, seq_num: 1 .. MaxSeq, msg_count: {1}, readable: {1}]
             \cup [session: Sessions, seq_num: 1 .. MaxSeq + 1,
                   msg_count: {0}, readable: {0}]

\* No session comes back after another one has replaced it.
OnlyForward == \A c \in session_call' : c.new_session = LastSession

MCReceiverNext == \/ RecvOne /\ OnlyForward
                  \/ PollReply /\ OnlyForward
                  \/ RecvNothing \/ PollEnd \/ LoopTick \/ LoopNoTick \/ Continue
                  \/ Advance /\ mono < MaxTime

MCReceiverSpec == ReceiverInit /\ [][MCReceiverNext]_recvVars
=============================================================================
