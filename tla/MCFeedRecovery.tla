--------------------------- MODULE MCFeedRecovery ---------------------------
(***************************************************************************)
(* One session of three messages, a buffer of two slots, a server that can *)
(* fit two messages into a reply.                                          *)
(***************************************************************************)
EXTENDS FeedRecovery

\* The datagrams of this session.
MCPackets == [session: Sessions, seq_num: 1 .. FinalSeq + 1,
              msg_count: 0 .. MaxReply \cup {kMoldEndOfSessionCount},
              readable: 0 .. MaxReply]
=============================================================================
