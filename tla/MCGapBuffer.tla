---------------------------- MODULE MCGapBuffer ----------------------------
(***************************************************************************)
(* A gap buffer of two slots under every datagram of two sessions: every   *)
(* split into packets of one or two messages, truncated or not, heartbeats *)
(* at every position, End of Session after the last message.               *)
(***************************************************************************)
EXTENDS GapBuffer, TLC

CONSTANTS
  MaxSeq,       \* bound: highest sequence number a datagram carries
  MaxPacket,    \* bound: messages in a datagram
  MaxDelivered  \* bound: deliveries after which no walk starts

MCData == {p \in [session: Sessions, seq_num: 0 .. MaxSeq,
                  msg_count: 1 .. MaxPacket, readable: 0 .. MaxPacket] :
             /\ p.readable <= p.msg_count
             /\ p.seq_num + p.msg_count <= MaxSeq + 1}

MCHeartbeat == [session: Sessions, seq_num: 0 .. MaxSeq + 1,
                msg_count: {0}, readable: {0}]

\* A session ends once, after its last message.
MCEndOfSession == [session: Sessions, seq_num: {MaxSeq + 1},
                   msg_count: {kMoldEndOfSessionCount}, readable: {0}]

MCPackets == MCData \cup MCHeartbeat \cup MCEndOfSession

\* No walk starts once MaxDelivered messages have been delivered.
MCIngest == \E p \in Packets, now \in Times :
              Ingest(p, now) /\ (pc' = "idle" \/ Len(delivered) < MaxDelivered)

MCNext == MCIngest \/ IngestStep \/ (\E now \in Times : Tick(now)) \/ Reset
MCSpec == Init /\ [][MCNext]_vars

MCSymmetry == Permutations(Sessions)
=============================================================================
