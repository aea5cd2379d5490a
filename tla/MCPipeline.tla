----------------------------- MODULE MCPipeline -----------------------------
(***************************************************************************)
(* Short streams through queues of one or two slots.                       *)
(***************************************************************************)
EXTENDS Pipeline

CONSTANTS o1, o2, o3, o4

Msg(type, o) == [msg_type |-> type, order_id |-> o]

\* Two orders rest, a third may execute against both, with a cancel between.
MCFourMessages == <<<<Msg("NewOrder", o1), Msg("NewOrder", o2),
                      Msg("CancelOrder", o1), Msg("NewOrder", o3)>>>>

\* Every type of message, and a second stream for run_stream().
MCEveryType == <<<<Msg("NewOrder", o1), Msg("ModifyOrder", o1), Msg("NewOrder", o2),
                   Msg("NewOrder", o3)>>,
                 <<Msg("Heartbeat", o3), Msg("NewOrder", o4), Msg("CancelOrder", o1)>>>>

MCEveryProgram == {RunStream, BenchPipeline, RunFeedPipeline, BenchTickToTrade,
                   RunLivePipeline, RunLiveRecovering}
MCFeedProgram == {RunFeedPipeline}
MCBench == {BenchTickToTrade}
=============================================================================
