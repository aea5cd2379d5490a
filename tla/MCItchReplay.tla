---------------------------- MODULE MCItchReplay ----------------------------
(***************************************************************************)
(* Files of up to MaxMsgs messages with up to MaxRef orders, on two prices *)
(* of each side, an engine with room for fewer orders than the feed has.   *)
(***************************************************************************)
EXTENDS ItchReplay

CONSTANT MaxRef

MCRefs == 1..MaxRef
=============================================================================
