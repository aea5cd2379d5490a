---------------------------- MODULE MCSpscQueue ----------------------------
(***************************************************************************)
(* A ring of four slots (three usable), two kinds of items, until MaxPush  *)
(* items have been offered: the positions wrap around more than once.      *)
(***************************************************************************)
EXTENDS SpscQueue

CONSTANT MaxPush    \* bound: pushes begun

MCNext ==
  \/ \E v \in Items : PushLoad(v) /\ pushed < MaxPush
  \/ PushWrite
  \/ PushPublish
  \/ Pop

MCSpec == Init /\ [][MCNext]_vars
=============================================================================
