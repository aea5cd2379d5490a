---------------------------- MODULE BoundedFifo ----------------------------
(***************************************************************************)
(* What a bounded queue promises: items come out in the order in which     *)
(* they went in, each once, and no more than Bound of them wait.           *)
(***************************************************************************)
EXTENDS Integers, Sequences

CONSTANTS Items, Bound

VARIABLES
  q,     \* the items that wait
  out    \* the items taken so far

FifoInit == q = <<>> /\ out = <<>>

Put(v) ==
  /\ Len(q) < Bound
  /\ q' = Append(q, v)
  /\ UNCHANGED out

Get ==
  /\ q # <<>>
  /\ out' = Append(out, Head(q))
  /\ q' = Tail(q)

FifoNext == Get \/ \E v \in Items : Put(v)

FifoSpec == FifoInit /\ [][FifoNext]_<<q, out>>
=============================================================================
