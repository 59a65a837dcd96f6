---------------------------- MODULE BoundedFifo ----------------------------
(***************************************************************************)
(* What a bounded lock-free queue of this code base promises its callers:  *)
(* a push that succeeds puts its item at the back, a pop takes the front,  *)
(* and at most Capacity items are inside.  A push or a pop may also fail   *)
(* and change nothing.                                                     *)
(***************************************************************************)
EXTENDS Naturals, Sequences

CONSTANTS Items, Capacity

VARIABLES queue, delivered \* what is inside; everything popped so far

FifoInit == queue = << >> /\ delivered = << >>

FifoPush(item) ==
  /\ Len(queue) < Capacity
  /\ queue' = Append(queue, item)
  /\ UNCHANGED delivered

FifoPop ==
  /\ queue # << >>
  /\ delivered' = Append(delivered, Head(queue))
  /\ queue' = Tail(queue)

FifoNext == (\E item \in Items : FifoPush(item)) \/ FifoPop

FifoSpec == FifoInit /\ [][FifoNext]_<<queue, delivered>>
=============================================================================
