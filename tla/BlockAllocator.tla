---------------------------- MODULE BlockAllocator ----------------------------
(***************************************************************************)
(* What an allocator promises its callers: the blocks that are out at any  *)
(* time are disjoint, lie between floor and limit, and leave only when     *)
(* their holder gives them back.  Where a block is placed is left open.    *)
(***************************************************************************)
EXTENDS Integers

CONSTANT Floor

VARIABLES live,   \* the blocks handed out and not yet given back
          limit   \* end of the memory managed

Apart(a, b) == a.base + a.size <= b.base \/ b.base + b.size <= a.base

Init == live = {} /\ limit \in Nat

Allocate ==
  /\ \E b \in live' :
       /\ live' = live \cup {b}
       /\ b.size > 0
       /\ Floor <= b.base /\ b.base + b.size <= limit
       /\ \A a \in live : Apart(a, b)
  /\ UNCHANGED limit

Free ==
  /\ \E b \in live : live' = live \ {b}
  /\ UNCHANGED limit

Grow ==
  /\ limit' \in Nat /\ limit' > limit
  /\ UNCHANGED live

Next == Allocate \/ Free \/ Grow

Spec == Init /\ [][Next]_<<live, limit>>
=============================================================================
