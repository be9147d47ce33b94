------------------------------ MODULE MCMQueue ------------------------------
(***************************************************************************)
(* MQueue on small instances.  A set is as long as its members together.   *)
(***************************************************************************)
EXTENDS MQueue, TLC

CONSTANTS q1, q2, s1, s2, c1, c2, a1, a2, p1, p2

MCOneSlot == [o \in Obj |-> IF o \in Set THEN Cardinality(Queue) ELSE 1]
MCMixed == [o \in Obj |-> IF o \in Set THEN 3 ELSE IF o = q1 THEN 2 ELSE 1]
MCTwoSlots == [o \in Obj |-> IF o \in Set THEN 2 * Cardinality(Queue) ELSE 2]

\* The theorems that need sets of this length say something of these instances.
ASSUME LongSets == SetsHoldMembers

Consumers == Permutations({c1, c2})
=============================================================================
