---------------------------- MODULE LossyStream -----------------------------
(***************************************************************************)
(* A stream whose oldest bytes may give way: besides what ByteStream does, *)
(* new bytes may be put in although there is no room for all of them.      *)
(* Then the latest bytes stay, as many as fit, still in order.             *)
(***************************************************************************)
EXTENDS ByteStream

CONSTANT Longest    \* bound: the most bytes that come at once

\* What is left of the sequence s if it must fit.
Latest(s) == IF Len(s) > Capacity THEN SubSeq(s, Len(s) - Capacity + 1, Len(s)) ELSE s

Overwrite(n) == /\ content' = Latest(content \o [i \in 1..n |-> After(next, i - 1)])
                /\ next' = After(next, n)

LossyNext == Next \/ \E n \in 1..Longest : Overwrite(n)

LossySpec == Init /\ [][LossyNext]_<<content, next>>
=============================================================================
