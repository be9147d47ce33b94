----------------------------- MODULE ByteStream -----------------------------
(***************************************************************************)
(* What a ring buffer promises: the bytes that are in it are the latest of *)
(* a stream, in order; new ones come at the end, old ones go at the front. *)
(***************************************************************************)
EXTENDS Naturals, Sequences

CONSTANTS Capacity,
          After(_, _)    \* After(b, i): the i-th byte after b in the stream

VARIABLES content, next  \* next: the byte that follows the last one

Init == content = <<>> /\ next = After(0, 0)

Extend(n) == /\ Len(content) + n <= Capacity
              /\ content' = content \o [i \in 1..n |-> After(next, i - 1)]
              /\ next' = After(next, n)

Remove(n) == /\ content' = SubSeq(content, n + 1, Len(content))
             /\ UNCHANGED next

Next == \E n \in 1..Capacity : Extend(n) \/ (n <= Len(content) /\ Remove(n))

Spec == Init /\ [][Next]_<<content, next>>
=============================================================================
