-------------------------------- MODULE Ring --------------------------------
(***************************************************************************)
(* The pointer arithmetic that ringbuf.c and lockfree_ringbuf.c share: a   *)
(* pointer is an offset in 0..Size, and one that has reached the end of    *)
(* the buffer stays there until the next copy.                             *)
(***************************************************************************)
EXTENDS Integers

CONSTANT Size      \* rb->size, rb->buffer_size

ASSUME SizeAssumption == Size \in Nat \ {0}

\* Where the i-th byte of a copy at pointer p lies, in one memcpy or in two.
Pos(p, i) == IF p + i < Size THEN p + i ELSE p + i - Size

\* Mutant: no wrap.
Moved_Mutant(p, len) == p + len

\* The pointer after len bytes: the end of the buffer is not wrapped to 0.
Moved(p, len) == IF p + len > Size THEN p + len - Size ELSE p + len

\* The count of position a from pointer p.
Index(p, a) == IF a >= p THEN a - p ELSE a + Size - p
=============================================================================
